--------------------------- MODULE ElectionProofs ---------------------------
(***************************************************************************)
(* Proofs about module Election, for any set of nodes.                     *)
(***************************************************************************)
EXTENDS Election, FiniteSetTheorems, TLAPS

\* A nonempty finite set has a minimal element in every strict order R: the
\* elements that precede it are a smallest set of that kind.
LEMMA HasMinimal ==
  ASSUME NEW S, IsFiniteSet(S), S # {}, NEW R,
         \A x \in S : <<x, x>> \notin R,
         \A x, y, z \in S : <<x, y>> \in R /\ <<y, z>> \in R => <<x, z>> \in R
  PROVE  \E x \in S : \A y \in S : <<y, x>> \notin R
<1> DEFINE Before(x) == {y \in S : <<y, x>> \in R}
           Heads == {Before(x) : x \in S}
<1>1. Heads \subseteq FiniteSubsetsOf(S) /\ Heads # {}
  <2>1. FiniteSubsetsOf(S) = SUBSET S
    BY FS_FiniteSubsetsOfFinite
  <2>2. Heads \subseteq SUBSET S
    OBVIOUS
  <2>3. Heads # {}
    <3>1. PICK x \in S : TRUE
      OBVIOUS
    <3>2. Before(x) \in Heads
      BY <3>1
    <3> QED BY <3>2
  <2> HIDE DEF Heads
  <2> QED BY <2>1, <2>2, <2>3
<1>2. PICK U \in Heads : \A V \in Heads : <<V, U>> \notin StrictSubsetOrdering(S)
  <2> HIDE DEF Heads
  <2>1. IsWellFoundedOn(StrictSubsetOrdering(S), FiniteSubsetsOf(S))
    BY FS_StrictSubsetOrderingWellFounded
  <2> QED BY <1>1, <2>1, WFMin
<1>3. PICK x \in S : U = Before(x)
  BY <1>2
<1>4. ASSUME NEW y \in S, <<y, x>> \in R
      PROVE  FALSE
  <2>1. Before(y) \subseteq Before(x) /\ y \in Before(x) /\ y \notin Before(y)
    BY <1>4
  <2>2. Before(y) \in Heads /\ <<Before(y), Before(x)>> \notin StrictSubsetOrdering(S)
    BY <1>2, <1>3
  <2>3. Before(y) \in SUBSET S /\ Before(x) \in SUBSET S
    OBVIOUS
  <2> HIDE DEF Before, Heads
  <2> QED BY <2>1, <2>2, <2>3 DEF StrictSubsetOrdering
<1> QED BY <1>4

\* A nonempty finite set of numbers has a greatest element...
LEMMA HasGreatest ==
  ASSUME NEW S, S \subseteq Int, IsFiniteSet(S), S # {}
  PROVE  \E x \in S : \A y \in S : y <= x
<1> DEFINE Above == {p \in Int \X Int : p[1] > p[2]}
<1>1. \A x, y \in S : <<y, x>> \in Above <=> y > x
  OBVIOUS
<1>2. \A x \in S : x \in Int
  OBVIOUS
<1> HIDE DEF Above
<1>3. PICK x \in S : \A y \in S : <<y, x>> \notin Above
  <2>1. \A x \in S : <<x, x>> \notin Above
    BY <1>1, <1>2
  <2>2. \A x, y, z \in S : <<x, y>> \in Above /\ <<y, z>> \in Above => <<x, z>> \in Above
    BY <1>1, <1>2
  <2> QED BY <2>1, <2>2, HasMinimal
<1>4. ASSUME NEW y \in S
      PROVE  y <= x
  <2>1. ~ (y > x)
    BY <1>1, <1>3
  <2>2. x \in Int /\ y \in Int
    BY <1>2
  <2> QED BY <2>1, <2>2
<1> QED BY <1>4

\* ... and a least one.
LEMMA HasLeast ==
  ASSUME NEW S, S \subseteq Int, IsFiniteSet(S), S # {}
  PROVE  \E x \in S : \A y \in S : x <= y
<1> DEFINE Below == {p \in Int \X Int : p[1] < p[2]}
<1>1. \A x, y \in S : <<y, x>> \in Below <=> y < x
  OBVIOUS
<1>2. \A x \in S : x \in Int
  OBVIOUS
<1> HIDE DEF Below
<1>3. PICK x \in S : \A y \in S : <<y, x>> \notin Below
  <2>1. \A x \in S : <<x, x>> \notin Below
    BY <1>1, <1>2
  <2>2. \A x, y, z \in S : <<x, y>> \in Below /\ <<y, z>> \in Below => <<x, z>> \in Below
    BY <1>1, <1>2
  <2> QED BY <2>1, <2>2, HasMinimal
<1>4. ASSUME NEW y \in S
      PROVE  x <= y
  <2>1. ~ (y < x)
    BY <1>1, <1>3
  <2>2. x \in Int /\ y \in Int
    BY <1>2
  <2> QED BY <2>1, <2>2
<1> QED BY <1>4

-----------------------------------------------------------------------------
(* Type correctness *)

\* Sending keeps the channels well-typed, wherever the message goes: without a
\* connection to the destination nothing is sent.
LEMMA SentType ==
  ASSUME NEW channels \in [Node -> [Node -> Seq(Message)]],
         NEW n \in Node, NEW to, NEW msg \in Message,
         clients \in [Node -> SUBSET Node]
  PROVE  Sent(n, to, msg, channels) \in [Node -> [Node -> Seq(Message)]]
<1>1. CASE to \in clients[n]
  <2>1. to \in Node
    BY <1>1
  <2>2. Append(channels[n][to], msg) \in Seq(Message)
    BY <2>1
  <2> QED BY <2>1, <2>2 DEF Sent
<1>2. CASE to \notin clients[n]
  BY <1>2 DEF Sent
<1> QED BY <1>1, <1>2

\* What arrives is a message, and taking it keeps the channels well-typed.
LEMMA TakenType ==
  ASSUME TypeOK, NEW n \in Node, NEW m \in Node, chan[m][n] # <<>>
  PROVE  /\ Head(chan[m][n]) \in Message
         /\ Taken(n, m) \in [Node -> [Node -> Seq(Message)]]
<1>1. chan[m][n] \in Seq(Message)
  BY DEF TypeOK
<1>2. Head(chan[m][n]) \in Message /\ Tail(chan[m][n]) \in Seq(Message)
  BY <1>1
<1> QED BY <1>2 DEF Taken, TypeOK

\* The messages the program makes.
LEMMA MessageTypes ==
  ASSUME NEW n \in Node
  PROVE  Election(n) \in Message /\ Elected(n) \in Message /\ KnownLeader(n) \in Message
BY DEF Election, Elected, KnownLeader, Message

\* A thread that goes on stays among its places.
LEMMA PcType ==
  ASSUME TypeOK, NEW n \in Node, NEW t \in Node, NEW place \in Place, Goto(n, t, place)
  PROVE  pc' \in [Node -> [Node -> Place]]
BY DEF TypeOK, Goto

\* Nodes that have crossed are nodes.
LEMMA CrossedType ==
  ASSUME TypeOK, NEW n \in Node, NEW t \in Node, Begin(n, t)
  PROVE  crossed' \in SUBSET Node
BY DEF TypeOK, Begin

\* Initially everything has its type.
LEMMA TypeInit == Init => TypeOK
<1> SUFFICES ASSUME Init PROVE TypeOK
  OBVIOUS
<1>1. <<>> \in Seq(Message)
  OBVIOUS
<1> QED BY <1>1 DEF Init, TypeOK, Place

\* The steps of the main loop's thread keep the types.
LEMMA StepType ==
  ASSUME TypeOK, NEW n \in Node, Step(n)
  PROVE  TypeOK'
<1> USE NoNodeAssumption, NodeAssumption
<1>1. CASE StartElection(n)
  <2>1. chan' \in [Node -> [Node -> Seq(Message)]]
    BY <1>1, SentType, MessageTypes DEF StartElection, TypeOK
  <2> QED BY <1>1, <2>1 DEF StartElection, TypeOK
<1>2. CASE DecideAlone(n)
  <2>1. pc' \in [Node -> [Node -> Place]] /\ crossed' \in SUBSET Node
    BY <1>2, PcType, CrossedType DEF DecideAlone, Place
  <2> QED BY <1>2, <2>1 DEF DecideAlone, network, TypeOK
<1>3. CASE LeadAlone(n)
  <2>1. pc' \in [Node -> [Node -> Place]]
    BY <1>3, PcType DEF LeadAlone, Place
  <2> QED BY <1>3, <2>1 DEF LeadAlone, network, TypeOK
<1>4. CASE NameAlone(n)
  <2>1. pc' \in [Node -> [Node -> Place]]
    BY <1>4, PcType DEF NameAlone, Place
  <2> QED BY <1>4, <2>1 DEF NameAlone, network, TypeOK
<1>5. CASE FindLeaderLost(n)
  <2>1. pc' \in [Node -> [Node -> Place]] /\ crossed' \in SUBSET Node
    BY <1>5, PcType, CrossedType DEF FindLeaderLost, Place
  <2> QED BY <1>5, <2>1 DEF FindLeaderLost, network, TypeOK
<1>6. CASE StopLeading(n)
  <2>1. pc' \in [Node -> [Node -> Place]]
    BY <1>6, PcType DEF StopLeading, Place
  <2> QED BY <1>6, <2>1 DEF StopLeading, network, TypeOK
<1>7. CASE ResetLost(n)
  <2>1. pc' \in [Node -> [Node -> Place]]
    BY <1>7, PcType DEF ResetLost, Place
  <2> QED BY <1>7, <2>1 DEF ResetLost, network, TypeOK
<1>8. CASE ForgetLeader(n)
  <2>1. pc' \in [Node -> [Node -> Place]]
    BY <1>8, PcType DEF ForgetLeader, Place
  <2> QED BY <1>8, <2>1 DEF ForgetLeader, network, TypeOK
<1> QED BY <1>1, <1>2, <1>3, <1>4, <1>5, <1>6, <1>7, <1>8 DEF Step

\* The steps of a receiver thread keep the types.
LEMMA ReceiveType ==
  ASSUME TypeOK, NEW n \in Node, NEW m \in Node, Receive(n, m)
  PROVE  TypeOK'
<1> USE NoNodeAssumption, NodeAssumption
<1>1. CASE OnElection(n, m)
  <2> DEFINE id == Head(chan[m][n]).id
  <2>1. chan[m][n] # <<>>
    BY <1>1 DEF OnElection, Arrives
  <2>2. id \in Node /\ Taken(n, m) \in [Node -> [Node -> Seq(Message)]]
    BY <2>1, TakenType DEF Message
  <2>3. Larger(id, n) \in Node
    BY <2>2 DEF Larger
  <2>4. leaderId[n] # NoNode => leaderId[n] \in Node
    BY DEF TypeOK
  <2>5. chan' \in [Node -> [Node -> Seq(Message)]]
    <3>1. ASSUME leaderId[n] # NoNode,
                 chan' = Sent(n, m, KnownLeader(leaderId[n]), Taken(n, m))
          PROVE  chan' \in [Node -> [Node -> Seq(Message)]]
      BY <3>1, <2>2, <2>4, SentType, MessageTypes DEF TypeOK
    <3>2. ASSUME chan' = Sent(n, NextId(n), Election(Larger(id, n)), Taken(n, m))
          PROVE  chan' \in [Node -> [Node -> Seq(Message)]]
      BY <3>2, <2>2, <2>3, SentType, MessageTypes DEF TypeOK
    <3> QED BY <1>1, <2>2, <3>1, <3>2 DEF OnElection
  <2>6. pc' \in [Node -> [Node -> Place]] /\ crossed' \in SUBSET Node
    <3>1. CASE UNCHANGED <<pc, crossed>>
      BY <3>1 DEF TypeOK
    <3>2. CASE Begin(n, m) /\ Goto(n, m, "elected")
      BY <3>2, PcType, CrossedType DEF Place
    <3> QED BY <1>1, <3>1, <3>2 DEF OnElection
  <2> QED BY <1>1, <2>5, <2>6 DEF OnElection, TypeOK
<1>2. CASE NameItself(n, m)
  <2>1. pc' \in [Node -> [Node -> Place]]
    BY <1>2, PcType DEF NameItself, Place
  <2> QED BY <1>2, <2>1 DEF NameItself, network, TypeOK
<1>3. CASE TakeLead(n, m)
  <2>1. pc' \in [Node -> [Node -> Place]]
    BY <1>3, PcType DEF TakeLead, Place
  <2>2. chan' \in [Node -> [Node -> Seq(Message)]]
    BY <1>3, SentType, MessageTypes DEF TakeLead, TypeOK
  <2> QED BY <1>3, <2>1, <2>2 DEF TakeLead, TypeOK
<1>4. CASE OnLeaderNews(n, m)
  <2>1. chan[m][n] # <<>>
    BY <1>4 DEF OnLeaderNews, Arrives
  <2>2. /\ Head(chan[m][n]).id \in Node
        /\ Taken(n, m) \in [Node -> [Node -> Seq(Message)]]
    BY <2>1, TakenType DEF Message
  <2>3. pc' \in [Node -> [Node -> Place]] /\ crossed' \in SUBSET Node
    <3>1. CASE UNCHANGED <<pc, crossed>>
      BY <3>1 DEF TypeOK
    <3>2. CASE Begin(n, m) /\ Goto(n, m, "told")
      BY <3>2, PcType, CrossedType DEF Place
    <3> QED BY <1>4, <3>1, <3>2 DEF OnLeaderNews
  <2>4. leaderId' \in [Node -> Node \cup {NoNode}]
    BY <1>4, <2>2 DEF OnLeaderNews, TypeOK
  <2> QED BY <1>4, <2>2, <2>3, <2>4 DEF OnLeaderNews, TypeOK
<1>5. CASE FollowLeader(n, m)
  <2>1. pc' \in [Node -> [Node -> Place]]
    BY <1>5, PcType DEF FollowLeader, Place
  <2> QED BY <1>5, <2>1 DEF FollowLeader, network, TypeOK
<1>6. CASE DiscardClient(n, m)
  <2>1. <<>> \in Seq(Message)
    OBVIOUS
  <2>2. crossed' \in SUBSET Node
    BY <1>6, CrossedType DEF DiscardClient
  <2> QED BY <1>6, <2>1, <2>2 DEF DiscardClient, TypeOK
<1> QED BY <1>1, <1>2, <1>3, <1>4, <1>5, <1>6 DEF Receive

\* Every step keeps the types.
LEMMA TypeStep == TypeOK /\ [Next]_vars => TypeOK'
<1> SUFFICES ASSUME TypeOK, [Next]_vars PROVE TypeOK'
  OBVIOUS
<1> USE NoNodeAssumption, NodeAssumption
<1>1. ASSUME NEW n \in Node, Step(n)
      PROVE  TypeOK'
  BY <1>1, StepType
<1>2. ASSUME NEW n \in Node, NEW m \in Node, Receive(n, m)
      PROVE  TypeOK'
  BY <1>2, ReceiveType
<1>3. ASSUME NEW i \in Node, NEW j \in Node, Connect(i, j)
      PROVE  TypeOK'
  <2>1. \A n \in Node : Greeting(n) \in Seq(Message)
    <3> TAKE n \in Node
    <3>1. CASE leaderId[n] = NoNode
      BY <3>1 DEF Greeting
    <3>2. CASE leaderId[n] # NoNode
      <4>1. KnownLeader(leaderId[n]) \in Message
        BY <3>2, MessageTypes DEF TypeOK
      <4> QED BY <3>2, <4>1 DEF Greeting
    <3> QED BY <3>1, <3>2
  <2>2. chan' \in [Node -> [Node -> Seq(Message)]]
    <3> DEFINE half == [chan EXCEPT ![i][j] = Greeting(i)]
    <3>1. half \in [Node -> [Node -> Seq(Message)]]
      BY <2>1 DEF TypeOK
    <3>2. chan' = [half EXCEPT ![j][i] = Greeting(j)]
      BY <1>3 DEF Connect
    <3> HIDE DEF half
    <3> QED BY <3>1, <3>2, <2>1
  <2>3. clients' \in [Node -> SUBSET Node]
    <3>1. clients[i] \cup {j} \in SUBSET Node /\ clients[j] \cup {i} \in SUBSET Node
      BY DEF TypeOK
    <3>2. clients' = [[clients EXCEPT ![i] = @ \cup {j}] EXCEPT ![j] = clients[j] \cup {i}]
      BY <1>3 DEF Connect
    <3> QED BY <3>1, <3>2 DEF TypeOK
  <2> QED BY <1>3, <2>2, <2>3 DEF Connect, TypeOK
<1>4. ASSUME NEW n \in Node, Crash(n)
      PROVE  TypeOK'
  <2>1. <<>> \in Seq(Message)
    OBVIOUS
  <2> QED BY <1>4, <2>1 DEF Crash, TypeOK
<1>5. ASSUME NEW n \in Node, NEW m \in Node, DiscardSecond(n, m)
      PROVE  TypeOK'
  BY <1>5 DEF DiscardSecond, network, TypeOK
<1>6. CASE UNCHANGED vars
  BY <1>6 DEF vars, TypeOK
<1> QED BY <1>1, <1>2, <1>3, <1>4, <1>5, <1>6 DEF Next

\* All variables always have their types: in particular no message without a node
\* in it is ever sent (a KNOWN_LEADER is never sent by a node without a leader).
THEOREM TypeCorrect == Spec => []TypeOK
BY TypeInit, TypeStep, PTL DEF Spec

-----------------------------------------------------------------------------
(* What a node believes about itself, whatever connections are made and lost *)

Waiting(n) == \A t \in Node : pc[n][t] = "wait"

Agreed(n) ==
  /\ n \in leads <=> leaderId[n] = n
  /\ n \in lostLeader => leaderId[n] \notin {n, NoNode}

Leaderless(n) == leaderId[n] = NoNode /\ n \notin leads /\ n \notin lostLeader

\* What holds at a node while its thread t is between two assignments, if no other
\* thread has come in between.
Amid(n, t) ==
  /\ pc[n][t] \in {"elected", "alone"} => Leaderless(n)
  /\ pc[n][t] = "named"   => leaderId[n] = n /\ n \notin leads /\ n \notin lostLeader
  /\ pc[n][t] = "leading" => leaderId[n] = NoNode /\ n \in leads /\ n \notin lostLeader
  /\ pc[n][t] = "told"    => leaderId[n] \notin {n, NoNode}
  /\ pc[n][t] = "lost"    => n \notin leads /\ leaderId[n] \notin {n, NoNode}
  /\ pc[n][t] = "reset"   => n \notin leads
  /\ pc[n][t] = "clear"   => n \notin leads /\ n \notin lostLeader

OneAtATime(n) ==
  \A t, u \in Node : pc[n][t] # "wait" /\ pc[n][u] # "wait" => t = u

\* The inductive invariant: a node whose threads have not crossed is as if its
\* handlers were protected by a lock.
SelfOf(n) ==
  /\ OneAtATime(n)
  /\ Waiting(n) => Agreed(n)
  /\ \A t \in Node : Amid(n, t)

SelfInv == \A n \in Node \ crossed : SelfOf(n)

\* Nothing has happened at first.
LEMMA SelfInit == Init => SelfInv
BY NodeAssumption, NoNodeAssumption
   DEF Init, SelfInv, SelfOf, OneAtATime, Waiting, Agreed, Amid

\* The invariant at n is about n alone.
LEMMA SelfKept ==
  ASSUME NEW n \in Node, SelfOf(n), pc'[n] = pc[n], leaderId'[n] = leaderId[n],
         n \in leads' <=> n \in leads, n \in lostLeader' <=> n \in lostLeader
  PROVE  SelfOf(n)'
BY DEF SelfOf, OneAtATime, Waiting, Agreed, Amid, Leaderless

\* A thread that may begin without crossing another one finds its node at rest.
LEMMA BeginsAtRest ==
  ASSUME NEW n \in Node, NEW t \in Node, SelfOf(n), Begin(n, t), n \notin crossed',
         pc[n][t] = "wait"
  PROVE  Waiting(n) /\ Agreed(n)
BY DEF Begin, Midway, SelfOf, Waiting

\* A thread that is amid its assignments is the only one.
LEMMA OthersWait ==
  ASSUME NEW n \in Node, NEW t \in Node, SelfOf(n), pc[n][t] # "wait"
  PROVE  \A u \in Node \ {t} : pc[n][u] = "wait"
BY DEF SelfOf, OneAtATime

\* When all other threads wait, the invariant is about the place of one thread.
LEMMA SelfFromPlace ==
  ASSUME TypeOK, NEW n \in Node, NEW t \in Node, NEW place \in Place, Goto(n, t, place),
         \A u \in Node \ {t} : pc[n][u] = "wait",
         Amid(n, t)', place = "wait" => Agreed(n)'
  PROVE  SelfOf(n)'
<1>1. pc'[n][t] = place /\ \A u \in Node \ {t} : pc'[n][u] = "wait"
  BY DEF Goto, TypeOK
<1>2. OneAtATime(n)'
  BY <1>1 DEF OneAtATime
<1>3. Waiting(n)' => Agreed(n)'
  BY <1>1 DEF Waiting
<1>4. ASSUME NEW u \in Node
      PROVE  Amid(n, u)'
  <2>1. CASE u = t
    BY <2>1
  <2>2. CASE u # t
    BY <1>1, <2>2 DEF Amid
  <2> QED BY <2>1, <2>2
<1> QED BY <1>2, <1>3, <1>4 DEF SelfOf

\* A node keeps the invariant when something happens to another one.
LEMMA SelfElsewhere ==
  ASSUME TypeOK, SelfInv, NEW n \in Node, NEW k \in Node, k # n, k \notin crossed',
         crossed \subseteq crossed' , pc'[k] = pc[k], leaderId'[k] = leaderId[k],
         k \in leads' <=> k \in leads, k \in lostLeader' <=> k \in lostLeader
  PROVE  SelfOf(k)'
BY SelfKept DEF SelfInv

\* So the invariant is kept by a step of n that keeps it at n.
LEMMA SelfStepOf ==
  ASSUME TypeOK, SelfInv, NEW n \in Node, crossed \subseteq crossed',
         \A k \in Node \ {n} : /\ pc'[k] = pc[k] /\ leaderId'[k] = leaderId[k]
                               /\ k \in leads' <=> k \in leads
                               /\ k \in lostLeader' <=> k \in lostLeader,
         n \notin crossed' => SelfOf(n)'
  PROVE  SelfInv'
<1>1. ASSUME NEW k \in Node, k \notin crossed'
      PROVE  SelfOf(k)'
  <2>1. CASE k = n
    BY <1>1, <2>1
  <2>2. CASE k # n
    BY <1>1, <2>2, SelfElsewhere
  <2> QED BY <2>1, <2>2
<1> QED BY <1>1 DEF SelfInv

\* A thread that begins while another one is amid a handler crosses it.
LEMMA BeginCrosses ==
  ASSUME NEW n \in Node, NEW t \in Node, Begin(n, t)
  PROVE  crossed \subseteq crossed'
BY DEF Begin

\* The steps of the main loop's thread.
LEMMA SelfOfStep ==
  ASSUME TypeOK, SelfInv, NEW n \in Node, Step(n)
  PROVE  SelfInv'
<1> USE NodeAssumption, NoNodeAssumption
<1>1. CASE StartElection(n)
  BY <1>1, SelfKept DEF StartElection, SelfInv
<1>2. CASE DecideAlone(n)
  <2>1. Begin(n, n) /\ Goto(n, n, "alone") /\ pc[n][n] = "wait" /\ leaderId[n] = NoNode
    BY <1>2 DEF DecideAlone, At
  <2>2. UNCHANGED <<leaderId, leads, lostLeader>>
    BY <1>2 DEF DecideAlone
  <2>3. ASSUME n \notin crossed'
        PROVE  SelfOf(n)'
    <3>1. n \notin crossed /\ SelfOf(n)
      BY <2>1, <2>3, BeginCrosses DEF SelfInv
    <3>2. Waiting(n) /\ Agreed(n)
      BY <2>1, <2>3, <3>1, BeginsAtRest
    <3>3. pc'[n][n] = "alone" /\ Leaderless(n)'
      BY <2>1, <2>2, <3>2 DEF Goto, TypeOK, Agreed, Leaderless
    <3>4. Amid(n, n)'
      BY <3>3 DEF Amid
    <3> QED BY <2>1, <3>2, <3>4, SelfFromPlace DEF Place, Waiting
  <2>4. \A k \in Node \ {n} : pc'[k] = pc[k]
    BY <2>1 DEF Goto, TypeOK
  <2> QED BY <2>1, <2>2, <2>3, <2>4, SelfStepOf, BeginCrosses
<1>3. CASE LeadAlone(n)
  <2>1. /\ Goto(n, n, "leading") /\ pc[n][n] = "alone" /\ leads' = leads \cup {n}
        /\ UNCHANGED <<leaderId, lostLeader, crossed>>
    BY <1>3 DEF LeadAlone, At
  <2>2. ASSUME n \notin crossed'
        PROVE  SelfOf(n)'
    <3>1. SelfOf(n) /\ Leaderless(n)
      BY <2>1, <2>2 DEF SelfInv, SelfOf, Amid
    <3>2. pc'[n][n] = "leading"
      BY <2>1 DEF Goto, TypeOK
    <3>3. Amid(n, n)'
      BY <2>1, <3>1, <3>2 DEF Amid, Leaderless
    <3> QED BY <2>1, <3>1, <3>3, OthersWait, SelfFromPlace DEF Place
  <2>3. \A k \in Node \ {n} : pc'[k] = pc[k]
    BY <2>1 DEF Goto, TypeOK
  <2> QED BY <2>1, <2>2, <2>3, SelfStepOf
<1>4. CASE NameAlone(n)
  <2>1. /\ Goto(n, n, "wait") /\ pc[n][n] = "leading" /\ leaderId' = [leaderId EXCEPT ![n] = n]
        /\ UNCHANGED <<leads, lostLeader, crossed>>
    BY <1>4 DEF NameAlone, At
  <2>2. ASSUME n \notin crossed'
        PROVE  SelfOf(n)'
    <3>1. SelfOf(n) /\ n \in leads /\ n \notin lostLeader
      BY <2>1, <2>2 DEF SelfInv, SelfOf, Amid
    <3>2. pc'[n][n] = "wait" /\ leaderId'[n] = n
      BY <2>1 DEF Goto, TypeOK
    <3>3. Amid(n, n)' /\ Agreed(n)'
      BY <2>1, <3>1, <3>2 DEF Amid, Agreed
    <3> QED BY <2>1, <3>1, <3>3, OthersWait, SelfFromPlace DEF Place
  <2>3. \A k \in Node \ {n} : pc'[k] = pc[k] /\ leaderId'[k] = leaderId[k]
    BY <2>1 DEF Goto, TypeOK
  <2> QED BY <2>1, <2>2, <2>3, SelfStepOf
<1>5. CASE FindLeaderLost(n)
  <2>1. Begin(n, n) /\ Goto(n, n, "lost") /\ pc[n][n] = "wait" /\ n \in lostLeader
    BY <1>5 DEF FindLeaderLost, At
  <2>2. UNCHANGED <<leaderId, leads, lostLeader>>
    BY <1>5 DEF FindLeaderLost
  <2>3. ASSUME n \notin crossed'
        PROVE  SelfOf(n)'
    <3>1. n \notin crossed /\ SelfOf(n)
      BY <2>1, <2>3, BeginCrosses DEF SelfInv
    <3>2. Waiting(n) /\ Agreed(n)
      BY <2>1, <2>3, <3>1, BeginsAtRest
    <3>3. pc'[n][n] = "lost"
      BY <2>1 DEF Goto, TypeOK
    <3>4. Amid(n, n)'
      BY <2>1, <2>2, <3>2, <3>3 DEF Amid, Agreed
    <3> QED BY <2>1, <3>2, <3>4, SelfFromPlace DEF Place, Waiting
  <2>4. \A k \in Node \ {n} : pc'[k] = pc[k]
    BY <2>1 DEF Goto, TypeOK
  <2> QED BY <2>1, <2>2, <2>3, <2>4, SelfStepOf, BeginCrosses
<1>6. CASE StopLeading(n)
  <2>1. /\ Goto(n, n, "reset") /\ pc[n][n] = "lost" /\ leads' = leads \ {n}
        /\ UNCHANGED <<leaderId, lostLeader, crossed>>
    BY <1>6 DEF StopLeading, At
  <2>2. ASSUME n \notin crossed'
        PROVE  SelfOf(n)'
    <3>1. SelfOf(n)
      BY <2>1, <2>2 DEF SelfInv
    <3>2. pc'[n][n] = "reset"
      BY <2>1 DEF Goto, TypeOK
    <3>3. Amid(n, n)'
      BY <2>1, <3>2 DEF Amid
    <3> QED BY <2>1, <3>1, <3>3, OthersWait, SelfFromPlace DEF Place
  <2>3. \A k \in Node \ {n} : pc'[k] = pc[k]
    BY <2>1 DEF Goto, TypeOK
  <2> QED BY <2>1, <2>2, <2>3, SelfStepOf
<1>7. CASE ResetLost(n)
  <2>1. /\ Goto(n, n, "clear") /\ pc[n][n] = "reset" /\ lostLeader' = lostLeader \ {n}
        /\ UNCHANGED <<leaderId, leads, crossed>>
    BY <1>7 DEF ResetLost, At
  <2>2. ASSUME n \notin crossed'
        PROVE  SelfOf(n)'
    <3>1. SelfOf(n) /\ n \notin leads
      BY <2>1, <2>2 DEF SelfInv, SelfOf, Amid
    <3>2. pc'[n][n] = "clear"
      BY <2>1 DEF Goto, TypeOK
    <3>3. Amid(n, n)'
      BY <2>1, <3>1, <3>2 DEF Amid
    <3> QED BY <2>1, <3>1, <3>3, OthersWait, SelfFromPlace DEF Place
  <2>3. \A k \in Node \ {n} : pc'[k] = pc[k]
    BY <2>1 DEF Goto, TypeOK
  <2> QED BY <2>1, <2>2, <2>3, SelfStepOf
<1>8. CASE ForgetLeader(n)
  <2>1. /\ Goto(n, n, "wait") /\ pc[n][n] = "clear" /\ leaderId' = [leaderId EXCEPT ![n] = NoNode]
        /\ UNCHANGED <<leads, lostLeader, crossed>>
    BY <1>8 DEF ForgetLeader, At
  <2>2. ASSUME n \notin crossed'
        PROVE  SelfOf(n)'
    <3>1. SelfOf(n) /\ n \notin leads /\ n \notin lostLeader
      BY <2>1, <2>2 DEF SelfInv, SelfOf, Amid
    <3>2. pc'[n][n] = "wait" /\ leaderId'[n] = NoNode /\ NoNode # n
      BY <2>1 DEF Goto, TypeOK
    <3>3. Amid(n, n)' /\ Agreed(n)'
      BY <2>1, <3>1, <3>2 DEF Amid, Agreed
    <3> QED BY <2>1, <3>1, <3>3, OthersWait, SelfFromPlace DEF Place
  <2>3. \A k \in Node \ {n} : pc'[k] = pc[k] /\ leaderId'[k] = leaderId[k]
    BY <2>1 DEF Goto, TypeOK
  <2> QED BY <2>1, <2>2, <2>3, SelfStepOf
<1> QED BY <1>1, <1>2, <1>3, <1>4, <1>5, <1>6, <1>7, <1>8 DEF Step

\* The steps of a receiver thread.
LEMMA SelfOfReceive ==
  ASSUME TypeOK, SelfInv, NEW n \in Node, NEW m \in Node, Receive(n, m)
  PROVE  SelfInv'
<1> USE NodeAssumption, NoNodeAssumption
<1>1. CASE OnElection(n, m)
  <2>1. UNCHANGED <<leaderId, leads, lostLeader>> /\ pc[n][m] = "wait"
    BY <1>1 DEF OnElection, Arrives, At
  <2>2. CASE UNCHANGED <<pc, crossed>>
    BY <2>1, <2>2, SelfKept DEF SelfInv
  <2>3. CASE leaderId[n] = NoNode /\ Begin(n, m) /\ Goto(n, m, "elected")
    <3>1. ASSUME n \notin crossed'
          PROVE  SelfOf(n)'
      <4>1. n \notin crossed /\ SelfOf(n)
        BY <2>3, <3>1, BeginCrosses DEF SelfInv
      <4>2. Waiting(n) /\ Agreed(n)
        BY <2>1, <2>3, <3>1, <4>1, BeginsAtRest
      <4>3. pc'[n][m] = "elected" /\ Leaderless(n)'
        BY <2>1, <2>3, <4>2 DEF Goto, TypeOK, Agreed, Leaderless
      <4>4. Amid(n, m)'
        BY <4>3 DEF Amid
      <4> QED BY <2>3, <4>2, <4>4, SelfFromPlace DEF Place, Waiting
    <3>2. \A k \in Node \ {n} : pc'[k] = pc[k]
      BY <2>3 DEF Goto, TypeOK
    <3> QED BY <2>1, <2>3, <3>1, <3>2, SelfStepOf, BeginCrosses
  <2> QED BY <1>1, <2>2, <2>3 DEF OnElection
<1>2. CASE NameItself(n, m)
  <2>1. /\ Goto(n, m, "named") /\ pc[n][m] = "elected" /\ leaderId' = [leaderId EXCEPT ![n] = n]
        /\ UNCHANGED <<leads, lostLeader, crossed>>
    BY <1>2 DEF NameItself, At
  <2>2. ASSUME n \notin crossed'
        PROVE  SelfOf(n)'
    <3>1. SelfOf(n) /\ n \notin leads /\ n \notin lostLeader
      BY <2>1, <2>2 DEF SelfInv, SelfOf, Amid, Leaderless
    <3>2. pc'[n][m] = "named" /\ leaderId'[n] = n
      BY <2>1 DEF Goto, TypeOK
    <3>3. Amid(n, m)'
      BY <2>1, <3>1, <3>2 DEF Amid
    <3> QED BY <2>1, <3>1, <3>3, OthersWait, SelfFromPlace DEF Place
  <2>3. \A k \in Node \ {n} : pc'[k] = pc[k] /\ leaderId'[k] = leaderId[k]
    BY <2>1 DEF Goto, TypeOK
  <2> QED BY <2>1, <2>2, <2>3, SelfStepOf
<1>3. CASE TakeLead(n, m)
  <2>1. /\ Goto(n, m, "wait") /\ pc[n][m] = "named" /\ leads' = leads \cup {n}
        /\ UNCHANGED <<leaderId, lostLeader, crossed>>
    BY <1>3 DEF TakeLead, At
  <2>2. ASSUME n \notin crossed'
        PROVE  SelfOf(n)'
    <3>1. SelfOf(n) /\ leaderId[n] = n /\ n \notin lostLeader
      BY <2>1, <2>2 DEF SelfInv, SelfOf, Amid
    <3>2. pc'[n][m] = "wait"
      BY <2>1 DEF Goto, TypeOK
    <3>3. Amid(n, m)' /\ Agreed(n)'
      BY <2>1, <3>1, <3>2 DEF Amid, Agreed
    <3> QED BY <2>1, <3>1, <3>3, OthersWait, SelfFromPlace DEF Place
  <2>3. \A k \in Node \ {n} : pc'[k] = pc[k]
    BY <2>1 DEF Goto, TypeOK
  <2> QED BY <2>1, <2>2, <2>3, SelfStepOf
<1>4. CASE OnLeaderNews(n, m)
  <2> DEFINE id == Head(chan[m][n]).id
  <2>1. UNCHANGED <<leads, lostLeader>> /\ pc[n][m] = "wait" /\ chan[m][n] # <<>>
    BY <1>4 DEF OnLeaderNews, Arrives, At
  <2>2. CASE UNCHANGED <<leaderId, pc, crossed>>
    BY <2>1, <2>2, SelfKept DEF SelfInv
  <2>3. CASE /\ id # n /\ leaderId' = [leaderId EXCEPT ![n] = id]
             /\ Begin(n, m) /\ Goto(n, m, "told")
    <3>1. ASSUME n \notin crossed'
          PROVE  SelfOf(n)'
      <4>1. n \notin crossed /\ SelfOf(n)
        BY <2>3, <3>1, BeginCrosses DEF SelfInv
      <4>2. Waiting(n)
        BY <2>1, <2>3, <3>1, <4>1, BeginsAtRest
      <4>3. id \in Node
        BY <2>1, TakenType DEF Message
      <4>4. pc'[n][m] = "told" /\ leaderId'[n] = id
        BY <2>3 DEF Goto, TypeOK
      <4>5. Amid(n, m)'
        BY <2>3, <4>3, <4>4 DEF Amid
      <4> QED BY <2>3, <4>2, <4>5, SelfFromPlace DEF Place, Waiting
    <3>2. \A k \in Node \ {n} : pc'[k] = pc[k] /\ leaderId'[k] = leaderId[k]
      BY <2>3 DEF Goto, TypeOK
    <3> QED BY <2>1, <2>3, <3>1, <3>2, SelfStepOf, BeginCrosses
  <2> QED BY <1>4, <2>2, <2>3 DEF OnLeaderNews
<1>5. CASE FollowLeader(n, m)
  <2>1. /\ Goto(n, m, "wait") /\ pc[n][m] = "told" /\ leads' = leads \ {n}
        /\ UNCHANGED <<leaderId, lostLeader, crossed>>
    BY <1>5 DEF FollowLeader, At
  <2>2. ASSUME n \notin crossed'
        PROVE  SelfOf(n)'
    <3>1. SelfOf(n) /\ leaderId[n] \notin {n, NoNode}
      BY <2>1, <2>2 DEF SelfInv, SelfOf, Amid
    <3>2. pc'[n][m] = "wait"
      BY <2>1 DEF Goto, TypeOK
    <3>3. Amid(n, m)' /\ Agreed(n)'
      BY <2>1, <3>1, <3>2 DEF Amid, Agreed
    <3> QED BY <2>1, <3>1, <3>3, OthersWait, SelfFromPlace DEF Place
  <2>3. \A k \in Node \ {n} : pc'[k] = pc[k]
    BY <2>1 DEF Goto, TypeOK
  <2> QED BY <2>1, <2>2, <2>3, SelfStepOf
<1>6. CASE DiscardClient(n, m)
  <2>1. /\ Begin(n, m) /\ pc[n][m] = "wait" /\ m \in Node /\ n # m
        /\ lostLeader' = IF leaderId[n] = m THEN lostLeader \cup {n} ELSE lostLeader
        /\ UNCHANGED <<leaderId, leads, pc>>
    BY <1>6 DEF DiscardClient, At
  <2>2. ASSUME n \notin crossed'
        PROVE  SelfOf(n)'
    <3>1. n \notin crossed /\ SelfOf(n)
      BY <2>1, <2>2, BeginCrosses DEF SelfInv
    <3>2. Waiting(n) /\ Agreed(n)
      BY <2>1, <2>2, <3>1, BeginsAtRest
    <3>3. Agreed(n)'
      BY <2>1, <3>2 DEF Agreed
    <3> QED BY <2>1, <3>2, <3>3 DEF SelfOf, OneAtATime, Waiting, Amid
  <2> QED BY <2>1, <2>2, SelfStepOf, BeginCrosses
<1> QED BY <1>1, <1>2, <1>3, <1>4, <1>5, <1>6 DEF Receive

\* Every step keeps the invariant.
LEMMA SelfStep == TypeOK /\ SelfInv /\ [Next]_vars => SelfInv'
<1> SUFFICES ASSUME TypeOK, SelfInv, [Next]_vars PROVE SelfInv'
  OBVIOUS
<1> USE NodeAssumption, NoNodeAssumption
<1>1. ASSUME NEW n \in Node, NEW m \in Node, Connect(n, m)
      PROVE  SelfInv'
  BY <1>1, SelfKept DEF Connect, SelfInv
<1>2. ASSUME NEW n \in Node, Crash(n)
      PROVE  SelfInv'
  BY <1>2, SelfKept DEF Crash, SelfInv
<1>3. ASSUME NEW n \in Node, NEW m \in Node, DiscardSecond(n, m)
      PROVE  SelfInv'
  <2>1. /\ n # m /\ leaderId[n] = m /\ lostLeader' = lostLeader \cup {n}
        /\ crossed' = IF \E t \in Node : pc[n][t] # "wait" THEN crossed \cup {n} ELSE crossed
        /\ UNCHANGED <<leaderId, leads, pc>>
    BY <1>3 DEF DiscardSecond
  <2>2. ASSUME n \notin crossed'
        PROVE  SelfOf(n)'
    <3>1. SelfOf(n) /\ Waiting(n) /\ Agreed(n)
      BY <2>1, <2>2 DEF SelfInv, SelfOf, Waiting
    <3>2. Agreed(n)'
      BY <2>1, <3>1 DEF Agreed
    <3> QED BY <2>1, <3>1, <3>2 DEF SelfOf, OneAtATime, Waiting, Amid
  <2> QED BY <2>1, <2>2, SelfStepOf
<1>4. CASE UNCHANGED vars
  BY <1>4, SelfKept DEF vars, SelfInv
<1> QED BY <1>1, <1>2, <1>3, <1>4, SelfOfStep, SelfOfReceive DEF Next

\* A node leads iff it takes itself for the leader, and has not lost itself, unless
\* threads of it have come in between each other's assignments.
THEOREM OnlyCrossingDisagrees == Spec => []DisagreesOnlyByCrossing
<1>1. SelfInv => DisagreesOnlyByCrossing
  BY DEF SelfInv, SelfOf, Waiting, Agreed, DisagreesOnlyByCrossing, Living
<1> QED BY <1>1, TypeCorrect, SelfInit, SelfStep, PTL DEF Spec

-----------------------------------------------------------------------------
(* Who is elected among nodes that are all connected and stay so *)

Static == Late = {} /\ Crashable = {}

\* What a message from i to j may say: who starts an election passes its own id to
\* a larger neighbour, unless it has the highest id; any other id under way is the
\* highest, and it is announced as the leader only when it is among the leaders L.
MayCarry(i, j, msg, L) ==
  /\ i # j
  /\ msg.type = "ELECTION" => msg.id = Highest \/ (msg.id = i /\ i < j)
  /\ msg.type # "ELECTION" => msg.id = Highest /\ Highest \in L

Carried(channels, L) ==
  \A i, j \in Node : \A k \in 1 .. Len(channels[i][j]) : MayCarry(i, j, channels[i][j][k], L)

\* Nobody forgets a leader in such a network, and the threads of a node are amid the
\* assignments of the node with the highest id taking office, or of another one being
\* told of it.
Settling(n, t) ==
  /\ pc[n][t] \in {"wait", "elected", "named", "told", "alone", "leading"}
  /\ pc[n][t] \in {"elected", "named"} => n = Highest
  /\ pc[n][t] = "named" => leaderId[n] = n
  /\ pc[n][t] = "told" => n # Highest
  /\ pc[n][t] \in {"alone", "leading"} => Node = {n} /\ leaderId[n] = NoNode
  /\ pc[n][t] = "leading" => n \in leads

\* The inductive invariant: the network is a full mesh, and everything anybody
\* knows or says about a leader is about the node with the highest id, which is in
\* office when it has said so of itself.
StaticInv ==
  /\ clients = [n \in Node |-> Node \ {n}] /\ crashed = {}
  /\ OnlyHighestLeads
  /\ FollowsALeader
  /\ Carried(chan, InOffice)
  /\ \A n \in InOffice : leaderId[n] = n
  /\ \A n \in lostLeader : leaderId[n] \notin {n, NoNode}
  /\ \A n, t \in Node : Settling(n, t)

\* The node with the highest id.
LEMMA HighestIsHighest ==
  ASSUME NEW n \in Node
  PROVE  Highest \in Node /\ n <= Highest
<1>1. Node \subseteq Int
  BY NodeAssumption
<1>2. \E h \in Node : \A m \in Node : m <= h
  BY <1>1, NodeAssumption, HasGreatest
<1> QED BY <1>2 DEF Highest

\* Every other node passes messages on to a larger one.
LEMMA NextIsLarger ==
  ASSUME NEW n \in Node, n # Highest
  PROVE  n < NextAmong(Node \ {n}, n)
<1> DEFINE LargerOnes == {m \in Node \ {n} : m > n}
<1>1. \A m \in Node : m \in Nat
  BY NodeAssumption
<1>2. Highest \in LargerOnes
  BY <1>1, HighestIsHighest
<1>3. IsFiniteSet(LargerOnes) /\ LargerOnes \subseteq Int
  <2>1. LargerOnes \in SUBSET Node /\ LargerOnes \subseteq Int
    BY <1>1
  <2> HIDE DEF LargerOnes
  <2> QED BY <2>1, NodeAssumption, FS_Subset
<1>4. PICK l \in LargerOnes : \A k \in LargerOnes : l <= k
  <2> HIDE DEF LargerOnes
  <2> QED BY <1>2, <1>3, HasLeast
<1>5. \E m \in Node \ {n} : m > n
  BY <1>2
<1>6. \E m \in Node \ {n} : m > n /\ \A k \in Node \ {n} : k > n => m <= k
  BY <1>4
<1>7. NextAmong(Node \ {n}, n) > n
  BY <1>5, <1>6 DEF NextAmong
<1>8. NextAmong(Node \ {n}, n) \in Node
  BY <1>5, <1>6 DEF NextAmong
<1> QED BY <1>1, <1>7, <1>8

\* Sending what may be said keeps the channels as they should be.
LEMMA SentCarried ==
  ASSUME TypeOK, NEW channels \in [Node -> [Node -> Seq(Message)]], NEW L, Carried(channels, L),
         NEW n \in Node, NEW to, NEW msg \in Message,
         to \in clients[n] => MayCarry(n, to, msg, L)
  PROVE  Carried(Sent(n, to, msg, channels), L)
<1>1. CASE to \notin clients[n] \/ to \in crashed
  BY <1>1 DEF Sent
<1>2. CASE to \in clients[n] /\ to \notin crashed
  <2>1. to \in Node
    BY <1>2 DEF TypeOK
  <2> DEFINE more == [channels EXCEPT ![n][to] = Append(@, msg)]
  <2>2. ASSUME NEW i \in Node, NEW j \in Node, NEW k \in 1 .. Len(more[i][j])
        PROVE  MayCarry(i, j, more[i][j][k], L)
    <3>1. CASE i = n /\ j = to
      <4>1. more[i][j] = Append(channels[n][to], msg) /\ channels[n][to] \in Seq(Message)
        BY <3>1, <2>1
      <4>2. CASE k = Len(channels[n][to]) + 1
        <5>1. more[i][j][k] = msg
          BY <4>1, <4>2
        <5> QED BY <5>1, <1>2, <3>1
      <4>3. CASE k # Len(channels[n][to]) + 1
        <5>1. channels[n][to] \in Seq(Message) /\ k \in 1 .. Len(more[i][j])
          BY <4>1
        <5> HIDE DEF more
        <5>2. k \in 1 .. Len(channels[n][to])
          BY <4>1, <4>3, <5>1
        <5>3. more[i][j][k] = channels[n][to][k]
          BY <4>1, <5>1, <5>2
        <5> QED BY <5>2, <5>3, <2>1, <3>1 DEF Carried
      <4> QED BY <4>2, <4>3
    <3>2. CASE ~ (i = n /\ j = to)
      <4>1. more[i][j] = channels[i][j]
        BY <3>2, <2>1
      <4> QED BY <4>1 DEF Carried
    <3> QED BY <3>1, <3>2
  <2>3. Sent(n, to, msg, channels) = more
    BY <1>2 DEF Sent
  <2> QED BY <2>2, <2>3 DEF Carried
<1> QED BY <1>1, <1>2

\* Taking a message keeps them as they should be, and what is taken was among it.
LEMMA TakenCarried ==
  ASSUME TypeOK, NEW L, Carried(chan, L), NEW n \in Node, NEW m \in Node, chan[m][n] # <<>>
  PROVE  Carried(Taken(n, m), L) /\ MayCarry(m, n, Head(chan[m][n]), L)
<1>1. chan[m][n] \in Seq(Message) /\ Len(chan[m][n]) > 0
  BY DEF TypeOK
<1>2. MayCarry(m, n, Head(chan[m][n]), L)
  BY <1>1 DEF Carried
<1>3. ASSUME NEW i \in Node, NEW j \in Node, NEW k \in 1 .. Len(Taken(n, m)[i][j])
      PROVE  MayCarry(i, j, Taken(n, m)[i][j][k], L)
  <2>1. CASE i = m /\ j = n
    <3>1. Taken(n, m)[i][j] = Tail(chan[m][n])
      BY <2>1 DEF Taken, TypeOK
    <3>2. k + 1 \in 1 .. Len(chan[m][n]) /\ Taken(n, m)[i][j][k] = chan[m][n][k + 1]
      BY <3>1, <1>1
    <3> QED BY <3>2, <2>1 DEF Carried
  <2>2. CASE ~ (i = m /\ j = n)
    <3>1. Taken(n, m)[i][j] = chan[i][j]
      BY <2>2 DEF Taken, TypeOK
    <3> QED BY <3>1 DEF Carried
  <2> QED BY <2>1, <2>2
<1> QED BY <1>2, <1>3 DEF Carried

\* A node may pass its own id on.
LEMMA MayStartElection ==
  ASSUME StaticInv, NEW n \in Node, NextId(n) \in clients[n]
  PROVE  MayCarry(n, NextId(n), Election(n), InOffice)
<1>1. clients[n] = Node \ {n}
  BY DEF StaticInv
<1>2. n # Highest => n < NextId(n)
  BY <1>1, NextIsLarger DEF NextId
<1> QED BY <1>1, <1>2 DEF MayCarry, Election

\* Who is in office depends on threads that have named themselves, or have not yet.
LEMMA OfficeStays ==
  ASSUME TypeOK, NEW n \in Node, NEW t \in Node, NEW place \in Place, Goto(n, t, place),
         pc[n][t] \notin {"named", "leading"}, place \notin {"named", "leading"}
  PROVE  /\ \A k, u \in Node : pc'[k][u] = "named" <=> pc[k][u] = "named"
         /\ \A k \in Node : pc'[k][k] = "leading" <=> pc[k][k] = "leading"
BY DEF Goto, TypeOK

\* A thread that moves between other places changes nobody's office.
LEMMA OfficeKept ==
  ASSUME TypeOK, leads' = leads, NEW n \in Node, NEW t \in Node, NEW place \in Place,
         Goto(n, t, place),
         pc[n][t] \notin {"named", "leading"}, place \notin {"named", "leading"}
  PROVE  InOffice' = InOffice
<1>1. /\ \A k, u \in Node : pc'[k][u] = "named" <=> pc[k][u] = "named"
      /\ \A k \in Node : pc'[k][k] = "leading" <=> pc[k][k] = "leading"
  BY OfficeStays
<1>2. \A k \in Node : k \in InOffice' <=> k \in InOffice
  BY <1>1 DEF InOffice
<1> QED BY <1>2 DEF InOffice

\* Somebody in office is the node with the highest id.
LEMMA OfficeOfHighest ==
  ASSUME StaticInv
  PROVE  InOffice \subseteq {Highest}
<1> SUFFICES ASSUME NEW n \in InOffice PROVE n = Highest
  OBVIOUS
<1>1. n \in Node
  BY DEF InOffice
<1>2. CASE n \in leads
  BY <1>2 DEF StaticInv, OnlyHighestLeads
<1>3. CASE \E t \in Node : pc[n][t] = "named"
  BY <1>1, <1>3 DEF StaticInv, Settling
<1> QED BY <1>2, <1>3 DEF InOffice

\* A node that names itself is in office.
LEMMA HighestInOffice ==
  ASSUME StaticInv, NEW n \in Node, leaderId[n] # NoNode
  PROVE  leaderId[n] = Highest /\ Highest \in InOffice /\ Highest \in Node
BY HighestIsHighest DEF StaticInv, OnlyHighestLeads, FollowsALeader

\* Initially nothing is under way, and nobody leads.
LEMMA StaticInit == Static /\ Init => StaticInv
<1> SUFFICES ASSUME Static, Init PROVE StaticInv
  OBVIOUS
<1>1. clients = [n \in Node |-> Node \ {n}]
  BY DEF Static, Init
<1>2. InOffice = {}
  BY DEF Init, InOffice
<1>3. Carried(chan, InOffice)
  BY DEF Init, Carried
<1>4. \A n, t \in Node : Settling(n, t)
  BY DEF Init, Settling
<1> QED BY <1>1, <1>2, <1>3, <1>4 DEF Init, StaticInv, OnlyHighestLeads, FollowsALeader

\* What says nothing of a leader, and moves no thread, keeps the invariant.
LEMMA StaticKept ==
  ASSUME StaticInv, UNCHANGED <<clients, leaderId, leads, crashed, pc>>,
         Carried(chan', InOffice),
         \A n \in lostLeader' : leaderId[n] \notin {n, NoNode}
  PROVE  StaticInv'
<1>1. InOffice' = InOffice
  BY DEF InOffice
<1> QED BY <1>1 DEF StaticInv, OnlyHighestLeads, FollowsALeader, Settling

\* A thread that only moves, without naming a leader, keeps it too.
LEMMA StaticMoved ==
  ASSUME TypeOK, StaticInv, UNCHANGED <<clients, leaderId, leads, lostLeader, crashed>>,
         NEW n \in Node, NEW t \in Node, NEW place \in Place, Goto(n, t, place),
         pc[n][t] \notin {"named", "leading"}, place \notin {"named", "leading"},
         Carried(chan', InOffice), Settling(n, t)'
  PROVE  StaticInv'
<1>1. InOffice' = InOffice
  BY OfficeStays DEF InOffice
<1>2. ASSUME NEW k \in Node, NEW u \in Node, ~ (k = n /\ u = t)
      PROVE  Settling(k, u)'
  <2>1. pc'[k][u] = pc[k][u]
    BY <1>2 DEF Goto, TypeOK
  <2> QED BY <2>1 DEF Settling, StaticInv
<1> QED BY <1>1, <1>2 DEF StaticInv, OnlyHighestLeads, FollowsALeader

\* A node that names itself, with others or alone, takes office.
LEMMA NamingTakesOffice ==
  ASSUME TypeOK, StaticInv, NEW n \in Node,
         NameAlone(n) \/ \E m \in Node : NameItself(n, m)
  PROVE  /\ n = Highest /\ leaderId' = [leaderId EXCEPT ![n] = n]
         /\ InOffice' = InOffice \cup {n}
         /\ UNCHANGED <<clients, leads, lostLeader, crashed, chan>>
         /\ \A k, t \in Node : Settling(k, t)'
<1>1. CASE NameAlone(n)
  <2>1. /\ pc[n][n] = "leading" /\ Goto(n, n, "wait")
        /\ leaderId' = [leaderId EXCEPT ![n] = n]
        /\ UNCHANGED <<clients, leads, lostLeader, crashed, chan>>
    BY <1>1 DEF NameAlone, At, network
  <2>2. Node = {n} /\ n \in leads
    BY <2>1 DEF StaticInv, Settling
  <2>3. n = Highest
    BY <2>2, HighestIsHighest
  <2>4. pc'[n][n] = "wait"
    BY <2>1 DEF Goto, TypeOK
  <2>5. n \in InOffice' /\ InOffice \subseteq {n} /\ InOffice' \subseteq {n}
    BY <2>1, <2>2, <2>4 DEF InOffice
  <2>6. \A k, t \in Node : Settling(k, t)'
    BY <2>2, <2>4 DEF Settling
  <2> QED BY <2>1, <2>3, <2>5, <2>6
<1>2. ASSUME NEW m \in Node, NameItself(n, m)
      PROVE  /\ n = Highest /\ leaderId' = [leaderId EXCEPT ![n] = n]
             /\ InOffice' = InOffice \cup {n}
             /\ UNCHANGED <<clients, leads, lostLeader, crashed, chan>>
             /\ \A k, t \in Node : Settling(k, t)'
  <2>1. /\ n # m /\ pc[n][m] = "elected" /\ Goto(n, m, "named")
        /\ leaderId' = [leaderId EXCEPT ![n] = n]
        /\ UNCHANGED <<clients, leads, lostLeader, crashed, chan>>
    BY <1>2 DEF NameItself, At, network
  <2>2. n = Highest
    BY <2>1 DEF StaticInv, Settling
  <2>3. pc'[n][m] = "named" /\ \A k, t \in Node : ~ (k = n /\ t = m) => pc'[k][t] = pc[k][t]
    BY <2>1 DEF Goto, TypeOK
  <2>4. InOffice' = InOffice \cup {n}
    <3>1. n \in InOffice'
      BY <2>3 DEF InOffice
    <3>2. \A k \in Node \ {n} : k \in InOffice' <=> k \in InOffice
      BY <2>1, <2>3 DEF InOffice
    <3> QED BY <3>1, <3>2 DEF InOffice
  <2>5. ASSUME NEW k \in Node, NEW t \in Node
        PROVE  Settling(k, t)'
    <3>1. CASE k = n /\ t = m
      BY <2>1, <2>2, <2>3, <3>1 DEF Settling, TypeOK
    <3>2. CASE ~ (k = n /\ t = m)
      <4>1. pc'[k][t] = pc[k][t] /\ leads' = leads /\ Settling(k, t)
        BY <2>1, <2>3, <3>2 DEF StaticInv
      <4>2. leaderId'[k] = leaderId[k] \/ (k = n /\ leaderId'[k] = n)
        BY <2>1 DEF TypeOK
      <4>3. k = n => Node # {n}
        BY <2>1
      <4> QED BY <4>1, <4>2, <4>3 DEF Settling
    <3> QED BY <3>1, <3>2
  <2> QED BY <2>1, <2>2, <2>4, <2>5
<1> QED BY <1>1, <1>2

\* Every step of such a network keeps the invariant.
LEMMA StaticStep ==
  Static /\ TypeOK /\ StaticInv /\ [Next]_vars => StaticInv'
<1> SUFFICES ASSUME Static, TypeOK, StaticInv, [Next]_vars
             PROVE  StaticInv'
  OBVIOUS
<1> USE NodeAssumption, NoNodeAssumption
<1>1. ASSUME NEW n \in Node, StartElection(n)
      PROVE  StaticInv'
  <2>1. NextId(n) \in clients[n] => MayCarry(n, NextId(n), Election(n), InOffice)
    BY MayStartElection
  <2>2. Carried(chan', InOffice)
    BY <1>1, <2>1, SentCarried, MessageTypes DEF StartElection, StaticInv, TypeOK
  <2> QED BY <1>1, <2>2, StaticKept DEF StartElection, StaticInv
<1>2. ASSUME NEW n \in Node, DecideAlone(n)
      PROVE  StaticInv'
  <2>1. /\ pc[n][n] = "wait" /\ Goto(n, n, "alone") /\ leaderId[n] = NoNode
        /\ UNCHANGED <<clients, leaderId, leads, lostLeader, crashed, chan>>
    BY <1>2 DEF DecideAlone, At, network
  <2>2. Node = {n}
    BY <1>2 DEF DecideAlone, StaticInv
  <2>3. pc'[n][n] = "alone"
    BY <2>1 DEF Goto, TypeOK
  <2>4. Settling(n, n)'
    BY <2>1, <2>2, <2>3 DEF Settling
  <2>5. Carried(chan', InOffice)
    BY <2>1 DEF StaticInv
  <2> QED BY <2>1, <2>4, <2>5, StaticMoved DEF Place
<1>3. ASSUME NEW n \in Node, LeadAlone(n)
      PROVE  StaticInv'
  <2>1. /\ pc[n][n] = "alone" /\ Goto(n, n, "leading") /\ leads' = leads \cup {n}
        /\ UNCHANGED <<clients, leaderId, lostLeader, crashed, chan>>
    BY <1>3 DEF LeadAlone, At, network
  <2>2. Node = {n} /\ leaderId[n] = NoNode
    BY <2>1 DEF StaticInv, Settling
  <2>3. n = Highest
    BY <2>2, HighestIsHighest
  <2>4. pc'[n][n] = "leading"
    BY <2>1 DEF Goto, TypeOK
  <2>5. InOffice' = {} /\ InOffice = {}
    BY <2>1, <2>2, <2>4 DEF InOffice, StaticInv
  <2>6. \A k, t \in Node : Settling(k, t)'
    BY <2>1, <2>2, <2>4 DEF Settling
  <2> QED BY <2>1, <2>2, <2>3, <2>5, <2>6 DEF StaticInv, OnlyHighestLeads, FollowsALeader
<1>4. ASSUME NEW n \in Node, NameAlone(n) \/ \E m \in Node : NameItself(n, m)
      PROVE  StaticInv'
  <2>1. /\ n = Highest /\ leaderId' = [leaderId EXCEPT ![n] = n]
        /\ InOffice' = InOffice \cup {n}
        /\ UNCHANGED <<clients, leads, lostLeader, crashed, chan>>
        /\ \A k, t \in Node : Settling(k, t)'
    BY <1>4, NamingTakesOffice
  <2>2. Carried(chan', InOffice')
    <3>1. ASSUME NEW i, NEW j, NEW msg, MayCarry(i, j, msg, InOffice)
          PROVE  MayCarry(i, j, msg, InOffice')
      BY <2>1, <3>1 DEF MayCarry
    <3> QED BY <2>1, <3>1 DEF Carried, StaticInv
  <2>3. /\ leaderId'[n] = n
        /\ \A k \in Node \ {n} : leaderId'[k] = leaderId[k]
    BY <2>1 DEF TypeOK
  <2>4. OnlyHighestLeads' /\ FollowsALeader'
    BY <2>1, <2>3 DEF StaticInv, OnlyHighestLeads, FollowsALeader
  <2>5. \A k \in InOffice' : leaderId'[k] = k
    BY <2>1, <2>3 DEF StaticInv, InOffice
  <2>6. n \notin lostLeader
    <3>1. n \in lostLeader => leaderId[n] = Highest \/ leaderId[n] = NoNode
      BY DEF StaticInv, OnlyHighestLeads
    <3> QED BY <2>1, <3>1 DEF StaticInv
  <2>7. \A k \in lostLeader' : leaderId'[k] \notin {k, NoNode}
    BY <2>1, <2>3, <2>6 DEF StaticInv, TypeOK
  <2> QED BY <2>1, <2>2, <2>4, <2>5, <2>7 DEF StaticInv
\* A leader that counts as lost is still connected.
<1>5. ASSUME NEW n \in Node, FindLeaderLost(n)
      PROVE  FALSE
  <2>1. leaderId[n] = Highest /\ Highest # n
    BY <1>5 DEF FindLeaderLost, StaticInv, OnlyHighestLeads
  <2>2. Highest \in clients[n]
    BY <2>1, HighestIsHighest DEF StaticInv
  <2> QED BY <1>5, <2>1, <2>2 DEF FindLeaderLost
<1>6. ASSUME NEW n \in Node, StopLeading(n) \/ ResetLost(n) \/ ForgetLeader(n)
      PROVE  FALSE
  BY <1>6 DEF StopLeading, ResetLost, ForgetLeader, At, StaticInv, Settling
<1>7. ASSUME NEW n \in Node, NEW m \in Node, OnElection(n, m)
      PROVE  StaticInv'
  <2> DEFINE id == Head(chan[m][n]).id
  <2>1. /\ chan[m][n] # <<>> /\ Head(chan[m][n]).type = "ELECTION" /\ pc[n][m] = "wait"
        /\ UNCHANGED <<clients, leaderId, leads, lostLeader, crashed>>
    BY <1>7 DEF OnElection, Arrives, At
  <2>2. /\ Carried(Taken(n, m), InOffice) /\ MayCarry(m, n, Head(chan[m][n]), InOffice)
        /\ Taken(n, m) \in [Node -> [Node -> Seq(Message)]]
        /\ id \in Node
    BY <2>1, TakenCarried, TakenType DEF StaticInv, Message
  <2>3. m # n /\ (id = Highest \/ (id = m /\ m < n))
    BY <2>1, <2>2 DEF MayCarry
  <2>4. \A k \in lostLeader' : leaderId[k] \notin {k, NoNode}
    BY <2>1 DEF StaticInv
  <2>5. CASE /\ leaderId[n] # NoNode
             /\ chan' = Sent(n, m, KnownLeader(leaderId[n]), Taken(n, m))
             /\ UNCHANGED <<pc, crossed>>
    <3>1. leaderId[n] = Highest /\ Highest \in InOffice /\ Highest \in Node
      BY <2>5, HighestInOffice
    <3>2. MayCarry(n, m, KnownLeader(leaderId[n]), InOffice)
      BY <2>3, <3>1 DEF MayCarry, KnownLeader
    <3>3. Carried(chan', InOffice)
      BY <2>2, <2>5, <3>1, <3>2, SentCarried, MessageTypes DEF TypeOK
    <3> QED BY <2>1, <2>4, <2>5, <3>3, StaticKept
  <2>6. CASE /\ leaderId[n] = NoNode /\ id # n
             /\ chan' = Sent(n, NextId(n), Election(Larger(id, n)), Taken(n, m))
             /\ UNCHANGED <<pc, crossed>>
    <3>0. id \in Nat /\ n \in Nat
      BY <2>2
    <3> HIDE DEF id
    <3>1. id = Highest => Larger(id, n) = Highest
      <4>1. n <= Highest
        BY HighestIsHighest
      <4> QED BY <2>6, <3>0, <4>1 DEF Larger
    <3>2. id # Highest => Larger(id, n) = n
      BY <2>3, <3>0 DEF Larger
    <3>3. NextId(n) \in clients[n] => MayCarry(n, NextId(n), Election(Larger(id, n)), InOffice)
      <4>1. clients[n] = Node \ {n}
        BY DEF StaticInv
      <4> QED BY <3>1, <3>2, <4>1, MayStartElection DEF MayCarry, Election
    <3>4. Larger(id, n) \in Node
      BY <2>2 DEF Larger
    <3>5. Carried(chan', InOffice)
      BY <2>2, <2>6, <3>3, <3>4, SentCarried, MessageTypes DEF TypeOK
    <3> QED BY <2>1, <2>4, <2>6, <3>5, StaticKept
  <2>7. CASE /\ leaderId[n] = NoNode /\ id = n /\ chan' = Taken(n, m)
             /\ Begin(n, m) /\ Goto(n, m, "elected")
    <3>1. n = Highest
      BY <2>3, <2>7
    <3>2. pc'[n][m] = "elected"
      BY <2>7 DEF Goto, TypeOK
    <3>3. Settling(n, m)'
      BY <3>1, <3>2 DEF Settling
    <3> QED BY <2>1, <2>2, <2>7, <3>3, StaticMoved DEF Place
  <2> QED BY <1>7, <2>5, <2>6, <2>7 DEF OnElection
<1>8. ASSUME NEW n \in Node, NEW m \in Node, TakeLead(n, m)
      PROVE  StaticInv'
  <2>1. /\ n # m /\ pc[n][m] = "named" /\ Goto(n, m, "wait") /\ leads' = leads \cup {n}
        /\ chan' = Sent(n, NextId(n), Elected(n), chan)
        /\ UNCHANGED <<clients, leaderId, lostLeader, crashed>>
    BY <1>8 DEF TakeLead, At
  <2>2. n = Highest /\ leaderId[n] = n
    BY <2>1 DEF StaticInv, Settling
  <2>3. pc'[n][m] = "wait" /\ \A k, t \in Node : ~ (k = n /\ t = m) => pc'[k][t] = pc[k][t]
    BY <2>1 DEF Goto, TypeOK
  <2>4. pc[n][n] # "leading"
    BY <2>1 DEF StaticInv, Settling
  <2>5. InOffice' = InOffice /\ n \in InOffice
    <3>1. n \in InOffice /\ n \in InOffice'
      BY <2>1, <2>3, <2>4 DEF InOffice
    <3>2. \A k \in Node \ {n} : k \in InOffice' <=> k \in InOffice
      BY <2>1, <2>3 DEF InOffice
    <3> QED BY <3>1, <3>2 DEF InOffice
  <2>6. Carried(chan', InOffice')
    <3>1. NextId(n) \in clients[n] => MayCarry(n, NextId(n), Elected(n), InOffice)
      BY <2>2, <2>5 DEF MayCarry, Elected, StaticInv
    <3>2. Carried(chan, InOffice)
      BY DEF StaticInv
    <3>3. Carried(chan', InOffice)
      BY <2>1, <3>1, <3>2, SentCarried, MessageTypes DEF TypeOK
    <3> QED BY <2>5, <3>3
  <2>7. \A k, t \in Node : Settling(k, t)'
    <3> TAKE k \in Node, t \in Node
    <3>1. CASE k = n /\ t = m
      BY <2>3, <3>1 DEF Settling
    <3>2. CASE ~ (k = n /\ t = m)
      <4>1. pc'[k][t] = pc[k][t] /\ leaderId' = leaderId /\ Settling(k, t)
        BY <2>1, <2>3, <3>2 DEF StaticInv
      <4>2. k \in leads => k \in leads'
        BY <2>1
      <4> QED BY <4>1, <4>2 DEF Settling
    <3> QED BY <3>1, <3>2
  <2>8. OnlyHighestLeads' /\ FollowsALeader'
    BY <2>1, <2>2, <2>5 DEF StaticInv, OnlyHighestLeads, FollowsALeader
  <2> QED BY <2>1, <2>5, <2>6, <2>7, <2>8 DEF StaticInv
<1>9. ASSUME NEW n \in Node, NEW m \in Node, OnLeaderNews(n, m)
      PROVE  StaticInv'
  <2> DEFINE id == Head(chan[m][n]).id
  <2>1. /\ chan[m][n] # <<>> /\ Head(chan[m][n]).type # "ELECTION" /\ pc[n][m] = "wait"
        /\ chan' = Taken(n, m) /\ UNCHANGED <<clients, leads, lostLeader, crashed>>
    BY <1>9 DEF OnLeaderNews, Arrives, At
  <2>2. Carried(Taken(n, m), InOffice) /\ MayCarry(m, n, Head(chan[m][n]), InOffice)
    BY <2>1, TakenCarried DEF StaticInv
  <2>3. id = Highest /\ Highest \in InOffice /\ Highest \in Node
    BY <2>1, <2>2, HighestIsHighest DEF MayCarry
  <2>4. CASE UNCHANGED <<leaderId, pc, crossed>>
    BY <2>1, <2>2, <2>4, StaticKept DEF StaticInv
  <2>5. CASE /\ id # n /\ leaderId' = [leaderId EXCEPT ![n] = id]
             /\ Begin(n, m) /\ Goto(n, m, "told")
    <3>1. pc'[n][m] = "told" /\ \A k, t \in Node : ~ (k = n /\ t = m) => pc'[k][t] = pc[k][t]
      BY <2>5 DEF Goto, TypeOK
    <3>2. leaderId'[n] = Highest /\ \A k \in Node \ {n} : leaderId'[k] = leaderId[k]
      BY <2>3, <2>5 DEF TypeOK
    <3>3. InOffice' = InOffice
      <4>1. "told" \in Place /\ leads' = leads /\ Goto(n, m, "told") /\ pc[n][m] = "wait"
        BY <2>1, <2>5 DEF Place
      <4> HIDE DEF id
      <4> QED BY <4>1, OfficeKept
    <3>4. n # Highest /\ n \notin InOffice /\ Highest # NoNode /\ Node # {n}
      BY <2>3, <2>5, OfficeOfHighest
    <3>5. \A k, t \in Node : Settling(k, t)'
      <4> TAKE k \in Node, t \in Node
      <4>1. CASE k = n /\ t = m
        BY <3>1, <3>4, <4>1 DEF Settling
      <4>2. CASE ~ (k = n /\ t = m)
        <5>1. pc'[k][t] = pc[k][t] /\ Settling(k, t)
          BY <3>1, <4>2 DEF StaticInv
        <5>2. CASE k = n
          <6>1. pc[k][t] \in {"wait", "told"}
            BY <3>4, <5>1, <5>2 DEF Settling
          <6> QED BY <3>4, <5>1, <5>2, <6>1 DEF Settling
        <5>3. CASE k # n
          BY <2>1, <3>2, <5>1, <5>3 DEF Settling
        <5> QED BY <5>2, <5>3
      <4> QED BY <4>1, <4>2
    <3>6. OnlyHighestLeads' /\ FollowsALeader'
      BY <2>1, <2>3, <3>2, <3>3 DEF StaticInv, OnlyHighestLeads, FollowsALeader
    <3>7. \A k \in InOffice' : leaderId'[k] = k
      BY <3>2, <3>3, <3>4 DEF StaticInv, InOffice
    <3>8. \A k \in lostLeader' : leaderId'[k] \notin {k, NoNode}
      BY <2>1, <3>2, <3>4 DEF StaticInv, TypeOK
    <3>9. Carried(chan', InOffice')
      BY <2>1, <2>2, <3>3
    <3> QED BY <2>1, <3>5, <3>6, <3>7, <3>8, <3>9 DEF StaticInv
  <2> QED BY <1>9, <2>4, <2>5 DEF OnLeaderNews
<1>10. ASSUME NEW n \in Node, NEW m \in Node, FollowLeader(n, m)
       PROVE  StaticInv'
  <2>1. /\ n # m /\ pc[n][m] = "told" /\ Goto(n, m, "wait") /\ leads' = leads \ {n}
        /\ UNCHANGED <<clients, leaderId, lostLeader, crashed, chan>>
    BY <1>10 DEF FollowLeader, At, network
  <2>2. n # Highest
    BY <2>1 DEF StaticInv, Settling
  <2>3. leads' = leads
    BY <2>1, <2>2 DEF StaticInv, OnlyHighestLeads
  <2>4. pc'[n][m] = "wait"
    BY <2>1 DEF Goto, TypeOK
  <2>5. Settling(n, m)'
    BY <2>4 DEF Settling
  <2> QED BY <2>1, <2>3, <2>5, StaticMoved DEF Place, StaticInv
<1>11. ASSUME NEW n \in Node, NEW m \in Node,
              DiscardClient(n, m) \/ Connect(n, m) \/ Crash(n)
       PROVE  FALSE
  BY <1>11 DEF DiscardClient, Connect, Crash, Static, StaticInv
<1>12. ASSUME NEW n \in Node, NEW m \in Node, DiscardSecond(n, m)
       PROVE  StaticInv'
  <2>1. /\ n # m /\ leaderId[n] = m /\ lostLeader' = lostLeader \cup {n}
        /\ UNCHANGED <<clients, leaderId, leads, crashed, chan, pc>>
    BY <1>12 DEF DiscardSecond, network
  <2> QED BY <2>1, StaticKept DEF StaticInv
<1>13. CASE UNCHANGED vars
  <2>1. Carried(chan', InOffice)
    BY <1>13 DEF vars, StaticInv
  <2> QED BY <1>13, <2>1, StaticKept DEF vars, StaticInv
<1> QED BY <1>1, <1>2, <1>3, <1>4, <1>5, <1>6, <1>7, <1>8, <1>9, <1>10, <1>11, <1>12, <1>13
        DEF Next, Step, Receive

\* In a full mesh whose connections all stay, nobody but the node with the highest
\* id ever leads or is taken for the leader, for any number of nodes.
THEOREM HighestLeads ==
  ASSUME Static
  PROVE  Spec => []OnlyHighestLeads
<1>1. Init => StaticInv
  BY StaticInit
<1>2. TypeOK /\ StaticInv /\ [Next]_vars => StaticInv'
  BY StaticStep
<1>3. StaticInv => OnlyHighestLeads
  BY DEF StaticInv
<1> QED BY <1>1, <1>2, <1>3, TypeCorrect, PTL DEF Spec

\* In such a network whoever is taken for the leader leads, or will with the next
\* assignment of one of its threads.
THEOREM LeaderIsFollowed ==
  ASSUME Static
  PROVE  Spec => []FollowsALeader
<1>1. Init => StaticInv
  BY StaticInit
<1>2. TypeOK /\ StaticInv /\ [Next]_vars => StaticInv'
  BY StaticStep
<1>3. StaticInv => FollowsALeader
  BY DEF StaticInv
<1> QED BY <1>1, <1>2, <1>3, TypeCorrect, PTL DEF Spec

-----------------------------------------------------------------------------
(* The election implements module Leadership *)

\* Nobody is in office and follows nobody at first.
LEMMA OfficeInit == Init => Office!Init
BY DEF Init, InOffice, Office!Init

\* What changes neither leaderId nor who is in office is no step of Leadership.
LEMMA OfficeUnmoved ==
  ASSUME TypeOK, UNCHANGED <<leaderId, leads>>,
         NEW n \in Node, NEW t \in Node, NEW place \in Place, Goto(n, t, place),
         pc[n][t] \notin {"named", "leading"}, place \notin {"named", "leading"}
  PROVE  UNCHANGED Office!vars
<1>1. InOffice' = InOffice
  BY OfficeStays DEF InOffice
<1> QED BY <1>1 DEF Office!vars

\* Every step of such a network is a step of Leadership, or changes nothing of it.
LEMMA OfficeStep ==
  ASSUME Static, TypeOK, StaticInv, [Next]_vars, StaticInv'
  PROVE  [Office!Next]_(Office!vars)
<1> USE NodeAssumption, NoNodeAssumption
<1>1. ASSUME UNCHANGED <<leaderId, leads, pc>>
      PROVE  UNCHANGED Office!vars
  BY <1>1 DEF Office!vars, InOffice
<1>2. ASSUME NEW n \in Node, DecideAlone(n)
      PROVE  UNCHANGED Office!vars
  BY <1>2, OfficeUnmoved DEF DecideAlone, At, Place
<1>3. ASSUME NEW n \in Node, LeadAlone(n)
      PROVE  UNCHANGED Office!vars
  <2>1. pc[n][n] = "alone" /\ Goto(n, n, "leading") /\ UNCHANGED leaderId
    BY <1>3 DEF LeadAlone, At
  <2>2. Node = {n} /\ leaderId[n] = NoNode
    BY <2>1 DEF StaticInv, Settling
  <2>3. InOffice = {} /\ InOffice' = {}
    BY <2>1, <2>2 DEF StaticInv, InOffice
  <2> QED BY <2>1, <2>3 DEF Office!vars
<1>4. ASSUME NEW n \in Node, NameAlone(n) \/ \E m \in Node : NameItself(n, m)
      PROVE  [Office!Next]_(Office!vars)
  <2>1. /\ n = Highest /\ leaderId' = [leaderId EXCEPT ![n] = n]
        /\ InOffice' = InOffice \cup {n}
    BY <1>4, NamingTakesOffice
  <2>2. CASE leaderId[n] = NoNode
    <3>1. InOffice = {}
      BY <2>1, <2>2, OfficeOfHighest DEF StaticInv
    <3>2. Office!TakeOffice(n)
      BY <2>1, <2>2, <3>1 DEF Office!TakeOffice
    <3> QED BY <3>2 DEF Office!Next
  <2>3. CASE leaderId[n] # NoNode
    <3>1. leaderId[n] = n /\ n \in InOffice
      BY <2>1, <2>3, HighestInOffice
    <3>2. leaderId' = leaderId
      BY <2>1, <3>1 DEF TypeOK
    <3> QED BY <2>1, <3>1, <3>2 DEF Office!vars
  <2> QED BY <2>2, <2>3
<1>5. ASSUME NEW n \in Node, FindLeaderLost(n)
      PROVE  UNCHANGED Office!vars
  BY <1>5, OfficeUnmoved DEF FindLeaderLost, At, Place
<1>6. ASSUME NEW n \in Node, StopLeading(n) \/ ResetLost(n) \/ ForgetLeader(n)
      PROVE  FALSE
  BY <1>6 DEF StopLeading, ResetLost, ForgetLeader, At, StaticInv, Settling
<1>7. ASSUME NEW n \in Node, NEW m \in Node, OnElection(n, m)
      PROVE  UNCHANGED Office!vars
  <2>1. UNCHANGED <<leaderId, leads>> /\ pc[n][m] = "wait"
    BY <1>7 DEF OnElection, Arrives, At
  <2>2. CASE UNCHANGED pc
    BY <1>1, <2>1, <2>2
  <2>3. CASE Goto(n, m, "elected")
    BY <2>1, <2>3, OfficeUnmoved DEF Place
  <2> QED BY <1>7, <2>2, <2>3 DEF OnElection
<1>8. ASSUME NEW n \in Node, NEW m \in Node, TakeLead(n, m)
      PROVE  UNCHANGED Office!vars
  <2>1. /\ n # m /\ pc[n][m] = "named" /\ Goto(n, m, "wait") /\ leads' = leads \cup {n}
        /\ UNCHANGED leaderId
    BY <1>8 DEF TakeLead, At
  <2>2. leaderId[n] = n
    BY <2>1 DEF StaticInv, Settling
  <2>3. leaderId[n] # NoNode /\ leaderId'[n] # NoNode
    BY <2>1, <2>2
  <2>4. InOffice = {Highest} /\ InOffice' = {Highest}
    <3>1. InOffice = {Highest}
      BY <2>3, HighestInOffice, OfficeOfHighest
    <3>2. InOffice' \subseteq {Highest}
      <4>1. StaticInv => InOffice \subseteq {Highest}
        BY OfficeOfHighest
      <4>2. StaticInv' => (InOffice \subseteq {Highest})'
        BY OfficeOfHighest, PTL
      <4> QED BY <4>2
    <3>3. leaderId'[n] \in InOffice'
      BY <2>3 DEF StaticInv, FollowsALeader
    <3> QED BY <3>1, <3>2, <3>3
  <2> QED BY <2>1, <2>4 DEF Office!vars
<1>9. ASSUME NEW n \in Node, NEW m \in Node, OnLeaderNews(n, m)
      PROVE  [Office!Next]_(Office!vars)
  <2> DEFINE id == Head(chan[m][n]).id
  <2>1. chan[m][n] # <<>> /\ Head(chan[m][n]).type # "ELECTION" /\ leads' = leads /\ pc[n][m] = "wait"
    BY <1>9 DEF OnLeaderNews, Arrives, At
  <2>2. id = Highest /\ Highest \in InOffice
    BY <2>1, TakenCarried DEF StaticInv, MayCarry
  <2>3. CASE UNCHANGED <<leaderId, pc>>
    BY <1>1, <2>1, <2>3
  <2>4. CASE leaderId' = [leaderId EXCEPT ![n] = id] /\ Goto(n, m, "told")
    <3>1. InOffice' = InOffice
      <4>1. "told" \in Place /\ leads' = leads /\ Goto(n, m, "told") /\ pc[n][m] = "wait"
        BY <2>1, <2>4 DEF Place
      <4> HIDE DEF id
      <4> QED BY <4>1, OfficeKept
    <3>2. CASE leaderId[n] = NoNode
      BY <2>2, <2>4, <3>1, <3>2 DEF Office!Follow, Office!Next
    <3>3. CASE leaderId[n] # NoNode
      <4>1. leaderId[n] = Highest
        BY <3>3 DEF StaticInv, OnlyHighestLeads
      <4>2. leaderId' = leaderId
        BY <2>2, <2>4, <4>1 DEF TypeOK
      <4> QED BY <3>1, <4>2 DEF Office!vars
    <3> QED BY <3>2, <3>3
  <2> QED BY <1>9, <2>3, <2>4 DEF OnLeaderNews
<1>10. ASSUME NEW n \in Node, NEW m \in Node, FollowLeader(n, m)
       PROVE  UNCHANGED Office!vars
  <2>1. /\ pc[n][m] = "told" /\ Goto(n, m, "wait") /\ leads' = leads \ {n}
        /\ UNCHANGED leaderId
    BY <1>10 DEF FollowLeader, At
  <2>2. n # Highest
    BY <2>1 DEF StaticInv, Settling
  <2>3. leads' = leads
    BY <2>1, <2>2 DEF StaticInv, OnlyHighestLeads
  <2> QED BY <2>1, <2>3, OfficeUnmoved DEF Place
<1>11. ASSUME NEW n \in Node, NEW m \in Node,
              DiscardClient(n, m) \/ Connect(n, m) \/ Crash(n)
       PROVE  FALSE
  BY <1>11 DEF DiscardClient, Connect, Crash, Static, StaticInv
<1>12. ASSUME NEW n \in Node, NEW m \in Node, StartElection(n) \/ DiscardSecond(n, m)
       PROVE  UNCHANGED Office!vars
  BY <1>1, <1>12 DEF StartElection, DiscardSecond
<1>13. CASE UNCHANGED vars
  BY <1>1, <1>13 DEF vars
<1> QED BY <1>2, <1>3, <1>4, <1>5, <1>6, <1>7, <1>8, <1>9, <1>10, <1>11, <1>12, <1>13
        DEF Next, Step, Receive

\* In a full mesh whose connections all stay the messages of the election do what
\* module Leadership says: one node takes office, once, and every other node turns
\* from knowing no leader to following that one, for good.
THEOREM ElectionImplementsLeadership ==
  ASSUME Static
  PROVE  Spec => ImplementsLeadership
<1>1. Init => StaticInv /\ Office!Init
  BY StaticInit, OfficeInit
<1>2. TypeOK /\ StaticInv /\ [Next]_vars => StaticInv'
  BY StaticStep
<1>3. TypeOK /\ StaticInv /\ StaticInv' /\ [Next]_vars => [Office!Next]_(Office!vars)
  BY OfficeStep
<1> QED BY <1>1, <1>2, <1>3, TypeCorrect, PTL DEF Spec, ImplementsLeadership, Office!Spec

=============================================================================
