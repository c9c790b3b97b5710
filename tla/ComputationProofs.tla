------------------------- MODULE ComputationProofs -------------------------
(***************************************************************************)
(* Proofs about module Computation, for any set of nodes, any job, any     *)
(* delays of messages, and any crashes and late connections.  Only the     *)
(* theorem about the work assumes that nobody connects late.  The last     *)
(* sections are about the job itself, for any graph: the search is a tree, *)
(* it visits the simple paths of the graph, and the best of them has the   *)
(* largest cut.                                                            *)
(***************************************************************************)
EXTENDS MaximumCutComputation, ParallelStackProofs, SequenceTheorems

-----------------------------------------------------------------------------
(* The order of the nodes *)

\* Fewer elements precede a smaller element than a larger one, and each element
\* is preceded by fewer than there are.
LEMMA Ranks ==
  ASSUME NEW S, S \subseteq Nat, IsFiniteSet(S), NEW x \in S
  PROVE  /\ Rank(S, x) \in 0 .. Cardinality(S) - 1
         /\ \A z \in S : x < z => Rank(S, x) < Rank(S, z)
<1> DEFINE Below(z) == {y \in S : y < z}
<1>1. IsFiniteSet(S) /\ Cardinality(S) \in Nat
  BY FS_CardinalityType
<1>2. \A z \in S : z \in Int
  OBVIOUS
<1>3. \A z \in S : Below(z) \in SUBSET S /\ z \notin Below(z)
  BY <1>2
<1>4. ASSUME NEW y \in S, NEW z \in S, y < z
      PROVE  Below(y) \in SUBSET Below(z) /\ y \in Below(z)
  <2>1. \A u \in S : u < y => u < z
    BY <1>2, <1>4
  <2> QED BY <1>4, <2>1
<1>5. \A z \in S : Rank(S, z) = Cardinality(Below(z))
  BY DEF Rank
<1> HIDE DEF Below
<1>6. \A z \in S : IsFiniteSet(Below(z)) /\ Rank(S, z) \in Nat /\ Rank(S, z) < Cardinality(S)
  <2> TAKE z \in S
  <2>1. IsFiniteSet(Below(z)) /\ Cardinality(Below(z)) <= Cardinality(S)
    BY <1>1, <1>3, FS_Subset
  <2>2. Cardinality(Below(z)) # Cardinality(S)
    BY <1>1, <1>3, FS_Subset
  <2>3. Cardinality(Below(z)) \in Nat
    BY <2>1, FS_CardinalityType
  <2> QED BY <1>1, <1>5, <2>1, <2>2, <2>3
<1>7. ASSUME NEW z \in S, x < z
      PROVE  Rank(S, x) < Rank(S, z)
  <2>1. Below(x) \in SUBSET Below(z) /\ Below(x) # Below(z) /\ IsFiniteSet(Below(z))
    BY <1>3, <1>4, <1>6, <1>7
  <2>2. Cardinality(Below(x)) <= Cardinality(Below(z))
    BY <2>1, FS_Subset
  <2>3. Cardinality(Below(x)) # Cardinality(Below(z))
    BY <2>1, FS_Subset
  <2> QED BY <1>5, <1>6, <2>2, <2>3
<1> QED BY <1>1, <1>6, <1>7

\* Every rank below the size of the set is the rank of an element.
LEMMA RanksFill ==
  ASSUME NEW S, S \subseteq Nat, IsFiniteSet(S), NEW k \in 0 .. Cardinality(S) - 1
  PROVE  \E x \in S : Rank(S, x) = k
<1> DEFINE n == Cardinality(S)
           f == [x \in S |-> Rank(S, x)]
<1>1. IsFiniteSet(S) /\ n \in Nat
  BY FS_Subset, FS_CardinalityType
<1>2. IsFiniteSet(0 .. n - 1) /\ Cardinality(0 .. n - 1) = n
  BY <1>1, FS_Interval
<1>3. f \in [S -> 0 .. n - 1]
  BY Ranks
<1>4. \A x, z \in S : f[x] = f[z] => x = z
  <2> SUFFICES ASSUME NEW x \in S, NEW z \in S, x # z
               PROVE  f[x] # f[z]
    OBVIOUS
  <2>1. x \in Int /\ z \in Int
    OBVIOUS
  <2>2. Rank(S, x) \in Int /\ Rank(S, z) \in Int
    <3>1. Rank(S, x) \in 0 .. Cardinality(S) - 1 /\ Rank(S, z) \in 0 .. Cardinality(S) - 1
      BY Ranks
    <3> QED BY <1>1, <3>1
  <2>3. CASE x < z
    <3>1. Rank(S, x) < Rank(S, z)
      BY <2>3, Ranks
    <3> QED BY <2>2, <3>1
  <2>4. CASE z < x
    <3>1. Rank(S, z) < Rank(S, x)
      BY <2>4, Ranks
    <3> QED BY <2>2, <3>1
  <2> QED BY <2>1, <2>3, <2>4
<1>5. f \in Injection(S, 0 .. n - 1)
  BY <1>3, <1>4 DEF Injection, IsInjective
<1>6. f \in Surjection(S, 0 .. n - 1)
  <2> DEFINE T == 0 .. n - 1
  <2>1. IsFiniteSet(T) /\ Cardinality(S) = Cardinality(T) /\ f \in Injection(S, T)
    BY <1>2, <1>5
  <2> HIDE DEF f, T
  <2>2. f \in Surjection(S, T)
    BY <2>1, FS_Injection
  <2> QED BY <2>2 DEF T
<1>7. \E x \in S : f[x] = k
  BY <1>6 DEF Surjection
<1> QED BY <1>7

\* So it is among the nodes.
LEMMA RankOrder ==
  ASSUME NEW S \in SUBSET Node, NEW x \in S
  PROVE  /\ Rank(S, x) \in 0 .. Cardinality(S) - 1
         /\ \A z \in S : x < z => Rank(S, x) < Rank(S, z)
<1>1. S \subseteq Nat /\ IsFiniteSet(S)
  BY NodeAssumption, FS_Subset
<1> QED BY <1>1, Ranks

LEMMA RankOnto ==
  ASSUME NEW S \in SUBSET Node, NEW k \in 0 .. Cardinality(S) - 1
  PROVE  \E x \in S : Rank(S, x) = k
<1>1. S \subseteq Nat /\ IsFiniteSet(S)
  BY NodeAssumption, FS_Subset
<1> QED BY <1>1, RanksFill

\* The i-th element of a set has a counterpart in another one that is not smaller.
LEMMA SameRankIn ==
  ASSUME NEW S \in SUBSET Node, NEW T \in SUBSET Node, NEW x \in S,
         Rank(S, x) < Cardinality(T)
  PROVE  SameRank(S, x, T) \in T
<1>1. IsFiniteSet(T) /\ Cardinality(T) \in Nat
  BY NodeAssumption, FS_Subset, FS_CardinalityType
<1>2. Rank(S, x) \in 0 .. Cardinality(T) - 1
  BY <1>1, RankOrder
<1> QED BY <1>2, RankOnto DEF SameRank

-----------------------------------------------------------------------------
(* The operations of StackAssignment, and the messages *)

\* Every operation of StackAssignment makes an assignment of an assignment.
LEMMA AssignmentTypes ==
  ASSUME NEW a \in Assignment, NEW b \in Assignment, NEW c \in Node, NEW S
  PROVE  /\ Job(a, c) \in Seq(Path)
         /\ NoAssignment \in Assignment
         /\ Update(a, b) \in Assignment
         /\ WithEntry(a, c) \in Assignment
         /\ WithoutJob(a, c) \in Assignment
         /\ RemoveIdle(a, S) \in Assignment
<1>1. <<>> \in Seq(Path)
  OBVIOUS
<1>2. Job(a, c) \in Seq(Path)
  BY <1>1 DEF Job, Assignment
<1>3. NoAssignment \in Assignment /\ Update(a, b) \in Assignment /\ RemoveIdle(a, S) \in Assignment
  BY DEF NoAssignment, Update, RemoveIdle, Assignment
<1>4. WithEntry(a, c) \in Assignment /\ WithoutJob(a, c) \in Assignment
  BY <1>1, <1>2 DEF WithEntry, WithoutJob, Assignment
<1> QED BY <1>2, <1>3, <1>4

\* A stack is never mistaken for a missing entry.
LEMMA StackIsEntry ==
  ASSUME NEW s \in Seq(Path)
  PROVE  s # NoEntry
BY NoEntryAssumption

\* What the entries of an assignment are after each operation: an update or a new
\* entry removes none, and only empty ones are removed.
LEMMA EntriesKept ==
  ASSUME NEW a \in Assignment, NEW b \in Assignment, NEW c \in Node, NEW n \in Node, NEW S
  PROVE  /\ a[n] # NoEntry => /\ Update(a, b)[n] # NoEntry
                              /\ WithEntry(a, c)[n] # NoEntry
                              /\ WithoutJob(a, c)[n] # NoEntry
                              /\ n \notin S => RemoveIdle(a, S)[n] # NoEntry
         /\ WithEntry(a, n)[n] # NoEntry
         /\ NoAssignment[n] = NoEntry
<1>1. <<>> # NoEntry
  <2>1. <<>> \in Seq(Path)
    OBVIOUS
  <2> QED BY <2>1, StackIsEntry
<1>2. Job(a, c) # NoEntry /\ Job(a, n) # NoEntry
  BY AssignmentTypes, StackIsEntry
<1> QED BY <1>1, <1>2
        DEF Assignment, Update, WithEntry, WithoutJob, RemoveIdle, NoAssignment

\* The four kinds of messages the code makes.
LEMMA MessageTypes ==
  /\ \A a \in Assignment : StackAssignmentMsg(a) \in Message
  /\ \A best \in SUBSET Path : FinishedMsg(best) \in Message
  /\ \A c \in Node : DivideWithMsg(c) \in Message
  /\ TerminateMsg \in Message
BY DEF StackAssignmentMsg, FinishedMsg, DivideWithMsg, TerminateMsg, Message

\* What OnMessage() finds in a message of each kind.
LEMMA MessageContents ==
  ASSUME NEW msg \in Message
  PROVE  /\ msg.type \in {"STACK_ASSIGNMENT", "ASSIGNMENT_FINISHED", "DIVIDE_WITH", "TERMINATE"}
         /\ msg.type = "STACK_ASSIGNMENT" => msg.assign \in Assignment
         /\ msg.type = "ASSIGNMENT_FINISHED" => msg.best \in SUBSET Path
         /\ msg.type = "DIVIDE_WITH" => msg.with \in Node
BY DEF Message

-----------------------------------------------------------------------------
(* What every handler keeps of a node's local state *)

Effects == [local : LocalState, out : [Node -> Seq(Message)]]

\* OwnEntry and IdleHasNoWork, of one node.
Owns(n, l) ==
  /\ l.state = "Computing" => l.curr # NoAssignment
  /\ l.curr # NoAssignment => l.curr[n] # NoEntry

IdleEmpty(l) == l.state \in {"Initial", "Waiting"} => l.states = <<>>

Good(n, l) == Owns(n, l) /\ IdleEmpty(l)

\* The effect of a handler that sends nothing.
LEMMA NothingType ==
  ASSUME NEW l \in LocalState
  PROVE  Effect(l, Nothing) \in Effects
<1>1. <<>> \in Seq(Message)
  OBVIOUS
<1> QED BY <1>1 DEF Effect, Effects, Nothing

\* OnAssignment(): whatever the node did, it computes or has an empty stack after.
LEMMA OnAssignmentGood ==
  ASSUME NEW n \in Node, NEW l \in LocalState, NEW a \in Assignment, Owns(n, l)
  PROVE  OnAssignment(n, l, a) \in LocalState /\ Good(n, OnAssignment(n, l, a))
<1> DEFINE table == Update(l.curr, a)
           m == OnAssignment(n, l, a)
<1>1. /\ l.curr \in Assignment /\ table \in Assignment /\ WithEntry(table, n) \in Assignment
      /\ Job(a, n) \in Seq(Path)
  <2>1. l.curr \in Assignment
    BY DEF LocalState
  <2>2. table \in Assignment /\ Job(a, n) \in Seq(Path)
    BY <2>1, AssignmentTypes
  <2> QED BY <2>1, <2>2, AssignmentTypes
<1>2. CASE l.state = "Computing"
  <2>1. m = [l EXCEPT !.curr = table]
    BY <1>2 DEF OnAssignment
  <2>2. table[n] # NoEntry /\ NoAssignment[n] = NoEntry
    BY <1>1, <1>2, EntriesKept DEF Owns
  <2>3. m \in LocalState /\ m.curr = table /\ m.state = "Computing"
    BY <1>1, <1>2, <2>1 DEF LocalState
  <2> QED BY <2>2, <2>3 DEF Good, Owns, IdleEmpty
<1>3. CASE l.state # "Computing"
  <2> DEFINE new == IF l.curr = NoAssignment THEN WithEntry(table, n) ELSE table
  <2>1. m = [l EXCEPT !.curr = new, !.states = Job(a, n),
                      !.state = IF Job(a, n) = <<>> THEN "Waiting" ELSE "Computing"]
    BY <1>3 DEF OnAssignment
  <2>2. new \in Assignment
    BY <1>1
  <2>3. new[n] # NoEntry /\ NoAssignment[n] = NoEntry
    BY <1>1, EntriesKept DEF Owns
  <2> HIDE DEF new
  <2>4. /\ m \in LocalState /\ m.curr = new /\ m.states = Job(a, n)
        /\ m.state = IF Job(a, n) = <<>> THEN "Waiting" ELSE "Computing"
    BY <1>1, <2>1, <2>2 DEF LocalState, State
  <2> HIDE DEF m
  <2>5. m \in LocalState /\ Good(n, m)
    BY <2>3, <2>4 DEF Good, Owns, IdleEmpty
  <2> QED BY <2>5 DEF m
<1> QED BY <1>2, <1>3

\* OnAssignmentFinished() leaves the stack alone.
LEMMA OnAssignmentFinishedGood ==
  ASSUME NEW n \in Node, NEW l \in LocalState, NEW c \in Node, NEW best \in SUBSET Path,
         Owns(n, l)
  PROVE  LET m == OnAssignmentFinished(l, c, best)
         IN  /\ m \in LocalState /\ Owns(n, m)
             /\ m.states = l.states /\ m.state \in {l.state, "Aborted"}
<1> DEFINE m == OnAssignmentFinished(l, c, best)
<1>1. CASE l.curr = NoAssignment
  <2>1. m = [l EXCEPT !.state = "Aborted"]
    BY <1>1 DEF OnAssignmentFinished
  <2> QED BY <1>1, <2>1 DEF LocalState, State, Owns
<1>2. CASE l.curr # NoAssignment
  <2>1. m = [l EXCEPT !.bestFound = @ \cup best, !.curr = WithoutJob(@, c)]
    BY <1>2 DEF OnAssignmentFinished
  <2>2. l.curr \in Assignment /\ l.bestFound \in SUBSET Path
    BY DEF LocalState
  <2>3. WithoutJob(l.curr, c) \in Assignment
    BY <2>2, AssignmentTypes
  <2>4. WithoutJob(l.curr, c)[n] # NoEntry /\ NoAssignment[n] = NoEntry
    BY <1>2, <2>2, EntriesKept DEF Owns
  <2>5. /\ m \in LocalState /\ m.curr = WithoutJob(l.curr, c)
        /\ m.states = l.states /\ m.state = l.state
    BY <2>1, <2>2, <2>3 DEF LocalState
  <2> QED BY <2>4, <2>5 DEF Owns
<1> QED BY <1>1, <1>2

\* OnTerminate() changes the state alone, to one in which a stack may be left.
LEMMA OnTerminateGood ==
  ASSUME NEW n \in Node, NEW l \in LocalState, Owns(n, l)
  PROVE  OnTerminate(l) \in LocalState /\ Good(n, OnTerminate(l))
BY DEF OnTerminate, LocalState, State, Good, Owns, IdleEmpty

\* OnDivideWith(): the node keeps half of its stack.
LEMMA OnDivideWithGood ==
  ASSUME NEW n \in Node, NEW l \in LocalState, NEW c \in Node, Owns(n, l)
  PROVE  LET e == OnDivideWith(n, l, c)
         IN  e \in Effects /\ Owns(n, e.local) /\ (IdleEmpty(l) => IdleEmpty(e.local))
<1>1. CASE l.states = <<>>
  <2>1. OnDivideWith(n, l, c) = Effect(l, Nothing)
    BY <1>1 DEF OnDivideWith
  <2> QED BY <2>1, NothingType DEF Effect
<1>2. CASE l.states # <<>>
  <2> DEFINE rest == [l EXCEPT !.states = Kept(@)]
             local == OnAssignment(n, rest, Halves(n, l, c))
             out == [j \in Node |-> <<StackAssignmentMsg(Halves(n, l, c))>>]
  <2>1. Kept(l.states) \in Seq(Path) /\ Given(l.states) \in Seq(Path)
    BY KeptType DEF LocalState
  <2>2. rest \in LocalState /\ Owns(n, rest)
    BY <2>1 DEF LocalState, Owns
  <2>3. Halves(n, l, c) \in Assignment
    BY <2>1 DEF Halves, NoAssignment, Assignment
  <2>4. local \in LocalState /\ Good(n, local)
    BY <2>2, <2>3, OnAssignmentGood
  <2>5. out \in [Node -> Seq(Message)]
    BY <2>3, MessageTypes
  <2>6. OnDivideWith(n, l, c) = Effect(local, out)
    BY <1>2 DEF OnDivideWith
  <2> HIDE DEF local, out
  <2> QED BY <2>4, <2>5, <2>6 DEF Effect, Effects, Good
<1> QED BY <1>1, <1>2

\* One pass of compute(): a node that has a state to explore is not idle.
LEMMA ExploreGood ==
  ASSUME NEW n \in Node, NEW l \in LocalState, l.states # <<>>
  PROVE  /\ Explore(l) \in LocalState
         /\ Owns(n, l) => Owns(n, Explore(l))
         /\ IdleEmpty(l) => IdleEmpty(Explore(l))
<1>1. l.states \in Seq(Path) /\ Len(l.states) > 0 /\ l.bestMax \in SUBSET Path
  BY DEF LocalState
<1>2. Last(l.states) \in Path
  BY <1>1 DEF Last
<1>3. Front(l.states) \in Seq(Path)
  BY <1>1 DEF Front
<1>4. Children[Last(l.states)] \in Seq(Path)
  BY <1>2, JobAssumption
<1>5. Front(l.states) \o Children[Last(l.states)] \in Seq(Path)
  BY <1>3, <1>4
<1>6. /\ Explore(l) \in LocalState
      /\ Explore(l).curr = l.curr /\ Explore(l).state = l.state
  BY <1>1, <1>2, <1>5 DEF Explore, LocalState
<1> QED BY <1>6 DEF Owns, IdleEmpty

\* What ComputeStep() does when there is nothing left to explore.
LEMMA AnnounceGood ==
  ASSUME NEW n \in Node, NEW e \in Effects, e.local.states = <<>>, Owns(n, e.local)
  PROVE  AnnounceIfComputing(n, e) \in Effects /\ Good(n, AnnounceIfComputing(n, e).local)
<1>1. e.local \in LocalState /\ e.out \in [Node -> Seq(Message)]
  BY DEF Effects
<1>2. CASE e.local.state # "Computing"
  BY <1>2 DEF AnnounceIfComputing, Good, IdleEmpty
<1>3. CASE e.local.state = "Computing"
  <2> DEFINE best == e.local.bestMax
             m == OnAssignmentFinished(e.local, n, best)
             w == [m EXCEPT !.state = "Waiting"]
             out == [j \in Node |-> Append(e.out[j], FinishedMsg(best))]
  <2>1. best \in SUBSET Path
    BY <1>1 DEF LocalState
  <2>2. m \in LocalState /\ Owns(n, m) /\ m.states = <<>>
    BY <1>1, <2>1, OnAssignmentFinishedGood
  <2> HIDE DEF m
  <2>3. w \in LocalState /\ Good(n, w)
    BY <2>2 DEF LocalState, State, Good, Owns, IdleEmpty
  <2>4. out \in [Node -> Seq(Message)]
    BY <1>1, <2>1, MessageTypes
  <2>5. AnnounceIfComputing(n, e) = Effect(w, out)
    BY <1>3 DEF AnnounceIfComputing, m
  <2> HIDE DEF w, out
  <2> QED BY <2>3, <2>4, <2>5 DEF Effect, Effects
<1> QED BY <1>2, <1>3

\* ClearDisconnected() never removes the entry of its own node.
LEMMA ClearDisconnectedGood ==
  ASSUME NEW n \in Node, NEW l \in LocalState, Owns(n, l)
  PROVE  /\ ClearDisconnected(n, l) \in LocalState
         /\ Owns(n, ClearDisconnected(n, l))
         /\ IdleEmpty(l) => IdleEmpty(ClearDisconnected(n, l))
<1> DEFINE gone == Node \ (clients[n] \cup {n})
           m == ClearDisconnected(n, l)
<1>1. l.curr \in Assignment
  BY DEF LocalState
<1>2. RemoveIdle(l.curr, gone) \in Assignment
  BY <1>1, AssignmentTypes
<1>3. l.curr[n] # NoEntry => RemoveIdle(l.curr, gone)[n] # NoEntry
  BY <1>1, EntriesKept
<1>4. NoAssignment[n] = NoEntry
  BY DEF NoAssignment
<1>5. RemoveIdle(NoAssignment, gone) = NoAssignment
  <2>1. <<>> \in Seq(Path)
    OBVIOUS
  <2>2. <<>> # NoEntry
    BY <2>1, StackIsEntry
  <2> QED BY <2>2 DEF RemoveIdle, NoAssignment
<1>6. m = [l EXCEPT !.curr = RemoveIdle(@, gone)]
  BY DEF ClearDisconnected
<1> HIDE DEF gone
<1>7. /\ m \in LocalState /\ m.curr = RemoveIdle(l.curr, gone)
      /\ m.states = l.states /\ m.state = l.state
  BY <1>2, <1>6 DEF LocalState
<1> HIDE DEF m
<1>8. m \in LocalState /\ Owns(n, m) /\ (IdleEmpty(l) => IdleEmpty(m))
  BY <1>3, <1>4, <1>5, <1>7 DEF Owns, IdleEmpty
<1> QED BY <1>8 DEF m

-----------------------------------------------------------------------------
(* CheckAssignments() *)

\* The sets it computes are sets of nodes.
LEMMA CheckSets ==
  ASSUME TypeOK, NEW n \in Node, NEW l
  PROVE  /\ DisconnectedClients(n, l) \in SUBSET Node
         /\ NeedJobClients(n, l) \in SUBSET Node
         /\ WorkingClients(n, l) \in SUBSET Node
         /\ LeftOver(n, l) \in SUBSET Node
         /\ HeirsOf(n, l) \in SUBSET Node
BY DEF TypeOK, DisconnectedClients, NeedJobClients, WorkingClients, LeftOver, HeirsOf, First,
       NewClients, KnownClients, Entries, Idle

\* What is given again is the stack of a node that has an entry.
LEMMA RegivenType ==
  ASSUME TypeOK, NEW n \in Node, NEW l \in LocalState
  PROVE  Regiven(n, l) \in Assignment
<1> DEFINE need == NeedJobClients(n, l)
           disc == DisconnectedClients(n, l)
<1>1. need \in SUBSET Node /\ disc \in SUBSET Node
  BY CheckSets
<1>2. \A c \in disc : l.curr[c] # NoEntry /\ l.curr[c] \in Seq(Path) \cup {NoEntry}
  BY DEF DisconnectedClients, Entries, LocalState, Assignment
<1>3. \A c \in HeirsOf(n, l) : c \in need /\ Rank(need, c) < Cardinality(disc)
  BY DEF HeirsOf, First
<1> HIDE DEF need, disc
<1>4. \A c \in HeirsOf(n, l) : SameRank(need, c, disc) \in disc
  BY <1>1, <1>3, SameRankIn
<1>5. \A c \in HeirsOf(n, l) : l.curr[SameRank(need, c, disc)] \in Seq(Path)
  BY <1>2, <1>4
<1>6. <<>> \in Seq(Path)
  OBVIOUS
<1> QED BY <1>5, <1>6 DEF Regiven, Assignment, need, disc

\* A working client is told to divide its stack with a node.
LEMMA DivideWithNode ==
  ASSUME TypeOK, NEW n \in Node, NEW l, NEW w \in Dividers(n, l)
  PROVE  w \in Node /\ DivideWith(n, l, w) \in Node
<1> DEFINE working == WorkingClients(n, l)
           left == LeftOver(n, l)
<1>1. working \in SUBSET Node /\ left \in SUBSET Node
  BY CheckSets
<1>2. w \in working /\ Rank(working, w) < Cardinality(left)
  BY DEF Dividers, First
<1> HIDE DEF working, left
<1>3. SameRank(working, w, left) \in left
  BY <1>1, <1>2, SameRankIn
<1> QED BY <1>1, <1>2, <1>3 DEF DivideWith, working, left

\* The changes CheckAssignments() makes to the table and to the own stack.
LEMMA OwnDivisionGood ==
  ASSUME TypeOK, NEW n \in Node, NEW l \in LocalState, Owns(n, l)
  PROVE  /\ Cleared(n, l) \in LocalState
         /\ OwnDivision(n, l) \in Effects
         /\ Owns(n, OwnDivision(n, l).local)
         /\ IdleEmpty(l) => IdleEmpty(OwnDivision(n, l).local)
<1>1. /\ Cleared(n, l) \in LocalState /\ Owns(n, Cleared(n, l))
      /\ IdleEmpty(l) => IdleEmpty(Cleared(n, l))
  BY ClearDisconnectedGood DEF Cleared
<1>2. /\ AfterEnd(n, l) \in LocalState /\ Owns(n, AfterEnd(n, l))
      /\ IdleEmpty(l) => IdleEmpty(AfterEnd(n, l))
  BY <1>1, OnTerminateGood DEF AfterEnd, Good
<1>3. /\ AfterRegiving(n, l) \in LocalState /\ Owns(n, AfterRegiving(n, l))
      /\ IdleEmpty(l) => IdleEmpty(AfterRegiving(n, l))
  BY <1>2, RegivenType, OnAssignmentGood DEF AfterRegiving, Good
<1>4. CASE n \in Dividers(n, l)
  <2>1. DivideWith(n, l, n) \in Node
    BY <1>4, DivideWithNode
  <2>2. OwnDivision(n, l) = OnDivideWith(n, AfterRegiving(n, l), DivideWith(n, l, n))
    BY <1>4 DEF OwnDivision
  <2> QED BY <1>1, <1>3, <2>1, <2>2, OnDivideWithGood
<1>5. CASE n \notin Dividers(n, l)
  <2>1. OwnDivision(n, l) = Effect(AfterRegiving(n, l), Nothing)
    BY <1>5 DEF OwnDivision
  <2>2. OwnDivision(n, l).local = AfterRegiving(n, l)
    BY <2>1 DEF Effect
  <2> QED BY <1>1, <1>3, <2>1, <2>2, NothingType
<1> QED BY <1>4, <1>5

\* The messages it sends.
LEMMA CheckMessagesType ==
  ASSUME TypeOK, NEW n \in Node, NEW l \in LocalState, Owns(n, l), NEW sync, NEW j \in Node
  PROVE  CheckMessages(n, l, sync, j) \in Seq(Message)
<1>1. \A P \in BOOLEAN : \A msg \in Message : MessagesIf(P, msg) \in Seq(Message)
  BY DEF MessagesIf
<1>2. StackAssignmentMsg(Cleared(n, l).curr) \in Message
  BY OwnDivisionGood, MessageTypes DEF LocalState
<1>3. RegivenMsg(n, l) \in Message
  <2>1. Regiven(n, l) \in Assignment /\ WithEntry(Regiven(n, l), n) \in Assignment
    BY RegivenType, AssignmentTypes
  <2> QED BY <2>1, MessageTypes DEF RegivenMsg
<1>4. j \in Dividers(n, l) => DivideWithMsg(DivideWith(n, l, j)) \in Message
  BY DivideWithNode, MessageTypes
<1>5. OwnDivision(n, l).out[j] \in Seq(Message)
  BY OwnDivisionGood DEF Effects
<1> DEFINE table == StackAssignmentMsg(Cleared(n, l).curr)
           divide == DivideWithMsg(DivideWith(n, l, j))
<1>6. /\ MessagesIf(sync, table) \in Seq(Message)
      /\ MessagesIf(j \in NewClients(n, l), table) \in Seq(Message)
      /\ MessagesIf(NoJobsLeft(n, l), TerminateMsg) \in Seq(Message)
      /\ MessagesIf(HeirsOf(n, l) # {}, RegivenMsg(n, l)) \in Seq(Message)
  BY <1>2, <1>3, MessageTypes DEF MessagesIf
<1>7. /\ MessagesIf(j \in Dividers(n, l) /\ j < n, divide) \in Seq(Message)
      /\ MessagesIf(j \in Dividers(n, l) /\ j > n, divide) \in Seq(Message)
  BY <1>4 DEF MessagesIf
<1> HIDE DEF table, divide
<1> QED BY <1>5, <1>6, <1>7 DEF CheckMessages, table, divide

\* CheckAssignments() as a whole: a node that computes keeps its own entry, and an
\* idle one gets its new job by OnAssignment().
LEMMA CheckAssignmentsGood ==
  ASSUME TypeOK, NEW n \in Node, NEW l \in LocalState, Owns(n, l), NEW sync
  PROVE  LET e == CheckAssignments(n, l, sync)
         IN  e \in Effects /\ Owns(n, e.local) /\ (IdleEmpty(l) => IdleEmpty(e.local))
<1>1. CASE l.curr = NoAssignment
  <2> DEFINE m == [l EXCEPT !.state = "Aborted"]
  <2>1. m \in LocalState /\ m.curr = NoAssignment /\ m.state = "Aborted"
    BY <1>1 DEF LocalState, State
  <2>2. CheckAssignments(n, l, sync) = Effect(m, Nothing)
    BY <1>1 DEF CheckAssignments
  <2> HIDE DEF m
  <2>3. Effect(m, Nothing) \in Effects /\ Effect(m, Nothing).local = m
    BY <2>1, NothingType DEF Effect
  <2> QED BY <2>1, <2>2, <2>3 DEF Owns, IdleEmpty
<1>2. CASE l.curr # NoAssignment
  <2> DEFINE local == OwnDivision(n, l).local
             out == [j \in Node |-> CheckMessages(n, l, sync, j)]
  <2>1. local \in LocalState /\ Owns(n, local) /\ (IdleEmpty(l) => IdleEmpty(local))
    BY OwnDivisionGood DEF Effects
  <2>2. out \in [Node -> Seq(Message)]
    BY CheckMessagesType
  <2>3. CheckAssignments(n, l, sync) = Effect(local, out)
    BY <1>2 DEF CheckAssignments
  <2> HIDE DEF local, out
  <2> QED BY <2>1, <2>2, <2>3 DEF Effect, Effects
<1> QED BY <1>1, <1>2

-----------------------------------------------------------------------------
(* The inductive invariant *)

\* Of node n.  In InitLeaderStep() a node has work while it waits, a process that
\* has ended or crashed may leave work, and compute() runs only with states to go.
NodeInv(n) ==
  /\ Owns(n, comp[n])
  /\ pc[n] \notin {"init", "done", "dead"} => IdleEmpty(comp[n])
  /\ pc[n] = "compute" => fuel[n] > 0

IInv == TypeOK /\ \A n \in Node : NodeInv(n)

\* It implies the properties the runs check.
LEMMA InvImplies ==
  ASSUME IInv
  PROVE  TypeOK /\ OwnEntry /\ IdleHasNoWork
BY DEF IInv, NodeInv, Owns, IdleEmpty, OwnEntry, IdleHasNoWork, Living, Gone

\* A step that changes one node keeps it when the node is well afterwards.
LEMMA NodeStep ==
  ASSUME IInv, NEW n \in Node, NEW l \in LocalState, NEW p \in PC, NEW f \in Nat,
         Owns(n, l), p \notin {"init", "done", "dead"} => IdleEmpty(l),
         p = "compute" => f > 0,
         comp' = [comp EXCEPT ![n] = l],
         pc' = [pc EXCEPT ![n] = p],
         fuel' = [fuel EXCEPT ![n] = f],
         dealTo' \in [Node -> SUBSET Node], main' \in [Node -> MainPlace],
         clients' \in [Node -> SUBSET Node],
         leader' \in SUBSET Node,
         chan' \in [Node -> [Node -> Seq(Message)]]
  PROVE  IInv'
<1>1. TypeOK'
  BY DEF IInv, TypeOK
<1>2. ASSUME NEW m \in Node
      PROVE  NodeInv(m)'
  <2>1. NodeInv(m)
    BY DEF IInv
  <2>2. CASE m = n
    <3>1. comp'[m] = l /\ pc'[m] = p /\ fuel'[m] = f
      BY <2>2 DEF IInv, TypeOK
    <3> QED BY <2>2, <3>1 DEF NodeInv
  <2>3. CASE m # n
    <3>1. comp'[m] = comp[m] /\ pc'[m] = pc[m] /\ fuel'[m] = fuel[m]
      BY <2>3 DEF IInv, TypeOK
    <3> QED BY <2>1, <3>1 DEF NodeInv
  <2> QED BY <2>2, <2>3
<1> QED BY <1>1, <1>2 DEF IInv

\* A step that changes no process keeps it.
LEMMA NetworkStep ==
  ASSUME IInv, UNCHANGED <<comp, pc, fuel>>,
         dealTo' \in [Node -> SUBSET Node], main' \in [Node -> MainPlace],
         clients' \in [Node -> SUBSET Node],
         leader' \in SUBSET Node,
         chan' \in [Node -> [Node -> Seq(Message)]]
  PROVE  IInv'
BY DEF IInv, TypeOK, NodeInv

\* Sending and no longer reading give channels of messages.
LEMMA ChannelTypes ==
  ASSUME TypeOK, NEW n \in Node, NEW out \in [Node -> Seq(Message)],
         NEW channels \in [Node -> [Node -> Seq(Message)]]
  PROVE  /\ Sent(n, out, channels) \in [Node -> [Node -> Seq(Message)]]
         /\ Unread(n) \in [Node -> [Node -> Seq(Message)]]
<1>1. \A j \in Node : channels[n][j] \o out[j] \in Seq(Message)
  OBVIOUS
<1>2. Sent(n, out, channels) \in [Node -> [Node -> Seq(Message)]]
  BY <1>1 DEF Sent
<1>3. <<>> \in Seq(Message)
  OBVIOUS
<1>4. Unread(n) \in [Node -> [Node -> Seq(Message)]]
  BY <1>3 DEF Unread, TypeOK
<1> QED BY <1>2, <1>4

\* A process that dies keeps it.
LEMMA AbortInv ==
  ASSUME IInv, NEW n \in Node, NEW l \in LocalState, Owns(n, l), Abort(n, l)
  PROVE  IInv'
<1>1. TypeOK /\ "dead" \in PC
  BY DEF IInv, PC
<1>2. Nothing \in [Node -> Seq(Message)] /\ chan \in [Node -> [Node -> Seq(Message)]]
  <2>1. <<>> \in Seq(Message)
    OBVIOUS
  <2> QED BY <1>1, <2>1 DEF Nothing, TypeOK
<1>3. chan' \in [Node -> [Node -> Seq(Message)]]
  BY <1>1, <1>2, ChannelTypes DEF Abort
<1>4. fuel[n] \in Nat /\ fuel' = [fuel EXCEPT ![n] = fuel[n]]
  BY <1>1 DEF Abort, TypeOK
<1>5. /\ comp' = [comp EXCEPT ![n] = l] /\ pc' = [pc EXCEPT ![n] = "dead"]
      /\ dealTo' = dealTo /\ main' = main /\ clients' = clients /\ leader' = leader
  BY DEF Abort
<1>6. /\ dealTo' \in [Node -> SUBSET Node] /\ clients' \in [Node -> SUBSET Node]
      /\ leader' \in SUBSET Node /\ main' \in [Node -> MainPlace]
  BY <1>1, <1>5 DEF TypeOK
<1> QED BY <1>1, <1>3, <1>4, <1>5, <1>6, NodeStep

\* compute() and what follows it keep it, whatever the node did before in its step.
LEMMA ComputeStepInv ==
  ASSUME IInv, NEW n \in Node, NEW e \in Effects, Owns(n, e.local), IdleEmpty(e.local),
         NEW left \in Nat \ {0}, ComputeStep(n, e, left)
  PROVE  IInv'
<1> DEFINE found == AnnounceIfComputing(n, e)
<1>1. TypeOK /\ e.local \in LocalState /\ e.out \in [Node -> Seq(Message)]
  BY DEF IInv, Effects
<1>2. chan \in [Node -> [Node -> Seq(Message)]]
  BY <1>1 DEF TypeOK
<1>3. dealTo' = dealTo /\ main' = main /\ clients' = clients /\ leader' = leader
  BY DEF ComputeStep
<1>4. /\ dealTo' \in [Node -> SUBSET Node] /\ clients' \in [Node -> SUBSET Node]
      /\ leader' \in SUBSET Node /\ main' \in [Node -> MainPlace]
  BY <1>1, <1>3 DEF TypeOK
<1>5. CASE e.local.states = <<>>
  <2>1. found \in Effects /\ Good(n, found.local)
    BY <1>5, AnnounceGood
  <2>2. /\ comp' = [comp EXCEPT ![n] = found.local]
        /\ chan' = Sent(n, found.out, chan)
        /\ pc' = [pc EXCEPT ![n] = "loop"]
        /\ fuel' = [fuel EXCEPT ![n] = 0]
    BY <1>5 DEF ComputeStep
  <2> HIDE DEF found
  <2>3. found.local \in LocalState /\ found.out \in [Node -> Seq(Message)]
    BY <2>1 DEF Effects
  <2>4. chan' \in [Node -> [Node -> Seq(Message)]]
    BY <1>1, <1>2, <2>2, <2>3, ChannelTypes
  <2>5. Owns(n, found.local) /\ IdleEmpty(found.local) /\ "loop" \in PC
    BY <2>1 DEF Good, PC
  <2> QED BY <1>4, <2>2, <2>3, <2>4, <2>5, NodeStep
<1>6. CASE e.local.states # <<>>
  <2> DEFINE p == IF left = 1 THEN "loop" ELSE "compute"
             l == Explore(e.local)
  <2>1. l \in LocalState /\ Owns(n, l) /\ IdleEmpty(l)
    BY <1>1, <1>6, ExploreGood
  <2>2. /\ comp' = [comp EXCEPT ![n] = l]
        /\ chan' = Sent(n, e.out, chan)
        /\ pc' = [pc EXCEPT ![n] = p]
        /\ fuel' = [fuel EXCEPT ![n] = left - 1]
    BY <1>6 DEF ComputeStep
  <2>3. p \in PC /\ left - 1 \in Nat /\ (p = "compute" => left - 1 > 0)
    BY DEF PC
  <2> HIDE DEF p, l
  <2>4. chan' \in [Node -> [Node -> Seq(Message)]]
    BY <1>1, <1>2, <2>2, ChannelTypes
  <2> QED BY <1>4, <2>1, <2>2, <2>3, <2>4, NodeStep
<1> QED BY <1>5, <1>6

-----------------------------------------------------------------------------
(* The actions *)

\* A handler of a message keeps the own entry and leaves no work to an idle node.
LEMMA HandleGood ==
  ASSUME IInv, NEW n \in Node, NEW m \in Node, NEW msg \in Message, pc[n] = "loop"
  PROVE  LET e == Handle(n, m, msg)
         IN  e \in Effects /\ Owns(n, e.local) /\ IdleEmpty(e.local)
<1> DEFINE l == comp[n]
           e == Handle(n, m, msg)
<1>1. l \in LocalState /\ Owns(n, l) /\ IdleEmpty(l)
  BY DEF IInv, TypeOK, NodeInv
<1> HIDE DEF l
<1>2. CASE msg.type = "STACK_ASSIGNMENT"
  <2> DEFINE after == OnAssignment(n, l, msg.assign)
  <2>1. after \in LocalState /\ Good(n, after)
    BY <1>1, <1>2, MessageContents, OnAssignmentGood
  <2>2. e = Effect(after, Nothing)
    BY <1>2 DEF Handle, l
  <2> HIDE DEF after
  <2> QED BY <2>1, <2>2, NothingType DEF Effect, Good
<1>3. CASE msg.type = "ASSIGNMENT_FINISHED"
  <2> DEFINE after == OnAssignmentFinished(l, m, msg.best)
  <2>1. /\ after \in LocalState /\ Owns(n, after)
        /\ after.states = l.states /\ after.state \in {l.state, "Aborted"}
    BY <1>1, <1>3, MessageContents, OnAssignmentFinishedGood
  <2>2. e = Effect(after, Nothing)
    BY <1>3 DEF Handle, l
  <2> HIDE DEF after
  <2>3. IdleEmpty(after)
    BY <1>1, <2>1 DEF IdleEmpty
  <2> QED BY <2>1, <2>2, <2>3, NothingType DEF Effect
<1>4. CASE msg.type = "DIVIDE_WITH"
  <2>1. e = OnDivideWith(n, l, msg.with)
    BY <1>4 DEF Handle, l
  <2> QED BY <1>1, <1>4, <2>1, MessageContents, OnDivideWithGood
<1>5. CASE msg.type = "TERMINATE"
  <2>1. e = Effect(OnTerminate(l), Nothing)
    BY <1>5 DEF Handle, l
  <2> QED BY <1>1, <2>1, OnTerminateGood, NothingType DEF Effect, Good
<1> QED BY <1>2, <1>3, <1>4, <1>5, MessageContents

\* The jobs InitLeaderStep() deals: one for each client it took and one for itself.
LEMMA DealtJobsType ==
  ASSUME IInv, NEW n \in Node,
         NEW position \in [dealTo[n] -> 1 .. Cardinality(dealTo[n])]
  PROVE  DealtJobs(n, position) \in Assignment
<1> DEFINE k == Cardinality(dealTo[n])
           pars == GetParallelStacks(comp[n].states, k + 1)
<1>1. k \in Nat
  <2>1. dealTo[n] \in SUBSET Node
    BY DEF IInv, TypeOK
  <2> QED BY <2>1, NodeAssumption, FS_Subset, FS_CardinalityType
<1>2. comp[n].states \in Seq(Path)
  BY DEF IInv, TypeOK, LocalState
<1>3. pars \in [1 .. k + 1 -> Seq(Path)]
  <2> DEFINE count == k + 1
  <2>1. count \in Nat
    BY <1>1
  <2> HIDE DEF count
  <2>2. GetParallelStacks(comp[n].states, count) \in [1 .. count -> Seq(Path)]
    BY <1>2, <2>1, GetParallelStacksType
  <2> QED BY <2>2 DEF count
<1>4. position \in [dealTo[n] -> 1 .. k]
  OBVIOUS
<1>5. DealtJobs(n, position) =
        [c \in Node |-> IF c = n THEN pars[k + 1]
                        ELSE IF c \in dealTo[n] THEN pars[position[c]] ELSE NoEntry]
  BY DEF DealtJobs
<1> HIDE DEF k, pars
<1>6. pars[k + 1] \in Seq(Path) /\ \A c \in dealTo[n] : pars[position[c]] \in Seq(Path)
  BY <1>1, <1>3, <1>4
<1> QED BY <1>5, <1>6 DEF Assignment

\* The local state ComputationLoop() gives to compute() when it does not look at
\* the table.
LEMMA NonLeaderStepGood ==
  ASSUME NEW n \in Node, NEW l \in LocalState, Owns(n, l), IdleEmpty(l)
  PROVE  NonLeaderStep(l) \in LocalState /\ Owns(n, NonLeaderStep(l)) /\ IdleEmpty(NonLeaderStep(l))
<1>1. CASE l.state = "Initial"
  <2> DEFINE m == [l EXCEPT !.state = "Waiting"]
  <2>1. /\ m \in LocalState /\ m.state = "Waiting"
        /\ m.curr = l.curr /\ m.states = l.states
    BY DEF LocalState, State
  <2>2. NonLeaderStep(l) = m
    BY <1>1 DEF NonLeaderStep
  <2> HIDE DEF m
  <2> QED BY <1>1, <2>1, <2>2 DEF Owns, IdleEmpty
<1>2. CASE l.state # "Initial"
  BY <1>2 DEF NonLeaderStep
<1> QED BY <1>1, <1>2

\* The inductive invariant holds initially.
LEMMA InitInv ==
  ASSUME Init
  PROVE  IInv
<1>1. NoAssignment \in Assignment /\ \A n \in Node : NoAssignment[n] = NoEntry
  BY DEF NoAssignment, Assignment
<1>2. <<>> \in Seq(Path) /\ <<>> \in Seq(Message)
  OBVIOUS
<1>3. /\ InitLocal \in LocalState /\ InitLocal.state = "Initial"
      /\ InitLocal.states = <<>> /\ InitLocal.curr = NoAssignment
  BY <1>1, <1>2 DEF InitLocal, LocalState, State
<1>4. \A n \in Node : Owns(n, InitLocal) /\ IdleEmpty(InitLocal)
  BY <1>3 DEF Owns, IdleEmpty
<1>5. chan \in [Node -> [Node -> Seq(Message)]]
  BY <1>2 DEF Init
<1>6. leader \in SUBSET Node /\ clients \in [Node -> SUBSET Node]
  BY NetworkAssumption DEF Init
<1>7. TypeOK
  BY <1>3, <1>5, <1>6 DEF Init, TypeOK, PC, MainPlace
<1>8. \A n \in Node : comp[n] = InitLocal /\ pc[n] = "off"
  BY DEF Init
<1> QED BY <1>4, <1>7, <1>8 DEF IInv, NodeInv

\* It is kept by every step of a computation thread...
LEMMA ProcessInv ==
  ASSUME IInv, NEW n \in Node, Process(n)
  PROVE  IInv'
<1> DEFINE l == comp[n]
<1>1. /\ TypeOK /\ l \in LocalState /\ pc[n] \in PC /\ fuel[n] \in Nat /\ Owns(n, l)
      /\ pc[n] \notin {"init", "done", "dead"} => IdleEmpty(l)
      /\ pc[n] = "compute" => fuel[n] > 0
      /\ LoopCycles \in Nat /\ InitSteps \in Nat /\ LoopCycles + 1 \in Nat \ {0}
  BY StepsAssumption DEF IInv, TypeOK, NodeInv
<1>2. /\ comp = [comp EXCEPT ![n] = l] /\ pc = [pc EXCEPT ![n] = pc[n]]
      /\ fuel = [fuel EXCEPT ![n] = fuel[n]]
  BY <1>1 DEF TypeOK
<1>3. /\ dealTo \in [Node -> SUBSET Node] /\ clients \in [Node -> SUBSET Node]
      /\ leader \in SUBSET Node /\ chan \in [Node -> [Node -> Seq(Message)]]
      /\ main \in [Node -> MainPlace]
  BY <1>1 DEF TypeOK
<1>4. Nothing \in [Node -> Seq(Message)]
  <2>1. <<>> \in Seq(Message)
    OBVIOUS
  <2> QED BY <2>1 DEF Nothing
<1>5. {"init", "loop", "done"} \subseteq PC
  BY DEF PC
<1>6. ASSUME StartComputation(n)
      PROVE  IInv'
  <2>1. /\ IdleEmpty(l) /\ comp' = [comp EXCEPT ![n] = l]
        /\ fuel' = [fuel EXCEPT ![n] = fuel[n]] /\ pc' = [pc EXCEPT ![n] = "loop"]
        /\ UNCHANGED <<dealTo, main, clients, leader, chan>>
    BY <1>1, <1>2, <1>6 DEF StartComputation
  <2> HIDE DEF l
  <2> QED BY <1>1, <1>3, <1>5, <2>1, NodeStep
<1>7. ASSUME BeginInit(n)
      PROVE  IInv'
  <2> DEFINE m == [l EXCEPT !.state = "Waiting", !.states = @ \o Roots]
             f == InitSteps * (LoopCycles + 1)
  <2>1. l.states \o Roots \in Seq(Path) /\ f \in Nat
    BY <1>1, JobAssumption DEF LocalState
  <2>2. m \in LocalState /\ m.curr = l.curr /\ m.state = "Waiting"
    BY <1>1, <2>1 DEF LocalState, State
  <2>3. Owns(n, m)
    BY <1>1, <2>2 DEF Owns
  <2>4. comp' = [comp EXCEPT ![n] = m]
    BY <1>7 DEF BeginInit
  <2>5. /\ dealTo' = [dealTo EXCEPT ![n] = clients[n]]
        /\ fuel' = [fuel EXCEPT ![n] = f] /\ pc' = [pc EXCEPT ![n] = "init"]
        /\ UNCHANGED <<main, clients, leader, chan>>
    BY <1>7 DEF BeginInit
  <2>6. dealTo' \in [Node -> SUBSET Node]
    BY <1>3, <2>5
  <2> HIDE DEF l, m, f
  <2> QED BY <1>1, <1>3, <1>5, <2>1, <2>2, <2>3, <2>4, <2>5, <2>6, NodeStep
<1>8. ASSUME ExploreFirst(n)
      PROVE  IInv'
  <2>1. /\ pc[n] = "init" /\ fuel[n] > 0 /\ l.states # <<>>
        /\ comp' = [comp EXCEPT ![n] = Explore(l)]
        /\ fuel' = [fuel EXCEPT ![n] = fuel[n] - 1]
        /\ UNCHANGED <<pc, dealTo, main, clients, leader, chan>>
    BY <1>8 DEF ExploreFirst
  <2>2. Explore(l) \in LocalState /\ Owns(n, Explore(l))
    BY <1>1, <2>1, ExploreGood
  <2>3. fuel[n] - 1 \in Nat /\ pc' = [pc EXCEPT ![n] = "init"]
    BY <1>1, <1>2, <2>1
  <2> HIDE DEF l
  <2> QED BY <1>3, <1>5, <2>1, <2>2, <2>3, NodeStep
<1>9. ASSUME DivideInit(n)
      PROVE  IInv'
  <2>1. PICK position \in [dealTo[n] -> 1 .. Cardinality(dealTo[n])] :
          LET jobs == DealtJobs(n, position)
          IN  ComputeStep(n,
                Effect(OnAssignment(n, comp[n], jobs),
                       [j \in Node |-> MessagesIf(j \in dealTo[n], StackAssignmentMsg(jobs))]),
                LoopCycles + 1)
    BY <1>9 DEF DivideInit
  <2> DEFINE jobs == DealtJobs(n, position)
             after == OnAssignment(n, l, jobs)
             out == [j \in Node |-> MessagesIf(j \in dealTo[n], StackAssignmentMsg(jobs))]
  <2>2. jobs \in Assignment
    BY DealtJobsType
  <2>3. after \in LocalState /\ Good(n, after)
    BY <1>1, <2>2, OnAssignmentGood
  <2>4. out \in [Node -> Seq(Message)]
    BY <2>2, MessageTypes DEF MessagesIf
  <2>5. ComputeStep(n, Effect(after, out), LoopCycles + 1)
    BY <2>1
  <2> HIDE DEF after, out
  <2>6. /\ Effect(after, out) \in Effects /\ Owns(n, Effect(after, out).local)
        /\ IdleEmpty(Effect(after, out).local)
    BY <2>3, <2>4 DEF Effect, Effects, Good
  <2> QED BY <1>1, <2>5, <2>6, ComputeStepInv
<1>10. ASSUME Loop(n)
       PROVE  IInv'
  <2>1. pc[n] = "loop" /\ IdleEmpty(l)
    BY <1>1, <1>10 DEF Loop, Iterate, IterateAndClear, IterateAndCheck, MayIterate
  <2>2. \A m \in LocalState :
          Owns(n, m) /\ IdleEmpty(m)
            => /\ Effect(m, Nothing) \in Effects /\ Owns(n, Effect(m, Nothing).local)
               /\ IdleEmpty(Effect(m, Nothing).local)
    BY NothingType DEF Effect
  <2>3. CASE Iterate(n)
    <3> DEFINE m == IF n \in leader THEN l ELSE NonLeaderStep(l)
    <3>1. m \in LocalState /\ Owns(n, m) /\ IdleEmpty(m)
      BY <1>1, <2>1, NonLeaderStepGood
    <3>2. ComputeStep(n, Effect(m, Nothing), LoopCycles + 1)
      BY <2>3 DEF Iterate
    <3> HIDE DEF m
    <3> QED BY <1>1, <2>2, <3>1, <3>2, ComputeStepInv
  <2>4. CASE IterateAndClear(n)
    <3> DEFINE m == ClearDisconnected(n, NonLeaderStep(l))
    <3>1. m \in LocalState /\ Owns(n, m) /\ IdleEmpty(m)
      BY <1>1, <2>1, NonLeaderStepGood, ClearDisconnectedGood
    <3>2. ComputeStep(n, Effect(m, Nothing), LoopCycles + 1)
      BY <2>4 DEF IterateAndClear
    <3> HIDE DEF m
    <3> QED BY <1>1, <2>2, <3>1, <3>2, ComputeStepInv
  <2>5. ASSUME NEW sync \in BOOLEAN, IterateAndCheck(n, sync)
        PROVE  IInv'
    <3> DEFINE e == CheckAssignments(n, l, sync)
    <3>1. e \in Effects /\ Owns(n, e.local) /\ IdleEmpty(e.local)
      BY <1>1, <2>1, CheckAssignmentsGood
    <3>2. IF e.local.state = "Aborted" THEN Abort(n, e.local)
                                       ELSE ComputeStep(n, e, LoopCycles + 1)
      BY <2>5 DEF IterateAndCheck
    <3> HIDE DEF e
    <3>3. e.local \in LocalState
      BY <3>1 DEF Effects
    <3>4. CASE e.local.state = "Aborted"
      BY <3>1, <3>2, <3>3, <3>4, AbortInv
    <3>5. CASE e.local.state # "Aborted"
      BY <1>1, <3>1, <3>2, <3>5, ComputeStepInv
    <3> QED BY <3>4, <3>5
  <2> QED BY <1>10, <2>3, <2>4, <2>5 DEF Loop
<1>11. ASSUME ContinueCompute(n)
       PROVE  IInv'
  <2>1. /\ pc[n] = "compute" /\ ComputeStep(n, Effect(l, Nothing), fuel[n])
        /\ fuel[n] \in Nat \ {0}
    BY <1>1, <1>11 DEF ContinueCompute
  <2>2. /\ Effect(l, Nothing) \in Effects /\ Owns(n, Effect(l, Nothing).local)
        /\ IdleEmpty(Effect(l, Nothing).local)
    BY <1>1, <2>1, NothingType DEF Effect
  <2> HIDE DEF l
  <2> QED BY <2>1, <2>2, ComputeStepInv
<1>12. ASSUME NEW m \in Node, ReadMessage(n, m)
       PROVE  IInv'
  <2> DEFINE msg == Head(chan[m][n])
             e == Handle(n, m, msg)
             read == [chan EXCEPT ![m][n] = Tail(@)]
  <2>1. /\ pc[n] = "loop" /\ chan[m][n] # <<>>
        /\ IF e.local.state = "Aborted"
           THEN Abort(n, e.local)
           ELSE /\ comp' = [comp EXCEPT ![n] = e.local]
                /\ chan' = Sent(n, e.out, read)
                /\ UNCHANGED <<pc, fuel, dealTo, main, clients, leader>>
    BY <1>12 DEF ReadMessage
  <2>2. chan[m][n] \in Seq(Message) /\ msg \in Message /\ Tail(chan[m][n]) \in Seq(Message)
    BY <1>3, <2>1
  <2>3. read \in [Node -> [Node -> Seq(Message)]]
    BY <1>3, <2>2
  <2>4. e \in Effects /\ Owns(n, e.local) /\ IdleEmpty(e.local)
    BY <2>1, <2>2, HandleGood
  <2> HIDE DEF e, read, l
  <2>5. e.local \in LocalState /\ e.out \in [Node -> Seq(Message)]
    BY <2>4 DEF Effects
  <2>6. CASE e.local.state = "Aborted"
    BY <2>1, <2>4, <2>5, <2>6, AbortInv
  <2>7. CASE e.local.state # "Aborted"
    <3>1. Sent(n, e.out, read) \in [Node -> [Node -> Seq(Message)]]
      BY <1>1, <2>3, <2>5, ChannelTypes
    <3>2. /\ comp' = [comp EXCEPT ![n] = e.local] /\ chan' = Sent(n, e.out, read)
          /\ pc' = [pc EXCEPT ![n] = "loop"] /\ fuel' = [fuel EXCEPT ![n] = fuel[n]]
          /\ UNCHANGED <<dealTo, main, clients, leader>>
      BY <1>2, <2>1, <2>7
    <3> QED BY <1>1, <1>3, <1>5, <2>4, <2>5, <3>1, <3>2, NodeStep
  <2> QED BY <2>6, <2>7
<1>13. ASSUME EndLoop(n)
       PROVE  IInv'
  <2>1. /\ comp' = [comp EXCEPT ![n] = l] /\ fuel' = [fuel EXCEPT ![n] = fuel[n]]
        /\ pc' = [pc EXCEPT ![n] = "done"] /\ chan' = Unread(n)
        /\ main' = [main EXCEPT ![n] = "joins"] /\ UNCHANGED <<dealTo, clients, leader>>
    BY <1>2, <1>13 DEF EndLoop
  <2>2. Unread(n) \in [Node -> [Node -> Seq(Message)]] /\ main' \in [Node -> MainPlace]
    BY <1>1, <1>3, <1>4, <2>1, ChannelTypes DEF MainPlace
  <2> HIDE DEF l
  <2> QED BY <1>1, <1>3, <1>5, <2>1, <2>2, NodeStep
<1>14. ASSUME SeeFinished(n)
       PROVE  IInv'
  <2>1. /\ main' = [main EXCEPT ![n] = "quits"]
        /\ UNCHANGED <<comp, pc, fuel, dealTo, clients, leader, chan>>
    BY <1>14 DEF SeeFinished
  <2>2. main' \in [Node -> MainPlace]
    BY <1>3, <2>1 DEF MainPlace
  <2> QED BY <1>3, <2>1, <2>2, NetworkStep
<1>15. ASSUME Terminate(n)
       PROVE  IInv'
  <2> DEFINE m == OnTerminate(l)
  <2>1. /\ main' = [main EXCEPT ![n] = "joins"]
        /\ comp' = [comp EXCEPT ![n].state = "Finished"]
        /\ UNCHANGED <<pc, fuel, dealTo, clients, leader, chan>>
    BY <1>15 DEF Terminate
  <2>2. comp' = [comp EXCEPT ![n] = m]
    BY <2>1 DEF OnTerminate
  <2>3. main' \in [Node -> MainPlace]
    BY <1>3, <2>1 DEF MainPlace
  <2>4. m \in LocalState /\ Owns(n, m) /\ IdleEmpty(m)
    BY <1>1, OnTerminateGood DEF Good
  <2>5. pc' = [pc EXCEPT ![n] = pc[n]] /\ fuel' = [fuel EXCEPT ![n] = fuel[n]]
    BY <1>2, <2>1
  <2> HIDE DEF l, m
  <2> QED BY <1>1, <1>3, <2>1, <2>2, <2>3, <2>4, <2>5, NodeStep
<1> QED BY <1>6, <1>7, <1>8, <1>9, <1>10, <1>11, <1>12, <1>13, <1>14, <1>15 DEF Process, Read

\* ... and by every step of the network.
LEMMA NetworkInv ==
  ASSUME IInv, Network
  PROVE  IInv'
<1>1. /\ TypeOK /\ dealTo \in [Node -> SUBSET Node] /\ clients \in [Node -> SUBSET Node]
      /\ leader \in SUBSET Node /\ chan \in [Node -> [Node -> Seq(Message)]]
      /\ main \in [Node -> MainPlace]
  BY DEF IInv, TypeOK
<1>2. ASSUME NEW n \in Node, Elect(n)
      PROVE  IInv'
  <2>1. leader' = {n} /\ UNCHANGED <<comp, pc, fuel, dealTo, main, clients, chan>>
    BY <1>2 DEF Elect
  <2>2. leader' \in SUBSET Node
    BY <2>1
  <2> QED BY <1>1, <2>1, <2>2, NetworkStep
<1>3. ASSUME NEW i \in Node, NEW j \in Node, Connect(i, j)
      PROVE  IInv'
  <2>1. /\ clients' = [clients EXCEPT ![i] = @ \cup {j}, ![j] = @ \cup {i}]
        /\ UNCHANGED <<comp, pc, fuel, dealTo, main, leader, chan>>
    BY <1>3 DEF Connect
  <2>2. clients' \in [Node -> SUBSET Node]
    BY <1>1, <2>1
  <2> QED BY <1>1, <2>1, <2>2, NetworkStep
<1>4. ASSUME NEW n \in Node, Crash(n)
      PROVE  IInv'
  <2>1. /\ comp' = [comp EXCEPT ![n] = comp[n]] /\ fuel' = [fuel EXCEPT ![n] = fuel[n]]
        /\ pc' = [pc EXCEPT ![n] = "dead"] /\ chan' = Unread(n)
        /\ UNCHANGED <<dealTo, main, clients, leader>>
    BY <1>1, <1>4 DEF Crash, TypeOK
  <2>2. Nothing \in [Node -> Seq(Message)]
    <3>1. <<>> \in Seq(Message)
      OBVIOUS
    <3> QED BY <3>1 DEF Nothing
  <2>3. Unread(n) \in [Node -> [Node -> Seq(Message)]]
    BY <1>1, <2>2, ChannelTypes
  <2>4. comp[n] \in LocalState /\ fuel[n] \in Nat /\ Owns(n, comp[n]) /\ "dead" \in PC
    BY DEF IInv, TypeOK, NodeInv, PC
  <2> QED BY <1>1, <2>1, <2>3, <2>4, NodeStep
<1>5. ASSUME NEW n \in Node, NEW j \in Node, LoseLast(n, j)
      PROVE  IInv'
  <2>1. /\ chan[n][j] # <<>> /\ chan' = [chan EXCEPT ![n][j] = Front(@)]
        /\ UNCHANGED <<comp, pc, fuel, dealTo, main, clients, leader>>
    BY <1>5 DEF LoseLast
  <2>2. chan[n][j] \in Seq(Message) /\ Len(chan[n][j]) > 0
    BY <1>1, <2>1
  <2>3. Front(chan[n][j]) \in Seq(Message)
    BY <2>2 DEF Front
  <2>4. chan' \in [Node -> [Node -> Seq(Message)]]
    BY <1>1, <2>1, <2>3
  <2> QED BY <1>1, <2>1, <2>4, NetworkStep
<1>6. ASSUME NEW n \in Node, NEW j \in Node, Disconnect(j, n)
      PROVE  IInv'
  <2>1. /\ clients' = [clients EXCEPT ![j] = @ \ {n}]
        /\ UNCHANGED <<comp, pc, fuel, dealTo, main, leader, chan>>
    BY <1>6 DEF Disconnect
  <2>2. clients' \in [Node -> SUBSET Node]
    BY <1>1, <2>1
  <2> QED BY <1>1, <2>1, <2>2, NetworkStep
<1> QED BY <1>2, <1>3, <1>4, <1>5, <1>6 DEF Network

\* Every step keeps the inductive invariant.
LEMMA StepInv ==
  ASSUME IInv, [Next]_vars
  PROVE  IInv'
<1>1. ASSUME UNCHANGED vars
      PROVE  IInv'
  <2>1. UNCHANGED <<comp, pc, fuel>> /\ UNCHANGED <<dealTo, main, clients, leader, chan>>
    BY <1>1 DEF vars
  <2> QED BY <2>1, NetworkStep DEF IInv, TypeOK
<1>2. CASE \E n \in Node : Process(n)
  BY <1>2, ProcessInv
<1>3. CASE Network
  BY <1>3, NetworkInv
<1>4. CASE AllStopped
  BY <1>1, <1>4 DEF AllStopped
<1> QED BY <1>1, <1>2, <1>3, <1>4 DEF Next

\* In every execution the inductive invariant holds.
LEMMA Invariance == Spec => []IInv
<1>1. Init => IInv
  BY InitInv
<1>2. IInv /\ [Next]_vars => IInv'
  BY StepInv
<1> QED BY <1>1, <1>2, PTL DEF Spec

-----------------------------------------------------------------------------
(* What the handlers do, field by field *)

\* An empty stack is a stack, and not the absence of an entry.
LEMMA NoStack == <<>> \in Seq(Path) /\ <<>> # NoEntry
<1>1. <<>> \in Seq(Path)
  OBVIOUS
<1> QED BY <1>1, StackIsEntry

\* An entry of an assignment, and the job it is.
LEMMA JobIs ==
  ASSUME NEW a \in Assignment, NEW c \in Node
  PROVE  /\ a[c] = NoEntry => Job(a, c) = <<>>
         /\ a[c] # NoEntry => Job(a, c) = a[c] /\ a[c] \in Seq(Path)
         /\ Job(a, c) \in Seq(Path)
BY NoStack DEF Job, Assignment

\* What OnAssignment() makes of a node, field by field.
LEMMA OnAssignmentIs ==
  ASSUME NEW n \in Node, NEW l \in LocalState, NEW a \in Assignment, Owns(n, l)
  PROVE  LET m == OnAssignment(n, l, a)
         IN  /\ m \in LocalState /\ Owns(n, m) /\ IdleEmpty(m) /\ m.curr # NoAssignment
             /\ m.bestMax = l.bestMax
             /\ l.curr # NoAssignment => m.curr = Update(l.curr, a)
             /\ l.state = "Computing" => m.state = "Computing" /\ m.states = l.states
             /\ l.state # "Computing" =>
                  /\ m.states = Job(a, n)
                  /\ m.state = IF Job(a, n) = <<>> THEN "Waiting" ELSE "Computing"
<1> DEFINE table == Update(l.curr, a)
           m == OnAssignment(n, l, a)
<1>1. m \in LocalState /\ Owns(n, m) /\ IdleEmpty(m)
  BY OnAssignmentGood DEF Good
<1>2. l.curr \in Assignment /\ table \in Assignment
  BY AssignmentTypes DEF LocalState
<1>3. NoAssignment[n] = NoEntry /\ WithEntry(table, n)[n] # NoEntry
  BY <1>2, EntriesKept
<1>4. CASE l.state = "Computing"
  <2>1. m = [l EXCEPT !.curr = table]
    BY <1>4 DEF OnAssignment
  <2>2. m.curr = table /\ m.state = "Computing" /\ m.states = l.states /\ m.bestMax = l.bestMax
    BY <2>1, <1>4 DEF LocalState
  <2>3. m.curr # NoAssignment
    BY <2>2, <1>1 DEF Owns
  <2> QED BY <1>1, <1>4, <2>2, <2>3
<1>5. CASE l.state # "Computing"
  <2> DEFINE new == IF l.curr = NoAssignment THEN WithEntry(table, n) ELSE table
  <2>1. m = [l EXCEPT !.curr = new, !.states = Job(a, n),
                      !.state = IF Job(a, n) = <<>> THEN "Waiting" ELSE "Computing"]
    BY <1>5 DEF OnAssignment
  <2>2. /\ m.curr = new /\ m.states = Job(a, n) /\ m.bestMax = l.bestMax
        /\ m.state = IF Job(a, n) = <<>> THEN "Waiting" ELSE "Computing"
    BY <2>1 DEF LocalState
  <2>3. new[n] # NoEntry
    BY <1>2, <1>3, EntriesKept DEF Owns
  <2>4. m.curr # NoAssignment
    BY <2>2, <2>3, <1>3
  <2> QED BY <1>1, <1>5, <2>2, <2>4
<1> QED BY <1>4, <1>5

\* What exploring makes of a node.
LEMMA ExploreIs ==
  ASSUME NEW n \in Node, NEW l \in LocalState, l.states # <<>>
  PROVE  LET m == Explore(l)
         IN  /\ m \in LocalState /\ m.state = l.state /\ m.curr = l.curr
             /\ m.states = Front(l.states) \o Children[Last(l.states)]
             /\ m.bestMax = l.bestMax \cup {Last(l.states)}
             /\ Last(l.states) \in Path
<1>1. l.states \in Seq(Path) /\ Len(l.states) > 0 /\ l.bestMax \in SUBSET Path
  BY DEF LocalState
<1>2. Last(l.states) \in Path
  BY <1>1 DEF Last
<1>3. Explore(l) \in LocalState
  BY ExploreGood
<1>4. Explore(l) = [l EXCEPT !.states = Front(@) \o Children[Last(@)],
                             !.bestMax = @ \cup {Last(l.states)}]
  BY DEF Explore
<1> QED BY <1>2, <1>3, <1>4 DEF LocalState

-----------------------------------------------------------------------------
(* The work on a stack *)

Apart(s) == \A i, j \in DOMAIN s : i # j => Subtree[s[i]] \cap Subtree[s[j]] = {}
TreeJob == /\ Apart(Roots)
           /\ \A p \in Path : Apart(Children[p]) /\ p \notin WorkIn(Children[p])

\* The subtree of a path holds it and its children's subtrees, and no more.
LEMMA SubtreeIs ==
  ASSUME NEW p \in Path
  PROVE  /\ Subtree[p] \subseteq Path /\ p \in Subtree[p]
         /\ \A x \in Subtree[p] : ToSet(Children[x]) \subseteq Subtree[p]
         /\ \A C \in SUBSET Path :
              p \in C /\ (\A x \in C : ToSet(Children[x]) \subseteq C) => Subtree[p] \subseteq C
<1>1. Subtree[p] = {q \in Path : \A C \in SUBSET Path :
                      p \in C /\ (\A x \in C : ToSet(Children[x]) \subseteq C) => q \in C}
  BY DEF Subtree
<1>2. ASSUME NEW x \in Path
      PROVE  ToSet(Children[x]) \subseteq Path
  <2>1. Children[x] \in Seq(Path)
    BY JobAssumption
  <2> QED BY <2>1 DEF ToSet
<1>3. ASSUME NEW x \in Subtree[p]
      PROVE  ToSet(Children[x]) \subseteq Subtree[p]
  <2> SUFFICES ASSUME NEW y \in ToSet(Children[x]), NEW C \in SUBSET Path,
                      p \in C, \A z \in C : ToSet(Children[z]) \subseteq C
               PROVE  y \in Path /\ y \in C
    BY <1>1, <1>2
  <2> QED BY <1>1, <1>2
<1> QED BY <1>1, <1>3

\* The work below a path: the path, and the work below its children.
LEMMA SubtreeSplits ==
  ASSUME NEW p \in Path
  PROVE  /\ WorkIn(Children[p]) \subseteq Subtree[p]
         /\ Subtree[p] \subseteq {p} \cup WorkIn(Children[p])
<1>1. ToSet(Children[p]) \subseteq Path
  <2>1. Children[p] \in Seq(Path)
    BY JobAssumption
  <2> QED BY <2>1 DEF ToSet
<1>2. WorkIn(Children[p]) \subseteq Subtree[p]
  <2> SUFFICES ASSUME NEW c \in ToSet(Children[p])
               PROVE  Subtree[c] \subseteq Subtree[p]
    BY DEF WorkIn
  <2>1. c \in Path /\ c \in Subtree[p] /\ Subtree[p] \in SUBSET Path
        /\ \A x \in Subtree[p] : ToSet(Children[x]) \subseteq Subtree[p]
    BY <1>1, SubtreeIs
  <2> QED BY <2>1, SubtreeIs
<1>3. Subtree[p] \subseteq {p} \cup WorkIn(Children[p])
  <2> DEFINE C == {p} \cup WorkIn(Children[p])
  <2>1. C \in SUBSET Path
    BY <1>2, SubtreeIs
  <2>2. \A c \in ToSet(Children[p]) : c \in C
    BY <1>1, SubtreeIs DEF WorkIn
  <2>3. ASSUME NEW x \in C
        PROVE  ToSet(Children[x]) \subseteq C
    <3>1. CASE x = p
      BY <2>2, <3>1
    <3>2. CASE x # p
      <4>1. PICK c \in ToSet(Children[p]) : x \in Subtree[c]
        BY <2>3, <3>2 DEF WorkIn
      <4>2. ToSet(Children[x]) \subseteq Subtree[c]
        BY <1>1, <4>1, SubtreeIs
      <4> QED BY <4>2 DEF WorkIn
    <3> QED BY <3>1, <3>2
  <2> HIDE DEF C
  <2>4. p \in C
    BY DEF C
  <2>5. Subtree[p] \subseteq C
    BY <2>1, <2>3, <2>4, SubtreeIs
  <2> QED BY <2>5 DEF C
<1> QED BY <1>2, <1>3

\* The work on a stack is the subtrees of its elements.
LEMMA WorkOf ==
  ASSUME NEW s
  PROVE  \A x : x \in WorkIn(s) <=> \E i \in DOMAIN s : x \in Subtree[s[i]]
BY DEF WorkIn, ToSet

\* The positions of a stack made of two.
LEMMA ConcatIs ==
  ASSUME NEW f \in Seq(Path), NEW c \in Seq(Path)
  PROVE  /\ f \o c \in Seq(Path)
         /\ \A i \in DOMAIN f : i \in DOMAIN (f \o c) /\ (f \o c)[i] = f[i]
         /\ \A i \in DOMAIN c : i + Len(f) \in DOMAIN (f \o c) /\ (f \o c)[i + Len(f)] = c[i]
         /\ \A i \in DOMAIN (f \o c) :
              \/ i \in DOMAIN f /\ (f \o c)[i] = f[i]
              \/ i \in Nat /\ i - Len(f) \in DOMAIN c /\ (f \o c)[i] = c[i - Len(f)]
<1>1. DOMAIN f = 1 .. Len(f) /\ DOMAIN c = 1 .. Len(c) /\ Len(f) \in Nat /\ Len(c) \in Nat
  OBVIOUS
<1>2. f \o c \in Seq(Path) /\ DOMAIN (f \o c) = 1 .. Len(f) + Len(c)
  OBVIOUS
<1>3. \A i \in 1 .. Len(f) : (f \o c)[i] = f[i] /\ i \in 1 .. Len(f) + Len(c)
  BY <1>1
<1>4. \A i \in 1 .. Len(c) : (f \o c)[i + Len(f)] = c[i] /\ i + Len(f) \in 1 .. Len(f) + Len(c)
  BY <1>1
<1>5. \A i \in 1 .. Len(f) + Len(c) :
        i \notin 1 .. Len(f) => /\ i \in Nat /\ i - Len(f) \in 1 .. Len(c)
                               /\ (f \o c)[i] = c[i - Len(f)]
  BY <1>1
<1> QED BY <1>1, <1>2, <1>3, <1>4, <1>5

\* The work on two stacks that are put together
LEMMA ConcatWork ==
  ASSUME NEW f \in Seq(Path), NEW c \in Seq(Path)
  PROVE  /\ \A x : x \in WorkIn(f \o c) <=> x \in WorkIn(f) \/ x \in WorkIn(c)
         /\ Apart(f) /\ Apart(c) /\ WorkIn(f) \cap WorkIn(c) = {} => Apart(f \o c)
<1> DEFINE t == f \o c
           k == Len(f)
<1>1. /\ \A i \in DOMAIN f : i \in DOMAIN t /\ t[i] = f[i]
      /\ \A i \in DOMAIN c : i + k \in DOMAIN t /\ t[i + k] = c[i]
      /\ \A i \in DOMAIN t : \/ i \in DOMAIN f /\ t[i] = f[i]
                             \/ i \in Nat /\ i - k \in DOMAIN c /\ t[i] = c[i - k]
  BY ConcatIs
<1>2. k \in Nat
  OBVIOUS
<1> HIDE DEF t, k
<1>3. /\ \A x : x \in WorkIn(f) <=> \E i \in DOMAIN f : x \in Subtree[f[i]]
      /\ \A x : x \in WorkIn(c) <=> \E i \in DOMAIN c : x \in Subtree[c[i]]
      /\ \A x : x \in WorkIn(t) <=> \E i \in DOMAIN t : x \in Subtree[t[i]]
  BY WorkOf
<1>4. ASSUME NEW x
      PROVE  x \in WorkIn(t) <=> x \in WorkIn(f) \/ x \in WorkIn(c)
  <2>1. ASSUME x \in WorkIn(t)
        PROVE  x \in WorkIn(f) \/ x \in WorkIn(c)
    <3>1. PICK i \in DOMAIN t : x \in Subtree[t[i]]
      BY <1>3, <2>1
    <3> QED BY <1>1, <1>3, <3>1
  <2>2. ASSUME x \in WorkIn(f)
        PROVE  x \in WorkIn(t)
    BY <1>1, <1>3, <2>2
  <2>3. ASSUME x \in WorkIn(c)
        PROVE  x \in WorkIn(t)
    <3>1. PICK i \in DOMAIN c : x \in Subtree[c[i]]
      BY <1>3, <2>3
    <3>2. i + k \in DOMAIN t /\ x \in Subtree[t[i + k]]
      BY <1>1, <3>1
    <3> QED BY <1>3, <3>2
  <2> QED BY <2>1, <2>2, <2>3
<1>5. ASSUME Apart(f), Apart(c), WorkIn(f) \cap WorkIn(c) = {}
      PROVE  Apart(t)
  <2> SUFFICES ASSUME NEW i \in DOMAIN t, NEW j \in DOMAIN t, i # j
               PROVE  Subtree[t[i]] \cap Subtree[t[j]] = {}
    BY DEF Apart
  <2>1. CASE i \in DOMAIN f /\ t[i] = f[i] /\ j \in DOMAIN f /\ t[j] = f[j]
    BY <1>5, <2>1 DEF Apart
  <2>2. CASE i \in DOMAIN f /\ t[i] = f[i] /\ j - k \in DOMAIN c /\ t[j] = c[j - k]
    BY <1>3, <1>5, <2>2
  <2>3. CASE j \in DOMAIN f /\ t[j] = f[j] /\ i - k \in DOMAIN c /\ t[i] = c[i - k]
    BY <1>3, <1>5, <2>3
  <2>4. CASE /\ i \in Nat /\ i - k \in DOMAIN c /\ t[i] = c[i - k]
             /\ j \in Nat /\ j - k \in DOMAIN c /\ t[j] = c[j - k]
    <3>1. i - k # j - k
      BY <1>2, <2>4
    <3> QED BY <1>5, <2>4, <3>1 DEF Apart
  <2> QED BY <1>1, <2>1, <2>2, <2>3, <2>4
<1> QED BY <1>4, <1>5 DEF t

\* The last path of a stack and those below it
LEMMA FrontWork ==
  ASSUME NEW s \in Seq(Path), s # <<>>
  PROVE  /\ Last(s) \in Path /\ Front(s) \in Seq(Path)
         /\ \A x : x \in WorkIn(s) <=> x \in WorkIn(Front(s)) \/ x \in Subtree[Last(s)]
         /\ Apart(s) => Apart(Front(s)) /\ WorkIn(Front(s)) \cap Subtree[Last(s)] = {}
<1> DEFINE f == Front(s)
           p == Last(s)
           k == Len(s)
<1>1. k \in Nat /\ k > 0 /\ DOMAIN s = 1 .. k
  OBVIOUS
<1>2. p = s[k] /\ p \in Path
  BY <1>1 DEF Last
<1>3. f = [i \in 1 .. k - 1 |-> s[i]]
  BY <1>1 DEF Front
<1>4. f \in Seq(Path) /\ DOMAIN f = 1 .. k - 1 /\ \A i \in DOMAIN f : f[i] = s[i]
  BY <1>1, <1>3
<1> HIDE DEF f, p, k
<1>5. /\ \A i \in DOMAIN f : i \in DOMAIN s /\ i # k
      /\ \A i \in DOMAIN s : i \in DOMAIN f \/ i = k
      /\ k \in DOMAIN s
  BY <1>1, <1>4
<1>6. /\ \A x : x \in WorkIn(f) <=> \E i \in DOMAIN f : x \in Subtree[f[i]]
      /\ \A x : x \in WorkIn(s) <=> \E i \in DOMAIN s : x \in Subtree[s[i]]
  BY WorkOf
<1>7. \A x : x \in WorkIn(s) <=> x \in WorkIn(f) \/ x \in Subtree[p]
  BY <1>2, <1>4, <1>5, <1>6
<1>8. Apart(s) => Apart(f) /\ WorkIn(f) \cap Subtree[p] = {}
  BY <1>2, <1>4, <1>5, <1>6 DEF Apart
<1> QED BY <1>2, <1>4, <1>7, <1>8 DEF f, p

\* Replacing the top of a stack by its children loses only that path.
LEMMA ExploreWork ==
  ASSUME NEW s \in Seq(Path), s # <<>>, NEW t, t = Front(s) \o Children[Last(s)]
  PROVE  /\ Last(s) \in Path /\ Last(s) \in WorkIn(s)
         /\ \A x : x \in WorkIn(t) => x \in WorkIn(s)
         /\ \A x : x \in WorkIn(s) => x = Last(s) \/ x \in WorkIn(t)
         /\ TreeJob /\ Apart(s) => Apart(t) /\ Last(s) \notin WorkIn(t)
<1> DEFINE f == Front(s)
           p == Last(s)
           c == Children[p]
<1>1. /\ p \in Path /\ f \in Seq(Path)
      /\ \A x : x \in WorkIn(s) <=> x \in WorkIn(f) \/ x \in Subtree[p]
      /\ Apart(s) => Apart(f) /\ WorkIn(f) \cap Subtree[p] = {}
  BY FrontWork
<1>2. c \in Seq(Path)
  BY <1>1, JobAssumption
<1>3. /\ WorkIn(c) \subseteq Subtree[p] /\ Subtree[p] \subseteq {p} \cup WorkIn(c)
      /\ p \in Subtree[p]
  BY <1>1, SubtreeSplits, SubtreeIs
<1>4. TreeJob => Apart(c) /\ p \notin WorkIn(c)
  BY <1>1 DEF TreeJob
<1> HIDE DEF f, p, c
<1>5. t = f \o c
  BY DEF f, c, p
<1>6. /\ \A x : x \in WorkIn(t) <=> x \in WorkIn(f) \/ x \in WorkIn(c)
      /\ Apart(f) /\ Apart(c) /\ WorkIn(f) \cap WorkIn(c) = {} => Apart(t)
  BY ONLY <1>1, <1>2, <1>5, ConcatWork
<1>7. ASSUME TreeJob, Apart(s)
      PROVE  Apart(t) /\ p \notin WorkIn(t)
  <2>1. Apart(f) /\ WorkIn(f) \cap Subtree[p] = {} /\ Apart(c) /\ p \notin WorkIn(c)
    BY <1>1, <1>4, <1>7
  <2>2. WorkIn(f) \cap WorkIn(c) = {}
    BY <1>3, <2>1
  <2> QED BY <1>3, <1>6, <2>1, <2>2
<1> QED BY <1>1, <1>3, <1>6, <1>7 DEF p

\* The halves of a stack: the paths at its odd and at its even positions
AreHalves(s, a, b) ==
  /\ \A i \in DOMAIN a : i \in Nat /\ 2 * i - 1 \in DOMAIN s /\ a[i] = s[2 * i - 1]
  /\ \A i \in DOMAIN b : i \in Nat /\ 2 * i \in DOMAIN s /\ b[i] = s[2 * i]
  /\ \A j \in DOMAIN s : \/ \E i \in DOMAIN a : a[i] = s[j]
                         \/ \E i \in DOMAIN b : b[i] = s[j]

\* Every element of a stack is in exactly one of its halves.
LEMMA HalvesAt ==
  ASSUME NEW s \in Seq(Path), NEW a, a = Kept(s), NEW b, b = Given(s)
  PROVE  AreHalves(s, a, b)
<1> DEFINE n == Len(s)
           ka == (n + 1) \div 2
           kb == n \div 2
<1>1. n \in Nat /\ DOMAIN s = 1 .. n
  OBVIOUS
<1>2. /\ ka \in Nat /\ kb \in Nat /\ ka + kb = n /\ 2 * ka <= n + 1 /\ 2 * kb <= n
      /\ (n - 0 + 2 - 1) \div 2 = ka /\ (n - 1 + 2 - 1) \div 2 = kb
  <2>1. n - 0 + 2 - 1 = n + 1 /\ n - 1 + 2 - 1 = n
    BY <1>1
  <2>2. /\ ka \in Nat /\ kb \in Nat /\ ka + kb = n /\ 2 * ka <= n + 1 /\ 2 * kb <= n
    <3> HIDE DEF n
    <3> QED BY <1>1
  <2> HIDE DEF n
  <2>3. (n - 0 + 2 - 1) \div 2 = ka /\ (n - 1 + 2 - 1) \div 2 = kb
    BY <2>1
  <2> QED BY <2>2, <2>3
<1>3. a \in Seq(Path) /\ b \in Seq(Path)
  BY KeptType
<1>4. DOMAIN a = 1 .. ka /\ DOMAIN b = 1 .. kb
  BY <1>2 DEF Kept, Given, Deal
<1>5. /\ Len(a) = ka /\ Len(b) = kb
      /\ \A i \in 1 .. Len(a) : a[i] = s[2 * i - 1]
      /\ \A i \in 1 .. Len(b) : b[i] = s[2 * i]
  <2>1. Len(a) = ka /\ Len(b) = kb
    <3> HIDE DEF ka, kb
    <3> QED BY <1>2, <1>3, <1>4
  <2>2. /\ \A i \in 1 .. Len(Kept(s)) : Kept(s)[i] = s[2 * i - 1]
        /\ \A i \in 1 .. Len(Given(s)) : Given(s)[i] = s[2 * i]
    BY GiveInterleavedSplits
  <2> QED BY <2>1, <2>2
<1> HIDE DEF n, ka, kb
<1>6. \A i \in DOMAIN a : i \in Nat /\ 2 * i - 1 \in DOMAIN s /\ a[i] = s[2 * i - 1]
  BY <1>1, <1>2, <1>4, <1>5
<1>7. \A i \in DOMAIN b : i \in Nat /\ 2 * i \in DOMAIN s /\ b[i] = s[2 * i]
  BY <1>1, <1>2, <1>4, <1>5
<1>8. ASSUME NEW j \in DOMAIN s
      PROVE  \/ \E i \in DOMAIN a : a[i] = s[j]
             \/ \E i \in DOMAIN b : b[i] = s[j]
  <2>1. j \in 1 .. n
    BY <1>1
  <2>2. PICK i \in Nat : j = 2 * i - 1 \/ j = 2 * i
    <3>1. (j + 1) \div 2 \in Nat /\ (j = 2 * ((j + 1) \div 2) - 1 \/ j = 2 * ((j + 1) \div 2))
      BY <1>1, <2>1
    <3> QED BY <3>1
  <2>3. CASE j = 2 * i - 1
    <3>1. i \in 1 .. ka
      BY <1>1, <1>2, <2>1, <2>3 DEF ka
    <3> QED BY <1>4, <1>6, <2>3, <3>1
  <2>4. CASE j = 2 * i
    <3>1. i \in 1 .. kb
      BY <1>1, <1>2, <2>1, <2>4 DEF kb
    <3> QED BY <1>4, <1>7, <2>4, <3>1
  <2> QED BY <2>2, <2>3, <2>4
<1> QED BY <1>6, <1>7, <1>8 DEF AreHalves

\* The work on the two halves of a stack
LEMMA HalvesWork ==
  ASSUME NEW s \in Seq(Path)
  PROVE  /\ \A x : x \in WorkIn(s) <=> x \in WorkIn(Kept(s)) \/ x \in WorkIn(Given(s))
         /\ Apart(s) => /\ Apart(Kept(s)) /\ Apart(Given(s))
                        /\ WorkIn(Kept(s)) \cap WorkIn(Given(s)) = {}
<1> DEFINE a == Kept(s)
           b == Given(s)
<1>1. /\ \A i \in DOMAIN a : i \in Nat /\ 2 * i - 1 \in DOMAIN s /\ a[i] = s[2 * i - 1]
      /\ \A i \in DOMAIN b : i \in Nat /\ 2 * i \in DOMAIN s /\ b[i] = s[2 * i]
      /\ \A j \in DOMAIN s : \/ \E i \in DOMAIN a : a[i] = s[j]
                             \/ \E i \in DOMAIN b : b[i] = s[j]
  <2>1. a = Kept(s) /\ b = Given(s)
    OBVIOUS
  <2> HIDE DEF a, b
  <2>2. AreHalves(s, a, b)
    BY <2>1, HalvesAt
  <2> QED BY <2>2 DEF AreHalves
<1> HIDE DEF a, b
<1>2. /\ \A x : x \in WorkIn(a) <=> \E i \in DOMAIN a : x \in Subtree[a[i]]
      /\ \A x : x \in WorkIn(b) <=> \E i \in DOMAIN b : x \in Subtree[b[i]]
      /\ \A x : x \in WorkIn(s) <=> \E i \in DOMAIN s : x \in Subtree[s[i]]
  BY WorkOf
<1>3. ASSUME NEW x
      PROVE  x \in WorkIn(s) <=> x \in WorkIn(a) \/ x \in WorkIn(b)
  <2>1. ASSUME x \in WorkIn(s)
        PROVE  x \in WorkIn(a) \/ x \in WorkIn(b)
    <3>1. PICK j \in DOMAIN s : x \in Subtree[s[j]]
      BY <1>2, <2>1
    <3>2. CASE \E i \in DOMAIN a : a[i] = s[j]
      BY <1>2, <3>1, <3>2
    <3>3. CASE \E i \in DOMAIN b : b[i] = s[j]
      BY <1>2, <3>1, <3>3
    <3> QED BY <1>1, <3>2, <3>3
  <2>2. ASSUME x \in WorkIn(a)
        PROVE  x \in WorkIn(s)
    <3>1. PICK i \in DOMAIN a : x \in Subtree[a[i]]
      BY <1>2, <2>2
    <3> QED BY <1>1, <1>2, <3>1
  <2>3. ASSUME x \in WorkIn(b)
        PROVE  x \in WorkIn(s)
    <3>1. PICK i \in DOMAIN b : x \in Subtree[b[i]]
      BY <1>2, <2>3
    <3> QED BY <1>1, <1>2, <3>1
  <2> QED BY <2>1, <2>2, <2>3
<1>4. ASSUME Apart(s)
      PROVE  Apart(a) /\ Apart(b) /\ WorkIn(a) \cap WorkIn(b) = {}
  <2>1. ASSUME NEW i \in DOMAIN a, NEW j \in DOMAIN a, i # j
        PROVE  Subtree[a[i]] \cap Subtree[a[j]] = {}
    <3>1. i \in Nat /\ j \in Nat /\ 2 * i - 1 \in DOMAIN s /\ 2 * j - 1 \in DOMAIN s
          /\ a[i] = s[2 * i - 1] /\ a[j] = s[2 * j - 1]
      BY <1>1
    <3>2. 2 * i - 1 # 2 * j - 1
      BY <2>1, <3>1
    <3> QED BY <1>4, <3>1, <3>2 DEF Apart
  <2>2. ASSUME NEW i \in DOMAIN b, NEW j \in DOMAIN b, i # j
        PROVE  Subtree[b[i]] \cap Subtree[b[j]] = {}
    <3>1. i \in Nat /\ j \in Nat /\ 2 * i \in DOMAIN s /\ 2 * j \in DOMAIN s
          /\ b[i] = s[2 * i] /\ b[j] = s[2 * j]
      BY <1>1
    <3>2. 2 * i # 2 * j
      BY <2>2, <3>1
    <3> QED BY <1>4, <3>1, <3>2 DEF Apart
  <2>3. ASSUME NEW i \in DOMAIN a, NEW j \in DOMAIN b
        PROVE  Subtree[a[i]] \cap Subtree[b[j]] = {}
    <3>1. i \in Nat /\ j \in Nat /\ 2 * i - 1 \in DOMAIN s /\ 2 * j \in DOMAIN s
          /\ a[i] = s[2 * i - 1] /\ b[j] = s[2 * j]
      BY <1>1
    <3>2. 2 * i - 1 # 2 * j
      BY <3>1
    <3> QED BY <1>4, <3>1, <3>2 DEF Apart
  <2>4. WorkIn(a) \cap WorkIn(b) = {}
    <3> SUFFICES ASSUME NEW x \in WorkIn(a), x \in WorkIn(b)
                 PROVE  FALSE
      OBVIOUS
    <3>1. PICK i \in DOMAIN a : x \in Subtree[a[i]]
      BY <1>2
    <3>2. PICK j \in DOMAIN b : x \in Subtree[b[j]]
      BY <1>2
    <3> QED BY <2>3, <3>1, <3>2
  <2> QED BY <2>1, <2>2, <2>4 DEF Apart
<1> QED BY <1>3, <1>4 DEF a, b

\* The work on a stack is the work on the stacks it is divided into.
LEMMA DivisionWork ==
  ASSUME NEW s \in Seq(Path), NEW pars, IsDivision(s, pars)
  PROVE  /\ \A x : x \in WorkIn(s) <=> \E j \in DOMAIN pars : x \in WorkIn(pars[j])
         /\ Apart(s) => \A j \in DOMAIN pars :
              /\ Apart(pars[j])
              /\ \A k \in DOMAIN pars : j # k => WorkIn(pars[j]) \cap WorkIn(pars[k]) = {}
<1>1. PICK at \in [Places(pars) -> DOMAIN s] :
        /\ \A p \in Places(pars) : pars[p[1]][p[2]] = s[at[p]]
        /\ \A p, q \in Places(pars) : at[p] = at[q] => p = q
        /\ \A x \in DOMAIN s : \E p \in Places(pars) : at[p] = x
  BY DEF IsDivision
<1>2. ASSUME NEW j \in DOMAIN pars, NEW i \in DOMAIN pars[j]
      PROVE  /\ <<j, i>> \in Places(pars) /\ at[<<j, i>>] \in DOMAIN s
             /\ pars[j][i] = s[at[<<j, i>>]]
  <2>1. <<j, i>> \in Places(pars)
    BY DEF Places
  <2> QED BY <1>1, <2>1
<1>3. ASSUME NEW k \in DOMAIN s
      PROVE  \E j \in DOMAIN pars : \E i \in DOMAIN pars[j] : pars[j][i] = s[k]
  <2>1. PICK p \in Places(pars) : at[p] = k
    BY <1>1
  <2>2. PICK j \in DOMAIN pars : p \in {j} \X DOMAIN pars[j]
    BY DEF Places
  <2>3. p[1] = j /\ p[2] \in DOMAIN pars[j]
    BY <2>2
  <2> QED BY <1>1, <2>1, <2>3
<1>4. ASSUME NEW x
      PROVE  x \in WorkIn(s) <=> \E j \in DOMAIN pars : x \in WorkIn(pars[j])
  <2>1. ASSUME x \in WorkIn(s)
        PROVE  \E j \in DOMAIN pars : x \in WorkIn(pars[j])
    <3>1. PICK k \in DOMAIN s : x \in Subtree[s[k]]
      BY <2>1, WorkOf
    <3>2. PICK j \in DOMAIN pars : \E i \in DOMAIN pars[j] : pars[j][i] = s[k]
      BY <1>3
    <3> QED BY <3>1, <3>2, WorkOf
  <2>2. ASSUME NEW j \in DOMAIN pars, x \in WorkIn(pars[j])
        PROVE  x \in WorkIn(s)
    <3>1. PICK i \in DOMAIN pars[j] : x \in Subtree[pars[j][i]]
      BY <2>2, WorkOf
    <3>2. PICK k \in DOMAIN s : pars[j][i] = s[k]
      BY <1>2
    <3> QED BY <3>1, <3>2, WorkOf
  <2> QED BY <2>1, <2>2
<1>5. ASSUME Apart(s), NEW j \in DOMAIN pars, NEW i \in DOMAIN pars[j],
             NEW j2 \in DOMAIN pars, NEW i2 \in DOMAIN pars[j2], j # j2 \/ i # i2
      PROVE  Subtree[pars[j][i]] \cap Subtree[pars[j2][i2]] = {}
  <2>1. <<j, i>> # <<j2, i2>>
    BY <1>5
  <2>2. at[<<j, i>>] # at[<<j2, i2>>]
    BY <1>1, <1>2, <2>1
  <2> QED BY <1>2, <1>5, <2>2 DEF Apart
<1>6. ASSUME Apart(s), NEW j \in DOMAIN pars
      PROVE  /\ Apart(pars[j])
             /\ \A k \in DOMAIN pars : j # k => WorkIn(pars[j]) \cap WorkIn(pars[k]) = {}
  <2>1. Apart(pars[j])
    BY <1>5, <1>6 DEF Apart
  <2>2. ASSUME NEW k \in DOMAIN pars, j # k, NEW x, x \in WorkIn(pars[j]), x \in WorkIn(pars[k])
        PROVE  FALSE
    <3>1. PICK i \in DOMAIN pars[j] : x \in Subtree[pars[j][i]]
      BY <2>2, WorkOf
    <3>2. PICK i2 \in DOMAIN pars[k] : x \in Subtree[pars[k][i2]]
      BY <2>2, WorkOf
    <3> QED BY <1>5, <1>6, <2>2, <3>1, <3>2
  <2> QED BY <2>1, <2>2
<1> QED BY <1>4, <1>6

-----------------------------------------------------------------------------
(* What the messages of a channel say *)

\* What the messages of a channel say: the assignments in them, whether they
\* announce that a share is finished, the nodes they ask to divide with.
Assigned(s)  == {x.assign : x \in {y \in ToSet(s) : y.type = "STACK_ASSIGNMENT"}}
Announces(s) == \E x \in ToSet(s) : x.type = "ASSIGNMENT_FINISHED"
Divides(s)   == {x.with : x \in {y \in ToSet(s) : y.type = "DIVIDE_WITH"}}

\* The first message of a channel and the others.
LEMMA TailSet ==
  ASSUME NEW s \in Seq(Message), s # <<>>
  PROVE  /\ Tail(s) \in Seq(Message) /\ Head(s) \in Message
         /\ ToSet(s) = ToSet(Tail(s)) \cup {Head(s)}
         /\ \A i \in DOMAIN Tail(s) : i + 1 \in DOMAIN s /\ Tail(s)[i] = s[i + 1] /\ i + 1 # 1
         /\ 1 \in DOMAIN s /\ s[1] = Head(s) /\ DOMAIN Tail(s) \subseteq Nat
<1>1. Len(s) \in Nat /\ Len(s) > 0 /\ DOMAIN s = 1 .. Len(s)
  OBVIOUS
<1>2. Tail(s) \in Seq(Message) /\ Head(s) \in Message /\ Len(Tail(s)) = Len(s) - 1 /\ Head(s) = s[1]
  OBVIOUS
<1>3. DOMAIN Tail(s) = 1 .. Len(s) - 1
  BY <1>2
<1>4. \A i \in 1 .. Len(s) - 1 : Tail(s)[i] = s[i + 1]
  BY <1>1
<1>5. ASSUME NEW i \in 1 .. Len(s), i # 1
      PROVE  i - 1 \in 1 .. Len(s) - 1 /\ Tail(s)[i - 1] = s[i]
  BY <1>1, <1>4, <1>5
<1>6. ToSet(s) \subseteq ToSet(Tail(s)) \cup {Head(s)}
  BY <1>1, <1>2, <1>3, <1>5 DEF ToSet
<1>7. ToSet(Tail(s)) \cup {Head(s)} \subseteq ToSet(s)
  <2>1. \A i \in 1 .. Len(s) - 1 : i + 1 \in 1 .. Len(s)
    BY <1>1
  <2> QED BY <1>1, <1>2, <1>3, <1>4, <2>1 DEF ToSet
<1> QED BY <1>1, <1>2, <1>3, <1>4, <1>6, <1>7

\* Messages appended to a channel.
LEMMA ConcatSet ==
  ASSUME NEW s \in Seq(Message), NEW t \in Seq(Message)
  PROVE  /\ s \o t \in Seq(Message) /\ ToSet(s \o t) = ToSet(s) \cup ToSet(t)
         /\ \A i \in DOMAIN (s \o t) : \/ i \in DOMAIN s /\ (s \o t)[i] = s[i]
                                       \/ (s \o t)[i] \in ToSet(t)
         /\ s # <<>> => s \o t # <<>> /\ Head(s \o t) = Head(s)
<1>1. Len(s) \in Nat /\ Len(t) \in Nat /\ DOMAIN s = 1 .. Len(s) /\ DOMAIN t = 1 .. Len(t)
  OBVIOUS
<1>2. s \o t \in Seq(Message) /\ DOMAIN (s \o t) = 1 .. Len(s) + Len(t)
  OBVIOUS
<1>3. \A i \in 1 .. Len(s) : (s \o t)[i] = s[i] /\ i \in 1 .. Len(s) + Len(t)
  BY <1>1
<1>4. \A i \in 1 .. Len(t) : (s \o t)[i + Len(s)] = t[i] /\ i + Len(s) \in 1 .. Len(s) + Len(t)
  BY <1>1
<1>5. ASSUME NEW i \in 1 .. Len(s) + Len(t), i \notin 1 .. Len(s)
      PROVE  i - Len(s) \in 1 .. Len(t) /\ (s \o t)[i] = t[i - Len(s)]
  BY <1>1, <1>5
<1>6. \A i \in DOMAIN (s \o t) : \/ i \in DOMAIN s /\ (s \o t)[i] = s[i]
                                 \/ (s \o t)[i] \in ToSet(t)
  BY <1>1, <1>2, <1>3, <1>5 DEF ToSet
<1>7. ToSet(s \o t) \subseteq ToSet(s) \cup ToSet(t)
  BY <1>6 DEF ToSet
<1>8. ToSet(s) \subseteq ToSet(s \o t)
  BY <1>1, <1>2, <1>3 DEF ToSet
<1>9. ToSet(t) \subseteq ToSet(s \o t)
  BY <1>1, <1>2, <1>4 DEF ToSet
<1>10. s # <<>> => s \o t # <<>> /\ Head(s \o t) = Head(s)
  OBVIOUS
<1> QED BY <1>2, <1>6, <1>7, <1>8, <1>9, <1>10

\* What is on a channel is a message.
LEMMA ToSetType ==
  ASSUME NEW s \in Seq(Message)
  PROVE  ToSet(s) \subseteq Message
BY DEF ToSet

\* The messages of the shortest channels.
LEMMA ToSetSmall ==
  ASSUME NEW x
  PROVE  ToSet(<<x>>) = {x} /\ ToSet(<<>>) = {}
BY DEF ToSet

\* What the rest of a channel says, and what a longer one does.
LEMMA SaysTail ==
  ASSUME NEW s \in Seq(Message), s # <<>>
  PROVE  LET x == Head(s)
         IN  /\ Assigned(s) = Assigned(Tail(s))
                               \cup (IF x.type = "STACK_ASSIGNMENT" THEN {x.assign} ELSE {})
             /\ Announces(s) <=> Announces(Tail(s)) \/ x.type = "ASSIGNMENT_FINISHED"
             /\ Divides(s) = Divides(Tail(s))
                               \cup (IF x.type = "DIVIDE_WITH" THEN {x.with} ELSE {})
<1>1. ToSet(s) = ToSet(Tail(s)) \cup {Head(s)}
  BY TailSet
<1> QED BY <1>1 DEF Assigned, Announces, Divides

\* What is said by messages appended to others is said by either.
LEMMA SaysConcat ==
  ASSUME NEW s \in Seq(Message), NEW t \in Seq(Message)
  PROVE  /\ Assigned(s \o t) = Assigned(s) \cup Assigned(t)
         /\ Announces(s \o t) <=> Announces(s) \/ Announces(t)
         /\ Divides(s \o t) = Divides(s) \cup Divides(t)
<1>1. ToSet(s \o t) = ToSet(s) \cup ToSet(t)
  BY ConcatSet
<1> QED BY <1>1 DEF Assigned, Announces, Divides

\* No message says nothing.
LEMMA SaysNothing ==
  Assigned(<<>>) = {} /\ ~Announces(<<>>) /\ Divides(<<>>) = {}
BY ToSetSmall DEF Assigned, Announces, Divides

\* What one message says.
LEMMA SaysOne ==
  ASSUME NEW x
  PROVE  /\ Assigned(<<x>>) = IF x.type = "STACK_ASSIGNMENT" THEN {x.assign} ELSE {}
         /\ Announces(<<x>>) <=> x.type = "ASSIGNMENT_FINISHED"
         /\ Divides(<<x>>) = IF x.type = "DIVIDE_WITH" THEN {x.with} ELSE {}
<1>1. ToSet(<<x>>) = {x}
  BY ToSetSmall
<1> QED BY <1>1 DEF Assigned, Announces, Divides

-----------------------------------------------------------------------------
(* What a step makes of the work on the stacks and in the messages *)

\* Each node is connected to all others but those that are gone...
Linked ==
  \A n \in Node : n \notin clients[n] /\ \A m \in Node : m = n \/ m \in clients[n] \/ Gone(m)

\* ... nobody is asked to divide with itself, a process without a table is dead, and
\* a node that computes is not in InitLeaderStep(), which deals to other nodes.
OthersDivide(ch) == \A m, j \in Node : j \notin Divides(ch[m][j])

LocalsRight ==
  \A n \in Node :
    /\ comp[n].state = "Aborted" => Gone(n)
    /\ pc[n] = "init" => comp[n].state # "Computing" /\ n \notin dealTo[n]

NetInv == Linked /\ OthersDivide(chan) /\ LocalsRight

\* The work that is still there, and a step that loses none of it but what a node that
\* is handed an assignment leaves behind
WorkThere == Explored \cup OnStacks \cup InTransit
WorkStays == WorkThere \subseteq WorkThere' \cup Dropped

\* Node n, with local state l, drops no work but D when it turns to e.
InMail(n, out, x) ==
  \E j \in Node : j # n /\ \E a \in Assigned(out[j]) : x \in WorkIn(Job(a, j))
PassesBut(n, l, e, D) ==
  \A x : x \in l.bestMax \/ x \in WorkIn(l.states)
           => x \in e.local.bestMax \/ x \in WorkIn(e.local.states) \/ InMail(n, e.out, x) \/ x \in D
Passes(n, l, e) == PassesBut(n, l, e, {})

AsksOthers(out) == \A j \in Node : j \notin Divides(out[j])

\* The work in the messages from m to n
MessageWork(m, n) ==
  UNION {WorkIn(Job(msg.assign, n)) :
           msg \in {x \in Messages(m, n) : x.type = "STACK_ASSIGNMENT"}}

\* While nobody is gone, work is explored, on a stack or in a message.
LEMMA ThereIs ==
  ASSUME Living = Node, NEW x
  PROVE  x \in WorkThere <=>
           \/ \E n \in Node : x \in comp[n].bestMax
           \/ \E n \in Node : x \in WorkIn(comp[n].states)
           \/ \E m, n \in Node : \E a \in Assigned(chan[m][n]) : x \in WorkIn(Job(a, n))
<1>1. x \in Explored <=> \E n \in Node : x \in comp[n].bestMax
  BY DEF Explored
<1>2. x \in OnStacks <=> \E n \in Node : x \in WorkIn(comp[n].states)
  BY DEF OnStacks
<1>3. x \in InTransit <=>
        \E m, n \in Node : \E a \in Assigned(chan[m][n]) : x \in WorkIn(Job(a, n))
  <2>1. InTransit = UNION {MessageWork(m, n) : m \in Node, n \in Node}
    BY SMT DEF InTransit, MessageWork
  <2>2. \A m, n \in Node : x \in MessageWork(m, n) <=>
          \E a \in Assigned(chan[m][n]) : x \in WorkIn(Job(a, n))
    BY DEF MessageWork, Messages, Assigned
  <2> QED BY <2>1, <2>2
<1> QED BY <1>1, <1>2, <1>3 DEF WorkThere

\* What is sent is added to what has been sent; it arrives when its node runs.
LEMMA SentSays ==
  ASSUME NEW n \in Node, NEW out \in [Node -> Seq(Message)],
         NEW ch \in [Node -> [Node -> Seq(Message)]], NEW m \in Node, NEW j \in Node
  PROVE  LET s == Sent(n, out, ch)[m][j]
         IN  /\ Assigned(ch[m][j]) \subseteq Assigned(s)
             /\ Divides(s) \subseteq Divides(ch[m][j]) \cup Divides(out[j])
             /\ m = n /\ j \in clients[n] /\ ~Gone(j) => Assigned(out[j]) \subseteq Assigned(s)
             /\ m # n \/ j \notin clients[n] => s = ch[m][j]
<1>1. ch[m][j] \in Seq(Message) /\ out[j] \in Seq(Message)
  OBVIOUS
<1>2. /\ Assigned(ch[m][j] \o out[j]) = Assigned(ch[m][j]) \cup Assigned(out[j])
      /\ Divides(ch[m][j] \o out[j]) = Divides(ch[m][j]) \cup Divides(out[j])
  BY <1>1, SaysConcat
<1>3. Sent(n, out, ch)[m][j] = IF m = n /\ j \in clients[n] /\ ~Gone(j)
                               THEN ch[m][j] \o out[j] ELSE ch[m][j]
  BY DEF Sent
<1> QED BY <1>2, <1>3

\* A node that passes all its work but D on, after it has taken messages off its
\* channels, ch, whose shares are on its stack now.
LEMMA PassedOn ==
  ASSUME TypeOK, Linked, Living = Node, Living' = Node, NEW n \in Node, NEW e \in Effects,
         NEW ch \in [Node -> [Node -> Seq(Message)]], NEW D,
         \A m, j \in Node : \A a \in Assigned(chan[m][j]) :
           a \in Assigned(ch[m][j]) \/ (j = n /\ WorkIn(Job(a, j)) \subseteq WorkIn(e.local.states) \cup D),
         PassesBut(n, comp[n], e, D), comp' = [comp EXCEPT ![n] = e.local], chan' = Sent(n, e.out, ch)
  PROVE  WorkThere \subseteq WorkThere' \cup D
<1>1. e.local \in LocalState /\ e.out \in [Node -> Seq(Message)]
  BY DEF Effects
<1>2. comp'[n] = e.local /\ \A m \in Node : m # n => comp'[m] = comp[m]
  BY DEF TypeOK
<1>3. \A m, j \in Node : Assigned(ch[m][j]) \subseteq Assigned(chan'[m][j])
  BY <1>1, SentSays
<1>4. \A j \in Node : j # n => Assigned(e.out[j]) \subseteq Assigned(chan'[n][j])
  <2>1. \A j \in Node : j # n => j \in clients[n] /\ ~Gone(j)
    BY DEF Linked, Living
  <2> QED BY <1>1, <2>1, SentSays
<1> SUFFICES ASSUME NEW x \in WorkThere
             PROVE  x \in WorkThere' \/ x \in D
  OBVIOUS
<1>5. x \in WorkThere' <=>
        \/ \E k \in Node : x \in comp'[k].bestMax
        \/ \E k \in Node : x \in WorkIn(comp'[k].states)
        \/ \E m, k \in Node : \E a \in Assigned(chan'[m][k]) : x \in WorkIn(Job(a, k))
  <2>1. x \in Explored' <=> \E k \in Node : x \in comp'[k].bestMax
    BY DEF Explored
  <2>2. x \in OnStacks' <=> \E k \in Node : x \in WorkIn(comp'[k].states)
    BY DEF OnStacks
  <2>3. x \in InTransit' <=>
          \E m, k \in Node : \E a \in Assigned(chan'[m][k]) : x \in WorkIn(Job(a, k))
    <3> DEFINE W(m, k) == UNION {WorkIn(Job(msg.assign, k)) :
                               msg \in {y \in Messages(m, k)' : y.type = "STACK_ASSIGNMENT"}}
    <3>1. InTransit' = UNION {W(m, k) : m \in Node, k \in Node}
      BY SMT DEF InTransit
    <3>2. \A m, k \in Node : x \in W(m, k) <=>
            \E a \in Assigned(chan'[m][k]) : x \in WorkIn(Job(a, k))
      BY DEF Messages, Assigned
    <3> HIDE DEF W
    <3>3. x \in InTransit' <=> \E m, k \in Node : x \in W(m, k)
      BY <3>1
    <3> QED BY <3>2, <3>3
  <2> QED BY <2>1, <2>2, <2>3 DEF WorkThere
<1>6. CASE x \in comp[n].bestMax \/ x \in WorkIn(comp[n].states)
  <2>1. x \in e.local.bestMax \/ x \in WorkIn(e.local.states) \/ InMail(n, e.out, x) \/ x \in D
    BY <1>6 DEF PassesBut
  <2> QED BY <1>2, <1>4, <1>5, <2>1 DEF InMail
<1>7. CASE \E k \in Node : k # n /\ (x \in comp[k].bestMax \/ x \in WorkIn(comp[k].states))
  BY <1>2, <1>5, <1>7
<1>8. CASE \E m, k \in Node : \E a \in Assigned(chan[m][k]) : x \in WorkIn(Job(a, k))
  <2>1. PICK m \in Node, k \in Node : \E a \in Assigned(chan[m][k]) : x \in WorkIn(Job(a, k))
    BY <1>8
  <2>2. PICK a \in Assigned(chan[m][k]) : x \in WorkIn(Job(a, k))
    BY <2>1
  <2>3. CASE a \in Assigned(ch[m][k])
    BY <1>3, <1>5, <2>2, <2>3
  <2>4. CASE k = n /\ WorkIn(Job(a, k)) \subseteq WorkIn(e.local.states) \cup D
    BY <1>2, <1>5, <2>2, <2>4
  <2> QED BY <2>3, <2>4
<1> QED BY <1>6, <1>7, <1>8, ThereIs

\* A node that changes its local state, and by the messages it sends or takes away
\* asks nobody to divide with itself, leaves the network as it should be.
LEMMA NetKeeps ==
  ASSUME TypeOK, NetInv, NEW n \in Node, NEW l \in LocalState, NEW p \in PC,
         ~Gone(n) \/ p \in {"done", "dead"}, OthersDivide(chan'),
         l.state = "Aborted" => p \in {"done", "dead"},
         p = "init" => l.state # "Computing" /\ n \notin dealTo'[n],
         comp' = [comp EXCEPT ![n] = l], pc' = [pc EXCEPT ![n] = p],
         \A m \in Node : m # n => dealTo'[m] = dealTo[m],
         clients' = clients
  PROVE  NetInv'
<1>1. /\ comp'[n] = l /\ pc'[n] = p
      /\ \A m \in Node : m # n => comp'[m] = comp[m] /\ pc'[m] = pc[m]
  BY DEF TypeOK
<1>2. \A m \in Node : Gone(m) => Gone(m)'
  BY <1>1 DEF Gone
<1>3. Linked'
  BY <1>2 DEF NetInv, Linked
<1>4. LocalsRight'
  <2> SUFFICES ASSUME NEW m \in Node
               PROVE  /\ comp'[m].state = "Aborted" => Gone(m)'
                      /\ pc'[m] = "init" => comp'[m].state # "Computing" /\ m \notin dealTo'[m]
    BY DEF LocalsRight
  <2>1. CASE m = n
    BY <1>1, <2>1 DEF Gone
  <2>2. CASE m # n
    BY <1>1, <1>2, <2>2 DEF NetInv, LocalsRight
  <2> QED BY <2>1, <2>2
<1> QED BY <1>3, <1>4 DEF NetInv, OthersDivide

\* So does one that sends proper messages.
LEMMA NetStays ==
  ASSUME TypeOK, NetInv, NEW n \in Node, ~Gone(n), NEW l \in LocalState, NEW p \in PC,
         NEW out \in [Node -> Seq(Message)], AsksOthers(out),
         NEW ch \in [Node -> [Node -> Seq(Message)]], OthersDivide(ch),
         l.state # "Aborted", p # "init",
         comp' = [comp EXCEPT ![n] = l], pc' = [pc EXCEPT ![n] = p],
         dealTo' = dealTo, clients' = clients, chan' = Sent(n, out, ch)
  PROVE  NetInv'
<1>1. ASSUME NEW m \in Node, NEW j \in Node
      PROVE  j \notin Divides(chan'[m][j])
  <2>1. Divides(Sent(n, out, ch)[m][j]) \subseteq Divides(ch[m][j]) \cup Divides(out[j])
    BY SentSays
  <2> QED BY <2>1 DEF OthersDivide, AsksOthers
<1>2. OthersDivide(chan')
  BY <1>1 DEF OthersDivide
<1> QED BY <1>2, NetKeeps

\* Nobody reads what was sent to a process that ends.
LEMMA NetEnds ==
  ASSUME TypeOK, NetInv, NEW n \in Node, NEW l \in LocalState, NEW p \in {"done", "dead"},
         comp' = [comp EXCEPT ![n] = l], pc' = [pc EXCEPT ![n] = p],
         dealTo' = dealTo, clients' = clients, chan' = Unread(n)
  PROVE  NetInv' /\ Living' # Node
<1>1. ASSUME NEW m \in Node, NEW j \in Node
      PROVE  j \notin Divides(chan'[m][j])
  <2>1. chan'[m][j] = IF j = n THEN <<>> ELSE chan[m][j]
    BY DEF Unread, TypeOK
  <2> QED BY <2>1, SaysNothing DEF NetInv, OthersDivide
<1>2. OthersDivide(chan') /\ p \in PC /\ p # "init"
  BY <1>1 DEF OthersDivide, PC
<1>3. n \notin Living'
  BY DEF Living, Gone, TypeOK
<1> QED BY <1>2, <1>3, NetKeeps

\* A node that sends and reads nothing and keeps its work
LEMMA WorkKept ==
  ASSUME Living = Node, Living' = Node, NEW n \in Node, chan' = chan,
         \A m \in Node : m # n => comp'[m] = comp[m],
         \A x : x \in comp[n].bestMax \/ x \in WorkIn(comp[n].states)
                  => x \in comp'[n].bestMax \/ x \in WorkIn(comp'[n].states)
  PROVE  WorkStays
<1>1. InTransit' = InTransit
  BY DEF InTransit, Messages
<1>2. ASSUME NEW x, x \in Explored \cup OnStacks
      PROVE  x \in Explored' \cup OnStacks'
  <2>1. PICK m \in Node : x \in comp[m].bestMax \/ x \in WorkIn(comp[m].states)
    BY <1>2 DEF Explored, OnStacks
  <2>2. x \in comp'[m].bestMax \/ x \in WorkIn(comp'[m].states)
    BY <2>1
  <2> QED BY <2>2 DEF Explored, OnStacks
<1> QED BY <1>1, <1>2 DEF WorkStays, WorkThere

\* Nothing but connections and leadership changes.
LEMMA SameWork ==
  ASSUME UNCHANGED <<comp, pc, chan>>
  PROVE  WorkThere' = WorkThere /\ WorkStays
<1>1. Explored' = Explored /\ OnStacks' = OnStacks /\ InTransit' = InTransit
  BY DEF Explored, OnStacks, InTransit, Messages, Living, Gone
<1> QED BY <1>1 DEF WorkStays, WorkThere

\* A local state that keeps the stack and what has been explored passes the work on.
LEMMA SamePasses ==
  ASSUME NEW n \in Node, NEW l, NEW e, e.local.bestMax = l.bestMax, e.local.states = l.states
  PROVE  Passes(n, l, e)
BY DEF Passes, PassesBut

\* compute() and what follows it drop no work.
LEMMA ComputeStepKeeps ==
  ASSUME IInv, NetInv, NEW n \in Node, ~Gone(n), NEW e \in Effects, Owns(n, e.local),
         AsksOthers(e.out), e.local.state # "Aborted", NEW left \in Nat, ComputeStep(n, e, left)
  PROVE  NetInv' /\ (Living = Node /\ Living' = Node /\ Passes(n, comp[n], e) => WorkStays)
<1>1. TypeOK /\ e.local \in LocalState /\ e.out \in [Node -> Seq(Message)]
  BY DEF IInv, Effects
<1>2. /\ chan \in [Node -> [Node -> Seq(Message)]] /\ OthersDivide(chan) /\ Linked
      /\ {"loop", "compute"} \subseteq PC
  BY <1>1 DEF TypeOK, NetInv, PC
<1>3. dealTo' = dealTo /\ clients' = clients
  BY DEF ComputeStep
<1>4. \A m, j \in Node : \A a \in Assigned(chan[m][j]) : a \in Assigned(chan[m][j])
  OBVIOUS
<1>5. CASE e.local.states = <<>>
  <2> DEFINE found == AnnounceIfComputing(n, e)
             fin == OnAssignmentFinished(e.local, n, e.local.bestMax)
  <2>1. /\ comp' = [comp EXCEPT ![n] = found.local] /\ chan' = Sent(n, found.out, chan)
        /\ pc' = [pc EXCEPT ![n] = "loop"]
    BY <1>5 DEF ComputeStep
  <2>2. /\ found \in Effects
        /\ found.local.bestMax = e.local.bestMax /\ found.local.states = e.local.states
        /\ found.local.state # "Aborted"
        /\ \A j \in Node : /\ Assigned(found.out[j]) = Assigned(e.out[j])
                           /\ Divides(found.out[j]) = Divides(e.out[j])
    <3>1. found \in Effects
      BY <1>5, AnnounceGood
    <3>2. CASE e.local.state # "Computing"
      BY <3>1, <3>2 DEF AnnounceIfComputing
    <3>3. CASE e.local.state = "Computing"
      <4>1. e.local.bestMax \in SUBSET Path
        BY <1>1 DEF LocalState
      <4>2. fin \in LocalState /\ fin.states = e.local.states
        BY <1>1, <4>1, OnAssignmentFinishedGood
      <4>3. fin.bestMax = e.local.bestMax
        BY <1>1 DEF OnAssignmentFinished, LocalState
      <4>4. found = Effect([fin EXCEPT !.state = "Waiting"],
                           [j \in Node |-> Append(e.out[j], FinishedMsg(e.local.bestMax))])
        BY <3>3 DEF AnnounceIfComputing
      <4> HIDE DEF fin, found
      <4>5. /\ found.local = [fin EXCEPT !.state = "Waiting"]
            /\ found.out = [j \in Node |-> Append(e.out[j], FinishedMsg(e.local.bestMax))]
        BY <4>4 DEF Effect
      <4>6. /\ found.local.bestMax = fin.bestMax /\ found.local.states = fin.states
            /\ found.local.state = "Waiting"
        BY <4>2, <4>5 DEF LocalState
      <4>7. ASSUME NEW j \in Node
            PROVE  /\ Assigned(found.out[j]) = Assigned(e.out[j])
                   /\ Divides(found.out[j]) = Divides(e.out[j])
        <5> DEFINE x == FinishedMsg(e.local.bestMax)
        <5>1. x \in Message /\ x.type = "ASSIGNMENT_FINISHED" /\ e.out[j] \in Seq(Message)
          BY <1>1, <4>1, MessageTypes DEF FinishedMsg
        <5>2. found.out[j] = Append(e.out[j], x)
          BY <4>5
        <5> HIDE DEF x
        <5>3. found.out[j] = e.out[j] \o <<x>> /\ <<x>> \in Seq(Message)
          BY <5>1, <5>2, AppendIsConcat
        <5>4. Assigned(<<x>>) = {} /\ Divides(<<x>>) = {}
          BY <5>1, SaysOne
        <5> DEFINE s == e.out[j]
                   t == found.out[j]
        <5>5. s \in Seq(Message) /\ t = s \o <<x>>
          BY <5>1, <5>3
        <5> HIDE DEF s, t
        <5>6. Assigned(s \o <<x>>) = Assigned(s) \cup Assigned(<<x>>)
              /\ Divides(s \o <<x>>) = Divides(s) \cup Divides(<<x>>)
          BY <5>3, <5>5, SaysConcat
        <5> QED BY <5>4, <5>5, <5>6 DEF s, t
      <4> QED BY <3>1, <4>2, <4>3, <4>6, <4>7
    <3> QED BY <3>2, <3>3
  <2> HIDE DEF found, fin
  <2>3. /\ found.local \in LocalState /\ found.out \in [Node -> Seq(Message)]
        /\ AsksOthers(found.out)
    BY <2>2 DEF Effects, AsksOthers
  <2>4. NetInv'
    BY <1>1, <1>2, <1>3, <2>1, <2>2, <2>3, NetStays
  <2>5. ASSUME Living = Node, Living' = Node, Passes(n, comp[n], e)
        PROVE  WorkStays
    <3>1. Passes(n, comp[n], found)
      BY <2>2, <2>5 DEF Passes, PassesBut, InMail
    <3> DEFINE D == {}
    <3>2. PassesBut(n, comp[n], found, D)
      BY <3>1 DEF Passes
    <3>3. \A m, j \in Node : \A a \in Assigned(chan[m][j]) :
            \/ a \in Assigned(chan[m][j])
            \/ j = n /\ WorkIn(Job(a, j)) \subseteq WorkIn(found.local.states) \cup D
      BY <1>4
    <3> HIDE DEF D
    <3>4. WorkThere \subseteq WorkThere' \cup D
      BY <1>1, <1>2, <2>1, <2>2, <2>5, <3>2, <3>3, PassedOn
    <3> QED BY <3>4 DEF WorkStays, D
  <2> QED BY <2>4, <2>5
<1>6. CASE e.local.states # <<>>
  <2> DEFINE p == IF left = 1 THEN "loop" ELSE "compute"
             l == Explore(e.local)
             f == Effect(l, e.out)
  <2>1. /\ comp' = [comp EXCEPT ![n] = l] /\ chan' = Sent(n, e.out, chan)
        /\ pc' = [pc EXCEPT ![n] = p]
    BY <1>6 DEF ComputeStep
  <2>2. /\ l \in LocalState /\ l.state = e.local.state
        /\ l.states = Front(e.local.states) \o Children[Last(e.local.states)]
        /\ l.bestMax = e.local.bestMax \cup {Last(e.local.states)}
    BY <1>1, <1>6, ExploreIs
  <2>3. p \in PC /\ p \notin {"init", "done", "dead"}
    BY <1>2
  <2>4. f.local = l /\ f.out = e.out /\ f \in Effects
    BY <1>1, <2>2 DEF Effect, Effects
  <2> HIDE DEF p, l, f
  <2>5. NetInv'
    BY <1>1, <1>2, <1>3, <2>1, <2>2, <2>3, NetStays
  <2>6. ASSUME Living = Node, Living' = Node, Passes(n, comp[n], e)
        PROVE  WorkStays
    <3>1. \A x : x \in WorkIn(e.local.states) => x = Last(e.local.states) \/ x \in WorkIn(l.states)
      <4>1. e.local.states \in Seq(Path)
        BY <1>1 DEF LocalState
      <4> QED BY <1>6, <2>2, <4>1, ExploreWork
    <3>2. Passes(n, comp[n], f)
      BY <2>2, <2>4, <2>6, <3>1 DEF Passes, PassesBut
    <3> DEFINE D == {}
    <3>3. PassesBut(n, comp[n], f, D)
      BY <3>2 DEF Passes
    <3>4. \A m, j \in Node : \A a \in Assigned(chan[m][j]) :
            \/ a \in Assigned(chan[m][j])
            \/ j = n /\ WorkIn(Job(a, j)) \subseteq WorkIn(f.local.states) \cup D
      BY <1>4
    <3> HIDE DEF D
    <3>5. WorkThere \subseteq WorkThere' \cup D
      BY <1>1, <1>2, <2>1, <2>4, <2>6, <3>3, <3>4, PassedOn
    <3> QED BY <3>5 DEF WorkStays, D
  <2> QED BY <2>5, <2>6
<1> QED BY <1>5, <1>6

\* OnDivideWith(): one half stays and the other one is sent to the other node.
LEMMA DividePasses ==
  ASSUME NEW n \in Node, NEW l \in LocalState, Owns(n, l), NEW c \in Node, c # n,
         l.state # "Aborted", NEW e, e = OnDivideWith(n, l, c)
  PROVE  /\ Passes(n, l, e) /\ e.local.bestMax = l.bestMax /\ e.local.state # "Aborted"
         /\ \A j \in Node : Divides(e.out[j]) = {}
<1>1. CASE l.states = <<>>
  <2>1. e = Effect(l, Nothing)
    BY <1>1 DEF OnDivideWith
  <2>2. e.local = l /\ \A j \in Node : e.out[j] = <<>>
    BY <2>1 DEF Effect, Nothing
  <2>3. Passes(n, l, e)
    BY <2>2, SamePasses
  <2> QED BY <2>2, <2>3, SaysNothing
<1>2. CASE l.states # <<>>
  <2> DEFINE a == Kept(l.states)
             b == Given(l.states)
             rest == [l EXCEPT !.states = Kept(@)]
             table == Halves(n, l, c)
             local == OnAssignment(n, rest, table)
  <2>1. l.states \in Seq(Path) /\ a \in Seq(Path) /\ b \in Seq(Path)
    BY KeptType DEF LocalState
  <2>2. /\ rest \in LocalState /\ Owns(n, rest) /\ rest.state = l.state
        /\ rest.states = a /\ rest.bestMax = l.bestMax
    BY <2>1 DEF LocalState, Owns
  <2>3. table \in Assignment /\ table[n] = a /\ table[c] = b
    BY <2>1 DEF Halves, NoAssignment, Assignment
  <2>4. Job(table, n) = a /\ Job(table, c) = b
    BY <2>1, <2>3, JobIs, StackIsEntry
  <2>5. e = Effect(local, [j \in Node |-> <<StackAssignmentMsg(table)>>])
    BY <1>2 DEF OnDivideWith
  <2>6. e.local = local /\ \A j \in Node : e.out[j] = <<StackAssignmentMsg(table)>>
    BY <2>5 DEF Effect
  <2>7. \A x : x \in WorkIn(l.states) <=> x \in WorkIn(a) \/ x \in WorkIn(b)
    BY <2>1, HalvesWork
  <2> HIDE DEF local, table, rest, a, b
  <2>8. local.bestMax = l.bestMax /\ local.states = a /\ local.state # "Aborted"
    BY <2>2, <2>3, <2>4, OnAssignmentIs DEF local
  <2>9. \A j \in Node : Assigned(e.out[j]) = {table} /\ Divides(e.out[j]) = {}
    BY <2>6, SaysOne DEF StackAssignmentMsg
  <2>10. Passes(n, l, e)
    <3> SUFFICES ASSUME NEW x, x \in l.bestMax \/ x \in WorkIn(l.states)
                 PROVE  x \in e.local.bestMax \/ x \in WorkIn(e.local.states) \/ InMail(n, e.out, x)
      BY DEF Passes, PassesBut
    <3>1. x \in WorkIn(b) => InMail(n, e.out, x)
      BY <2>4, <2>9 DEF InMail
    <3> QED BY <2>6, <2>7, <2>8, <3>1
  <2> QED BY <2>6, <2>8, <2>9, <2>10
<1> QED BY <1>1, <1>2

\* A working client divides with another node.
LEMMA DivideWithOther ==
  ASSUME TypeOK, NEW n \in Node, NEW l, NEW w \in Dividers(n, l)
  PROVE  DivideWith(n, l, w) \in Node /\ DivideWith(n, l, w) # w
<1> DEFINE working == WorkingClients(n, l)
           left == LeftOver(n, l)
<1>1. working \in SUBSET Node /\ left \in SUBSET Node /\ working \cap left = {}
  BY CheckSets DEF WorkingClients, LeftOver
<1>2. w \in working /\ Rank(working, w) < Cardinality(left)
  BY DEF Dividers, First
<1> HIDE DEF working, left
<1>3. SameRank(working, w, left) \in left
  BY <1>1, <1>2, SameRankIn
<1>4. SameRank(working, w, left) # w
  BY <1>1, <1>2, <1>3
<1> QED BY <1>1, <1>3, <1>4 DEF DivideWith, working, left

\* What messages appended to others add.
LEMMA SaysMore ==
  ASSUME NEW s \in Seq(Message), NEW t \in Seq(Message)
  PROVE  /\ s \o t \in Seq(Message)
         /\ Assigned(s) \subseteq Assigned(s \o t) /\ Assigned(t) \subseteq Assigned(s \o t)
         /\ Divides(s \o t) = Divides(s) \cup Divides(t)
<1>1. s \o t \in Seq(Message)
  OBVIOUS
<1> QED BY <1>1, SaysConcat

\* A message that is no request to divide asks for nothing.
LEMMA MessagesIfSay ==
  ASSUME NEW P \in BOOLEAN, NEW x \in Message
  PROVE  /\ MessagesIf(P, x) \in Seq(Message)
         /\ Divides(MessagesIf(P, x)) \subseteq {c \in Node : P /\ x.type = "DIVIDE_WITH" /\ c = x.with}
<1>1. <<x>> \in Seq(Message) /\ <<>> \in Seq(Message)
  OBVIOUS
<1>2. Divides(<<x>>) = IF x.type = "DIVIDE_WITH" THEN {x.with} ELSE {}
  BY SaysOne
<1>3. x.type = "DIVIDE_WITH" => x.with \in Node
  BY MessageContents
<1> QED BY <1>1, <1>2, <1>3, SaysNothing DEF MessagesIf

\* CheckAssignments(): only other nodes are to be divided with, and what the leader
\* divides itself is sent.
LEMMA CheckMessagesSay ==
  ASSUME TypeOK, NEW n \in Node, NEW l \in LocalState, Owns(n, l), NEW sync \in BOOLEAN,
         NEW j \in Node, Divides(OwnDivision(n, l).out[j]) = {}
  PROVE  LET s == CheckMessages(n, l, sync, j)
         IN  j \notin Divides(s) /\ Assigned(OwnDivision(n, l).out[j]) \subseteq Assigned(s)
<1> DEFINE table == StackAssignmentMsg(Cleared(n, l).curr)
           divide == DivideWithMsg(DivideWith(n, l, j))
           p1 == MessagesIf(sync, table)
           p2 == MessagesIf(j \in NewClients(n, l), table)
           p3 == MessagesIf(NoJobsLeft(n, l), TerminateMsg)
           p4 == MessagesIf(HeirsOf(n, l) # {}, RegivenMsg(n, l))
           p5 == MessagesIf(j \in Dividers(n, l) /\ j < n, divide)
           p6 == OwnDivision(n, l).out[j]
           p7 == MessagesIf(j \in Dividers(n, l) /\ j > n, divide)
<1>1. CheckMessages(n, l, sync, j) = p1 \o p2 \o p3 \o p4 \o p5 \o p6 \o p7
  BY DEF CheckMessages
<1>2. table \in Message /\ table.type = "STACK_ASSIGNMENT"
  BY OwnDivisionGood, MessageTypes DEF LocalState, StackAssignmentMsg
<1>3. RegivenMsg(n, l) \in Message /\ RegivenMsg(n, l).type = "STACK_ASSIGNMENT"
  <2>1. Regiven(n, l) \in Assignment /\ WithEntry(Regiven(n, l), n) \in Assignment
    BY RegivenType, AssignmentTypes
  <2> QED BY <2>1, MessageTypes DEF RegivenMsg, StackAssignmentMsg
<1>4. TerminateMsg \in Message /\ TerminateMsg.type = "TERMINATE"
  BY MessageTypes DEF TerminateMsg
<1>5. p1 \in Seq(Message) /\ Divides(p1) = {}
  BY <1>2, MessagesIfSay
<1>6. p2 \in Seq(Message) /\ Divides(p2) = {}
  <2>1. (j \in NewClients(n, l)) \in BOOLEAN
    OBVIOUS
  <2> QED BY <1>2, <2>1, MessagesIfSay
<1>7. p3 \in Seq(Message) /\ Divides(p3) = {}
  <2>1. NoJobsLeft(n, l) \in BOOLEAN
    BY DEF NoJobsLeft
  <2> QED BY <1>4, <2>1, MessagesIfSay
<1>8. p4 \in Seq(Message) /\ Divides(p4) = {}
  <2>1. (HeirsOf(n, l) # {}) \in BOOLEAN
    OBVIOUS
  <2> QED BY <1>3, <2>1, MessagesIfSay
<1>9. /\ p5 \in Seq(Message) /\ j \notin Divides(p5)
      /\ p7 \in Seq(Message) /\ j \notin Divides(p7)
  <2>1. CASE j \in Dividers(n, l)
    <3>1. divide \in Message /\ divide.with # j
      BY <2>1, DivideWithOther, MessageTypes DEF DivideWithMsg
    <3>2. (j \in Dividers(n, l) /\ j < n) \in BOOLEAN /\ (j \in Dividers(n, l) /\ j > n) \in BOOLEAN
      OBVIOUS
    <3> HIDE DEF divide
    <3> QED BY <3>1, <3>2, MessagesIfSay
  <2>2. CASE j \notin Dividers(n, l)
    <3>1. p5 = <<>> /\ p7 = <<>> /\ <<>> \in Seq(Message)
      BY <2>2 DEF MessagesIf
    <3> QED BY <3>1, SaysNothing
  <2> QED BY <2>1, <2>2
<1>10. p6 \in Seq(Message) /\ Divides(p6) = {}
  BY OwnDivisionGood DEF Effects
<1> DEFINE q2 == p1 \o p2
           q3 == q2 \o p3
           q4 == q3 \o p4
           q5 == q4 \o p5
           q6 == q5 \o p6
           q7 == q6 \o p7
<1>11. CheckMessages(n, l, sync, j) = q7
  BY <1>1
<1> HIDE DEF p1, p2, p3, p4, p5, p6, p7
<1>12. q2 \in Seq(Message) /\ Divides(q2) = {}
  BY <1>5, <1>6, SaysMore
<1> HIDE DEF q2
<1>13. q3 \in Seq(Message) /\ Divides(q3) = {}
  BY <1>7, <1>12, SaysMore
<1> HIDE DEF q3
<1>14. q4 \in Seq(Message) /\ Divides(q4) = {}
  BY <1>8, <1>13, SaysMore
<1> HIDE DEF q4
<1>15. q5 \in Seq(Message) /\ j \notin Divides(q5)
  BY <1>9, <1>14, SaysMore
<1> HIDE DEF q5
<1>16. q6 \in Seq(Message) /\ j \notin Divides(q6) /\ Assigned(p6) \subseteq Assigned(q6)
  BY <1>10, <1>15, SaysMore
<1> HIDE DEF q6
<1>17. j \notin Divides(q7) /\ Assigned(p6) \subseteq Assigned(q7)
  BY <1>9, <1>16, SaysMore
<1> QED BY <1>11, <1>17 DEF p6

\* While everybody runs there is no job to give again.
LEMMA CheckPasses ==
  ASSUME TypeOK, NEW n \in Node, NEW l \in LocalState, Owns(n, l), l.state # "Aborted",
         l.curr # NoAssignment, NEW sync \in BOOLEAN
  PROVE  LET e == CheckAssignments(n, l, sync)
         IN  /\ AsksOthers(e.out)
             /\ Linked /\ Living = Node => Passes(n, l, e)
<1> DEFINE own == OwnDivision(n, l)
           e == CheckAssignments(n, l, sync)
           after == AfterRegiving(n, l)
<1>1. e.local = own.local /\ e.out = [j \in Node |-> CheckMessages(n, l, sync, j)]
  BY DEF CheckAssignments, Effect
<1>2. after \in LocalState /\ Owns(n, after) /\ after.state # "Aborted"
  <2>1. /\ Cleared(n, l) \in LocalState /\ Owns(n, Cleared(n, l))
        /\ Cleared(n, l).state = l.state
    BY ClearDisconnectedGood DEF Cleared, ClearDisconnected, LocalState
  <2>2. /\ AfterEnd(n, l) \in LocalState /\ Owns(n, AfterEnd(n, l))
        /\ AfterEnd(n, l).state # "Aborted"
    <3>1. OnTerminate(Cleared(n, l)).state = "Finished"
      BY <2>1 DEF OnTerminate, LocalState
    <3> QED BY <2>1, <3>1, OnTerminateGood DEF AfterEnd, Good
  <2>3. ASSUME HeirsOf(n, l) # {}
        PROVE  /\ OnAssignment(n, AfterEnd(n, l), Regiven(n, l)) \in LocalState
               /\ Owns(n, OnAssignment(n, AfterEnd(n, l), Regiven(n, l)))
               /\ OnAssignment(n, AfterEnd(n, l), Regiven(n, l)).state # "Aborted"
    <3>1. Regiven(n, l) \in Assignment
      BY RegivenType
    <3> DEFINE m == AfterEnd(n, l)
               a == Regiven(n, l)
    <3> HIDE DEF m, a
    <3>2. m \in LocalState /\ Owns(n, m) /\ m.state # "Aborted" /\ a \in Assignment
      BY <2>2, <3>1 DEF m, a
    <3>3. OnAssignment(n, m, a) \in LocalState /\ Owns(n, OnAssignment(n, m, a))
          /\ OnAssignment(n, m, a).state # "Aborted"
      BY <3>2, OnAssignmentIs
    <3> QED BY <3>3 DEF m, a
  <2> QED BY <2>2, <2>3 DEF AfterRegiving
<1>3. /\ own.local.bestMax = after.bestMax /\ Passes(n, after, own)
      /\ \A j \in Node : Divides(own.out[j]) = {}
  <2>1. CASE n \in Dividers(n, l)
    <3> DEFINE c == DivideWith(n, l, n)
    <3>1. c \in Node /\ c # n
      BY <2>1, DivideWithOther
    <3>2. own = OnDivideWith(n, after, c)
      BY <2>1 DEF OwnDivision
    <3> HIDE DEF own, after, c
    <3> QED BY <1>2, <3>1, <3>2, DividePasses
  <2>2. CASE n \notin Dividers(n, l)
    <3>1. own.local = after /\ own.out = Nothing
      BY <2>2 DEF OwnDivision, Effect
    <3> HIDE DEF own, after
    <3> QED BY <3>1, SamePasses, SaysNothing DEF Nothing
  <2> QED BY <2>1, <2>2
<1>4. ASSUME NEW j \in Node
      PROVE  j \notin Divides(e.out[j]) /\ Assigned(own.out[j]) \subseteq Assigned(e.out[j])
  BY <1>1, <1>3, CheckMessagesSay
<1>5. ASSUME Linked, Living = Node
      PROVE  after.bestMax = l.bestMax /\ after.states = l.states
  <2>1. KnownClients(n) = Node
    BY <1>5 DEF KnownClients, Linked, Living, TypeOK
  <2>2. DisconnectedClients(n, l) = {}
    BY <2>1 DEF DisconnectedClients, Entries
  <2>3. NeedJobClients(n, l) \in SUBSET Node
    BY CheckSets
  <2>4. HeirsOf(n, l) = {}
    <3>1. Cardinality({}) = 0
      BY FS_EmptySet
    <3>2. \A x \in NeedJobClients(n, l) : Rank(NeedJobClients(n, l), x) \in Nat
      <4> DEFINE S == NeedJobClients(n, l)
      <4> HIDE DEF S
      <4>1. S \in SUBSET Node
        BY <2>3 DEF S
      <4>2. \A x \in S : Rank(S, x) \in 0 .. Cardinality(S) - 1
        BY <4>1, RankOrder
      <4>3. Cardinality(S) \in Nat
        BY <4>1, NodeAssumption, FS_Subset, FS_CardinalityType
      <4> QED BY <4>2, <4>3 DEF S
    <3> QED BY <2>2, <3>1, <3>2 DEF HeirsOf, First
  <2>5. after = AfterEnd(n, l)
    BY <2>4 DEF AfterRegiving
  <2>6. Cleared(n, l) \in LocalState /\ Cleared(n, l).bestMax = l.bestMax
        /\ Cleared(n, l).states = l.states
    BY ClearDisconnectedGood DEF Cleared, ClearDisconnected, LocalState
  <2> QED BY <2>5, <2>6 DEF AfterEnd, OnTerminate, LocalState
<1> HIDE DEF own, after, e
<1>6. ASSUME Linked, Living = Node
      PROVE  Passes(n, l, e)
  BY <1>1, <1>3, <1>4, <1>5, <1>6 DEF Passes, PassesBut, InMail
<1> QED BY <1>4, <1>6 DEF AsksOthers, e

\* InitLeaderStep(): every part of the stack is for a client or for the node itself.
LEMMA DealPasses ==
  ASSUME IInv, NEW n \in Node, n \notin dealTo[n], comp[n].state # "Computing",
         NEW position \in [dealTo[n] -> 1 .. Cardinality(dealTo[n])],
         \A c, d \in dealTo[n] : position[c] = position[d] => c = d,
         NEW jobs, jobs = DealtJobs(n, position),
         NEW out, out = [j \in Node |-> MessagesIf(j \in dealTo[n], StackAssignmentMsg(jobs))]
  PROVE  /\ Passes(n, comp[n], Effect(OnAssignment(n, comp[n], jobs), out))
         /\ AsksOthers(out) /\ OnAssignment(n, comp[n], jobs).state # "Aborted"
<1> DEFINE l == comp[n]
           s == l.states
           others == dealTo[n]
           k == Cardinality(others)
           pars == GetParallelStacks(s, k + 1)
           m == OnAssignment(n, l, jobs)
<1>1. l \in LocalState /\ s \in Seq(Path) /\ Owns(n, l) /\ others \in SUBSET Node
  BY DEF IInv, TypeOK, NodeInv, LocalState
<1>2. IsFiniteSet(others) /\ k \in Nat /\ k + 1 \in Nat \ {0}
  BY <1>1, NodeAssumption, FS_Subset, FS_CardinalityType
<1>3. jobs \in Assignment
  BY DealtJobsType
<1>4. pars \in [1 .. k + 1 -> Seq(Path)] /\ IsDivision(s, pars)
  <2> DEFINE count == k + 1
  <2>1. count \in Nat /\ count \in Nat \ {0}
    BY <1>2
  <2> HIDE DEF count, s
  <2>2. GetParallelStacks(s, count) \in [1 .. count -> Seq(Path)] /\ IsDivision(s, GetParallelStacks(s, count))
    BY <1>1, <2>1, GetParallelStacksType, GetParallelStacksDivides
  <2> QED BY <2>2 DEF count
<1>5. \A i \in 1 .. k : \E c \in others : position[c] = i
  <2> DEFINE pos == position
  <2>1. pos \in [others -> 1 .. k] /\ \A c, d \in others : pos[c] = pos[d] => c = d
    OBVIOUS
  <2> HIDE DEF pos, others, k
  <2>2. pos \in Injection(others, 1 .. k)
    BY <2>1 DEF Injection, IsInjective
  <2>3. IsFiniteSet(1 .. k) /\ Cardinality(1 .. k) = k
    BY <1>2, FS_Interval
  <2>4. pos \in Surjection(others, 1 .. k)
    BY <1>2, <2>2, <2>3, FS_Injection DEF k
  <2> QED BY <2>4 DEF Surjection, pos
<1>6. /\ jobs[n] = pars[k + 1] /\ \A c \in others : jobs[c] = pars[position[c]]
  BY <1>1 DEF DealtJobs
<1>7. \A c \in others : position[c] \in 1 .. k
  OBVIOUS
<1> HIDE DEF l, s, others, k, pars
<1>8. /\ 1 .. k + 1 = DOMAIN pars /\ \A i \in 1 .. k + 1 : pars[i] \in Seq(Path)
      /\ \A i \in 1 .. k : i \in 1 .. k + 1
      /\ k + 1 \in 1 .. k + 1 /\ \A i \in 1 .. k + 1 : i = k + 1 \/ i \in 1 .. k
  BY <1>2, <1>4
<1>9. Job(jobs, n) = pars[k + 1] /\ \A c \in others : Job(jobs, c) = pars[position[c]]
  <2>1. \A c \in Node : jobs[c] \in Seq(Path) => Job(jobs, c) = jobs[c]
    BY <1>3, JobIs, StackIsEntry
  <2>2. \A i \in 1 .. k + 1 : pars[i] \in Seq(Path)
    BY <1>8
  <2>3. \A c \in others : c \in Node /\ pars[position[c]] \in Seq(Path)
    <3> SUFFICES ASSUME NEW c \in others
                 PROVE  c \in Node /\ pars[position[c]] \in Seq(Path)
      OBVIOUS
    <3>1. position[c] \in 1 .. k + 1
      BY <1>7, <1>8
    <3> QED BY <1>1, <2>2, <3>1
  <2> QED BY <1>6, <1>8, <2>1, <2>3
<1>10. l.state # "Computing"
  BY DEF l
<1>11. m.states = Job(jobs, n) /\ m.bestMax = l.bestMax /\ m.state # "Aborted"
  BY <1>1, <1>3, <1>10, OnAssignmentIs
<1>12. ASSUME NEW j \in Node
       PROVE  /\ j \in others => Assigned(out[j]) = {jobs}
              /\ Divides(out[j]) = {}
  <2>1. out[j] = MessagesIf(j \in others, StackAssignmentMsg(jobs))
    BY DEF others
  <2> QED BY <2>1, SaysOne, SaysNothing DEF MessagesIf, StackAssignmentMsg
<1>13. ASSUME NEW x, x \in WorkIn(s)
       PROVE  x \in WorkIn(m.states) \/ InMail(n, out, x)
  <2>1. PICK i \in 1 .. k + 1 : x \in WorkIn(pars[i])
    BY <1>1, <1>4, <1>8, <1>13, DivisionWork
  <2>2. CASE i = k + 1
    BY <1>9, <1>11, <2>1, <2>2
  <2>3. CASE i \in 1 .. k
    <3>1. PICK c \in others : position[c] = i
      BY <1>5, <2>3
    <3>2. c \in Node /\ c # n /\ Assigned(out[c]) = {jobs} /\ x \in WorkIn(Job(jobs, c))
      BY <1>1, <1>9, <1>12, <2>1, <3>1 DEF others
    <3> QED BY <3>2 DEF InMail
  <2> QED BY <1>8, <2>2, <2>3
<1> HIDE DEF m
<1>14. Passes(n, l, Effect(m, out))
  BY <1>11, <1>13 DEF Passes, PassesBut, Effect, s
<1> QED BY <1>11, <1>12, <1>14 DEF AsksOthers, l, m

\* What a handler of a message makes of the work: a share that is not ignored is on
\* the stack afterwards.
LEMMA HandlePasses ==
  ASSUME IInv, NetInv, NEW n \in Node, NEW m \in Node, pc[n] = "loop", chan[m][n] # <<>>,
         NEW msg, msg = Head(chan[m][n]), NEW e, e = Handle(n, m, msg)
  PROVE  /\ AsksOthers(e.out)
         /\ PassesBut(n, comp[n], e, DroppedBy(n, msg))
         /\ msg.type = "STACK_ASSIGNMENT" =>
              WorkIn(Job(msg.assign, n)) \subseteq WorkIn(e.local.states) \cup DroppedBy(n, msg)
<1> DEFINE l == comp[n]
<1>1. /\ l \in LocalState /\ Owns(n, l) /\ IdleEmpty(l) /\ l.state # "Aborted"
      /\ chan[m][n] \in Seq(Message)
  <2>1. l \in LocalState /\ chan[m][n] \in Seq(Message)
    BY DEF IInv, TypeOK
  <2>2. Owns(n, l) /\ IdleEmpty(l)
    BY DEF IInv, NodeInv
  <2>3. l.state # "Aborted"
    BY DEF NetInv, LocalsRight, Gone
  <2> QED BY <2>1, <2>2, <2>3
<1>2. msg \in Message /\ msg \in ToSet(chan[m][n])
  BY <1>1, TailSet
<1> HIDE DEF l
<1>3. CASE msg.type = "STACK_ASSIGNMENT"
  <2> DEFINE after == OnAssignment(n, l, msg.assign)
  <2>1. e.local = after /\ e.out = Nothing
    BY <1>3 DEF Handle, Effect, l
  <2>2. AsksOthers(e.out)
    BY <2>1, SaysNothing DEF AsksOthers, Nothing
  <2> DEFINE D == DroppedBy(n, msg)
  <2>3. D = IF l.state = "Computing" THEN WorkIn(Job(msg.assign, n))
            ELSE IF l.state = "Finished" THEN WorkIn(l.states) ELSE {}
    BY <1>3 DEF DroppedBy, l
  <2>4. /\ after.bestMax = l.bestMax
        /\ l.state = "Computing" => after.states = l.states
        /\ l.state # "Computing" => after.states = Job(msg.assign, n)
    <3>1. msg.assign \in Assignment
      BY <1>2, <1>3, MessageContents
    <3> QED BY <1>1, <3>1, OnAssignmentIs
  <2>5. l.state \notin {"Computing", "Finished"} => WorkIn(l.states) = {}
    <3>1. l.state \notin {"Computing", "Finished"} => l.states = <<>>
      BY <1>1 DEF IdleEmpty, LocalState, State
    <3>2. WorkIn(<<>>) = {}
      BY ToSetSmall DEF WorkIn
    <3> QED BY <3>1, <3>2
  <2> HIDE DEF after, D
  <2>6. PassesBut(n, l, e, D)
    BY <2>1, <2>3, <2>4, <2>5 DEF PassesBut
  <2>7. WorkIn(Job(msg.assign, n)) \subseteq WorkIn(e.local.states) \cup D
    BY <2>1, <2>3, <2>4
  <2> QED BY <1>3, <2>2, <2>6, <2>7 DEF l, D
<1>4. CASE msg.type = "ASSIGNMENT_FINISHED"
  <2> DEFINE after == OnAssignmentFinished(l, m, msg.best)
  <2>1. e.local = after /\ e.out = Nothing
    BY <1>4 DEF Handle, Effect, l
  <2>2. after.states = l.states /\ after.bestMax = l.bestMax
    BY <1>1 DEF OnAssignmentFinished, LocalState
  <2> HIDE DEF after
  <2>3. Passes(n, l, e)
    BY <2>1, <2>2, SamePasses
  <2>4. PassesBut(n, l, e, DroppedBy(n, msg))
    BY <2>3 DEF Passes, PassesBut
  <2> QED BY <1>4, <2>1, <2>4, SaysNothing DEF AsksOthers, Nothing, l
<1>5. CASE msg.type = "DIVIDE_WITH"
  <2>1. e = OnDivideWith(n, l, msg.with)
    BY <1>5 DEF Handle, l
  <2>2. msg.with \in Node /\ msg.with # n
    BY <1>2, <1>5, MessageContents DEF NetInv, OthersDivide, Divides
  <2>3. Passes(n, l, e) /\ AsksOthers(e.out)
    <3> DEFINE c == msg.with
    <3> HIDE DEF c
    <3>1. /\ n \in Node /\ c \in Node /\ c # n /\ e = OnDivideWith(n, l, c)
          /\ l \in LocalState /\ Owns(n, l) /\ l.state # "Aborted"
      BY <1>1, <2>1, <2>2 DEF c
    <3>2. Passes(n, l, e) /\ \A j \in Node : Divides(e.out[j]) = {}
      BY ONLY <3>1, DividePasses
    <3> QED BY <3>2 DEF AsksOthers
  <2>4. PassesBut(n, l, e, DroppedBy(n, msg))
    BY <2>3 DEF Passes, PassesBut
  <2> QED BY <1>5, <2>3, <2>4 DEF l
<1>6. CASE msg.type = "TERMINATE"
  <2>1. e.local = OnTerminate(l) /\ e.out = Nothing
    BY <1>6 DEF Handle, Effect, l
  <2>2. e.local.states = l.states /\ e.local.bestMax = l.bestMax
    BY <1>1, <2>1 DEF OnTerminate, LocalState
  <2>3. Passes(n, l, e)
    BY <2>2, SamePasses
  <2>4. PassesBut(n, l, e, DroppedBy(n, msg))
    BY <2>3 DEF Passes, PassesBut
  <2> QED BY <1>6, <2>1, <2>4, SaysNothing DEF AsksOthers, Nothing, l
<1> QED BY <1>2, <1>3, <1>4, <1>5, <1>6, MessageContents


\* Reading a message: what is on the stack of the node afterwards was in the message.
LEMMA ReadPasses ==
  ASSUME IInv, NetInv, NEW n \in Node, NEW m \in Node, ReadMessage(n, m),
         Living' = Node => Living = Node
  PROVE  NetInv' /\ (Living' = Node => WorkStays)
<1> DEFINE s == chan[m][n]
           msg == Head(s)
           e == Handle(n, m, msg)
           read == [chan EXCEPT ![m][n] = Tail(@)]
<1>1. /\ pc[n] = "loop" /\ s # <<>>
      /\ IF e.local.state = "Aborted"
         THEN Abort(n, e.local)
         ELSE /\ comp' = [comp EXCEPT ![n] = e.local]
              /\ chan' = Sent(n, e.out, read)
              /\ UNCHANGED <<pc, fuel, dealTo, clients, leader>>
  BY DEF ReadMessage
<1>2. TypeOK /\ chan \in [Node -> [Node -> Seq(Message)]]
  BY DEF IInv, TypeOK
<1>3. s \in Seq(Message) /\ msg \in Message /\ Tail(s) \in Seq(Message)
  BY <1>1, <1>2
<1>4. /\ read \in [Node -> [Node -> Seq(Message)]] /\ read[m][n] = Tail(s)
      /\ \A i, j \in Node : i # m \/ j # n => read[i][j] = chan[i][j]
  BY <1>2, <1>3
<1>5. e \in Effects
  BY <1>1, <1>3, HandleGood
<1>6. /\ AsksOthers(e.out) /\ PassesBut(n, comp[n], e, DroppedBy(n, msg))
      /\ msg.type = "STACK_ASSIGNMENT" =>
           WorkIn(Job(msg.assign, n)) \subseteq WorkIn(e.local.states) \cup DroppedBy(n, msg)
  BY <1>1, HandlePasses
<1>7. /\ Assigned(s) = Assigned(Tail(s))
                         \cup (IF msg.type = "STACK_ASSIGNMENT" THEN {msg.assign} ELSE {})
      /\ Divides(Tail(s)) \subseteq Divides(s)
  BY <1>1, <1>3, SaysTail
<1> HIDE DEF e, read
<1>8. e.local \in LocalState /\ e.out \in [Node -> Seq(Message)]
  BY <1>5 DEF Effects
<1>9. CASE e.local.state = "Aborted"
  <2>1. /\ comp' = [comp EXCEPT ![n] = e.local] /\ pc' = [pc EXCEPT ![n] = "dead"]
        /\ dealTo' = dealTo /\ clients' = clients /\ chan' = Unread(n)
    BY <1>1, <1>9 DEF Abort
  <2> QED BY <1>2, <1>8, <2>1, NetEnds
<1>10. CASE e.local.state # "Aborted"
  <2>1. /\ comp' = [comp EXCEPT ![n] = e.local] /\ chan' = Sent(n, e.out, read)
        /\ pc' = pc /\ dealTo' = dealTo /\ clients' = clients
    BY <1>1, <1>10
  <2>2. pc' = [pc EXCEPT ![n] = "loop"] /\ "loop" \in PC /\ ~Gone(n)
    BY <1>1, <1>2, <2>1 DEF TypeOK, PC, Gone
  <2>3. OthersDivide(read)
    BY <1>4, <1>7 DEF NetInv, OthersDivide
  <2>4. NetInv'
    BY <1>2, <1>4, <1>6, <1>8, <1>10, <2>1, <2>2, <2>3, NetStays
  <2>5. chan'[m][n] = Tail(s)
    <3>1. m # n \/ n \notin clients[n]
      BY DEF NetInv, Linked
    <3>2. Sent(n, e.out, read)[m][n] = read[m][n]
      BY <1>4, <3>1 DEF Sent
    <3> QED BY <1>4, <2>1, <3>2
  <2>6. ASSUME Living' = Node
        PROVE  WorkStays
    <3> DEFINE D == DroppedBy(n, msg)
    <3>1. PassesBut(n, comp[n], e, D)
      BY <1>6
    <3>2. \A i, j \in Node : \A a \in Assigned(chan[i][j]) :
            \/ a \in Assigned(read[i][j])
            \/ j = n /\ WorkIn(Job(a, j)) \subseteq WorkIn(e.local.states) \cup D
      <4> SUFFICES ASSUME NEW i \in Node, NEW j \in Node, NEW a \in Assigned(chan[i][j])
                   PROVE  \/ a \in Assigned(read[i][j])
                          \/ j = n /\ WorkIn(Job(a, j)) \subseteq WorkIn(e.local.states) \cup D
        OBVIOUS
      <4>1. CASE i = m /\ j = n
        BY <1>4, <1>6, <1>7, <4>1
      <4>2. CASE i # m \/ j # n
        BY <1>4, <4>2
      <4> QED BY <4>1, <4>2
    <3>3. Linked /\ Living = Node
      BY <2>6 DEF NetInv
    <3>4. D \subseteq Path
      <4>1. comp[n].states \in Seq(Path)
        BY <1>2 DEF TypeOK, LocalState
      <4>2. msg.type = "STACK_ASSIGNMENT" => Job(msg.assign, n) \in Seq(Path)
        BY <1>3, MessageContents, JobIs
      <4>3. ASSUME NEW t \in Seq(Path)
            PROVE  WorkIn(t) \subseteq Path
        <5>1. \A i \in DOMAIN t : t[i] \in Path /\ Subtree[t[i]] \subseteq Path
          BY DEF Subtree
        <5> QED BY <5>1, WorkOf
      <4> QED BY <4>1, <4>2, <4>3 DEF DroppedBy
    <3>5. D \subseteq Dropped
      BY <1>1, <2>5, <3>4 DEF Dropped
    <3> HIDE DEF D
    <3>6. WorkThere \subseteq WorkThere' \cup D
      BY <1>2, <1>4, <1>5, <2>1, <2>6, <3>1, <3>2, <3>3, PassedOn
    <3> QED BY <3>5, <3>6 DEF WorkStays
  <2> QED BY <2>4, <2>6
<1> QED BY <1>9, <1>10

\* Only a process that runs takes a step, and no other one ends by it.
LEMMA ProcessRuns ==
  ASSUME TypeOK, NEW n \in Node, Process(n)
  PROVE  ~Gone(n) /\ (Living' = Node => Living = Node)
<1> DEFINE Fact == ~Gone(n) /\ \A m \in Node : m # n => pc'[m] = pc[m]
<1>1. StartComputation(n) \/ BeginInit(n) \/ ExploreFirst(n) \/ EndLoop(n) => Fact
  BY DEF StartComputation, BeginInit, ExploreFirst, EndLoop, Gone, TypeOK
<1>2. ASSUME NEW e, NEW left, ComputeStep(n, e, left)
      PROVE  \A m \in Node : m # n => pc'[m] = pc[m]
  BY <1>2 DEF ComputeStep, TypeOK
<1>3. ASSUME NEW l, Abort(n, l)
      PROVE  \A m \in Node : m # n => pc'[m] = pc[m]
  BY <1>3 DEF Abort, TypeOK
<1>4. DivideInit(n) => Fact
  BY <1>2 DEF DivideInit, Gone
<1>5. Iterate(n) \/ IterateAndClear(n) \/ ContinueCompute(n) => Fact
  BY <1>2 DEF Iterate, IterateAndClear, ContinueCompute, MayIterate, Gone
<1>6. ASSUME NEW sync \in BOOLEAN, IterateAndCheck(n, sync)
      PROVE  Fact
  BY <1>2, <1>3, <1>6 DEF IterateAndCheck, MayIterate, Gone
<1>7. ASSUME NEW m \in Node, ReadMessage(n, m)
      PROVE  Fact
  BY <1>3, <1>7 DEF ReadMessage, Gone
<1>8. SeeFinished(n) \/ Terminate(n) => Fact
  BY DEF SeeFinished, Terminate
<1>9. Fact
  BY <1>1, <1>4, <1>5, <1>6, <1>7, <1>8 DEF Process, Loop, Read
<1> QED BY <1>9 DEF Living, Gone

\* A step of a computation thread loses no work, but for a share that is handed to a
\* node that computes or has finished.
LEMMA ProcessPasses ==
  ASSUME IInv, NetInv, NEW n \in Node, Process(n)
  PROVE  NetInv' /\ (Living' = Node => WorkStays)
<1> DEFINE l == comp[n]
<1>1. /\ TypeOK /\ l \in LocalState /\ pc[n] \in PC /\ fuel[n] \in Nat /\ Owns(n, l)
      /\ LoopCycles + 1 \in Nat /\ n \notin clients[n] /\ ~Gone(n)
      /\ Living' = Node => Living = Node
  BY ProcessRuns, StepsAssumption DEF IInv, TypeOK, NodeInv, NetInv, Linked
<1>2. /\ comp = [comp EXCEPT ![n] = l] /\ pc = [pc EXCEPT ![n] = pc[n]]
      /\ chan \in [Node -> [Node -> Seq(Message)]] /\ OthersDivide(chan)
      /\ {"init", "loop"} \subseteq PC
  BY <1>1 DEF TypeOK, NetInv, PC
<1>3. l.state # "Aborted" /\ (pc[n] = "init" => l.state # "Computing" /\ n \notin dealTo[n])
  BY <1>1 DEF NetInv, LocalsRight
<1>4. AsksOthers(Nothing)
  BY SaysNothing DEF AsksOthers, Nothing
<1>5. ASSUME NEW m \in LocalState, Owns(n, m), m.state # "Aborted",
             m.bestMax = l.bestMax, m.states = l.states, NEW left \in Nat,
             ComputeStep(n, Effect(m, Nothing), left)
      PROVE  NetInv' /\ (Living' = Node => WorkStays)
  <2> DEFINE e == Effect(m, Nothing)
  <2>1. e \in Effects /\ e.local = m /\ e.out = Nothing
    BY NothingType DEF Effect
  <2>2. ComputeStep(n, e, left)
    BY <1>5
  <2> HIDE DEF e
  <2>3. Passes(n, comp[n], e)
    BY <1>5, <2>1, SamePasses
  <2>4. /\ Owns(n, e.local) /\ AsksOthers(e.out) /\ e.local.state # "Aborted"
    BY <1>4, <1>5, <2>1
  <2> QED BY <1>1, <2>1, <2>2, <2>3, <2>4, ComputeStepKeeps
<1>6. ASSUME StartComputation(n)
      PROVE  NetInv' /\ (Living' = Node => WorkStays)
  <2>1. /\ comp' = [comp EXCEPT ![n] = l] /\ pc' = [pc EXCEPT ![n] = "loop"]
        /\ comp' = comp /\ dealTo' = dealTo /\ clients' = clients /\ chan' = chan
    BY <1>2, <1>6 DEF StartComputation
  <2>2. NetInv'
    BY <1>1, <1>2, <1>3, <2>1, NetKeeps
  <2>3. Living' = Node => WorkStays
    BY <1>1, <2>1, WorkKept
  <2> QED BY <2>2, <2>3
<1>7. ASSUME BeginInit(n)
      PROVE  NetInv' /\ (Living' = Node => WorkStays)
  <2> DEFINE m == [l EXCEPT !.state = "Waiting", !.states = @ \o Roots]
  <2>1. l.states \in Seq(Path) /\ Roots \in Seq(Path) /\ l.states \o Roots \in Seq(Path)
    BY <1>1, JobAssumption DEF LocalState
  <2>2. /\ m \in LocalState /\ m.state = "Waiting" /\ m.bestMax = l.bestMax
        /\ m.states = l.states \o Roots
    BY <1>1, <2>1 DEF LocalState, State
  <2>3. comp' = [comp EXCEPT ![n] = m]
    BY <1>7 DEF BeginInit
  <2>4. /\ pc' = [pc EXCEPT ![n] = "init"] /\ clients' = clients /\ chan' = chan
        /\ dealTo' = [dealTo EXCEPT ![n] = clients[n]]
    BY <1>7 DEF BeginInit
  <2> HIDE DEF m
  <2>5. dealTo'[n] = clients[n] /\ \A k \in Node : k # n => dealTo'[k] = dealTo[k]
    BY <1>1, <2>4 DEF TypeOK
  <2>6. NetInv'
    BY <1>1, <1>2, <2>2, <2>3, <2>4, <2>5, NetKeeps
  <2>7. \A x : x \in WorkIn(l.states) => x \in WorkIn(m.states)
    BY <2>1, <2>2, ConcatWork
  <2>8. comp'[n] = m /\ \A k \in Node : k # n => comp'[k] = comp[k]
    BY <1>1, <2>3 DEF TypeOK
  <2>9. Living' = Node => WorkStays
    BY <1>1, <2>2, <2>4, <2>7, <2>8, WorkKept
  <2> QED BY <2>6, <2>9
<1>8. ASSUME ExploreFirst(n)
      PROVE  NetInv' /\ (Living' = Node => WorkStays)
  <2> DEFINE m == Explore(l)
  <2>1. /\ pc[n] = "init" /\ l.states # <<>> /\ comp' = [comp EXCEPT ![n] = m]
        /\ pc' = [pc EXCEPT ![n] = "init"]
        /\ dealTo' = dealTo /\ clients' = clients /\ chan' = chan
    BY <1>2, <1>8 DEF ExploreFirst
  <2>2. /\ m \in LocalState /\ m.state = l.state
        /\ m.bestMax = l.bestMax \cup {Last(l.states)}
        /\ m.states = Front(l.states) \o Children[Last(l.states)]
    BY <1>1, <2>1, ExploreGood, ExploreIs
  <2>3. \A x : x \in WorkIn(l.states) => x = Last(l.states) \/ x \in WorkIn(m.states)
    <3> DEFINE s == l.states
               t == m.states
    <3>1. s \in Seq(Path) /\ s # <<>> /\ t = Front(s) \o Children[Last(s)]
      BY <1>1, <2>1, <2>2 DEF LocalState
    <3> HIDE DEF s, t
    <3>2. \A x : x \in WorkIn(s) => x = Last(s) \/ x \in WorkIn(t)
      BY ONLY <3>1, ExploreWork
    <3> QED BY <3>2 DEF s, t
  <2> HIDE DEF m
  <2>4. NetInv'
    BY <1>1, <1>2, <1>3, <2>1, <2>2, NetKeeps
  <2>5. comp'[n] = m /\ \A k \in Node : k # n => comp'[k] = comp[k]
    BY <1>1, <2>1 DEF TypeOK
  <2>6. Living' = Node => WorkStays
    BY <1>1, <2>1, <2>2, <2>3, <2>5, WorkKept
  <2> QED BY <2>4, <2>6
<1>9. ASSUME DivideInit(n)
      PROVE  NetInv' /\ (Living' = Node => WorkStays)
  <2>1. PICK position \in [dealTo[n] -> 1 .. Cardinality(dealTo[n])] :
          /\ \A c, d \in dealTo[n] : position[c] = position[d] => c = d
          /\ LET jobs == DealtJobs(n, position)
             IN  ComputeStep(n,
                   Effect(OnAssignment(n, comp[n], jobs),
                          [j \in Node |-> MessagesIf(j \in dealTo[n], StackAssignmentMsg(jobs))]),
                   LoopCycles + 1)
    BY <1>9 DEF DivideInit
  <2> DEFINE jobs == DealtJobs(n, position)
             after == OnAssignment(n, l, jobs)
             out == [j \in Node |-> MessagesIf(j \in dealTo[n], StackAssignmentMsg(jobs))]
             e == Effect(after, out)
  <2>2. pc[n] = "init" /\ jobs \in Assignment
    BY <1>9, DealtJobsType DEF DivideInit
  <2>3. after \in LocalState /\ Good(n, after)
    BY <1>1, <2>2, OnAssignmentGood
  <2>4. out \in [Node -> Seq(Message)]
    BY <2>2, MessageTypes DEF MessagesIf
  <2>5. ComputeStep(n, e, LoopCycles + 1)
    BY <2>1
  <2>6. /\ Passes(n, comp[n], e) /\ AsksOthers(out) /\ after.state # "Aborted"
    BY <1>3, <2>1, <2>2, DealPasses
  <2> HIDE DEF after, out
  <2>7. /\ e \in Effects /\ e.local = after /\ e.out = out
    BY <2>3, <2>4 DEF Effect, Effects
  <2> HIDE DEF e
  <2>8. Owns(n, e.local) /\ AsksOthers(e.out) /\ e.local.state # "Aborted"
    BY <2>3, <2>6, <2>7 DEF Good
  <2> QED BY <1>1, <2>5, <2>6, <2>7, <2>8, ComputeStepKeeps
<1>10. ASSUME Loop(n)
       PROVE  NetInv' /\ (Living' = Node => WorkStays)
  <2>1. NonLeaderStep(l) \in LocalState /\ Owns(n, NonLeaderStep(l))
        /\ NonLeaderStep(l).state # "Aborted"
        /\ NonLeaderStep(l).bestMax = l.bestMax /\ NonLeaderStep(l).states = l.states
    <3>1. pc[n] = "loop"
      BY <1>10 DEF Loop, Iterate, IterateAndClear, IterateAndCheck, MayIterate
    <3>2. IdleEmpty(l)
      BY <3>1 DEF IInv, NodeInv
    <3>3. NonLeaderStep(l) \in LocalState /\ Owns(n, NonLeaderStep(l))
      BY <1>1, <3>2, NonLeaderStepGood
    <3> QED BY <1>1, <1>3, <3>3 DEF NonLeaderStep, LocalState
  <2>2. CASE Iterate(n)
    <3> DEFINE m == IF n \in leader THEN l ELSE NonLeaderStep(l)
    <3>1. /\ m \in LocalState /\ Owns(n, m) /\ m.state # "Aborted"
          /\ m.bestMax = l.bestMax /\ m.states = l.states
      BY <1>1, <1>3, <2>1
    <3>2. ComputeStep(n, Effect(m, Nothing), LoopCycles + 1)
      BY <2>2 DEF Iterate
    <3> HIDE DEF m
    <3> QED BY <1>1, <1>5, <3>1, <3>2
  <2>3. CASE IterateAndClear(n)
    <3> DEFINE k == NonLeaderStep(l)
               m == ClearDisconnected(n, k)
    <3>1. k \in LocalState /\ Owns(n, k) /\ k.state # "Aborted"
          /\ k.bestMax = l.bestMax /\ k.states = l.states
      BY <2>1
    <3>2. ComputeStep(n, Effect(m, Nothing), LoopCycles + 1)
      BY <2>3 DEF IterateAndClear
    <3> HIDE DEF k
    <3>3. m \in LocalState /\ Owns(n, m)
      BY <3>1, ClearDisconnectedGood
    <3>4. m.state = k.state /\ m.bestMax = k.bestMax /\ m.states = k.states
      BY <3>1 DEF ClearDisconnected, LocalState
    <3> HIDE DEF m
    <3> QED BY <1>1, <1>5, <3>1, <3>2, <3>3, <3>4
  <2>4. ASSUME NEW sync \in BOOLEAN, IterateAndCheck(n, sync)
        PROVE  NetInv' /\ (Living' = Node => WorkStays)
    <3> DEFINE e == CheckAssignments(n, l, sync)
    <3>1. IdleEmpty(l)
      BY <2>4 DEF IterateAndCheck, MayIterate, IInv, NodeInv
    <3>2. e \in Effects /\ Owns(n, e.local)
      BY <1>1, <3>1, CheckAssignmentsGood
    <3>3. IF e.local.state = "Aborted" THEN Abort(n, e.local)
                                       ELSE ComputeStep(n, e, LoopCycles + 1)
      BY <2>4 DEF IterateAndCheck
    <3>4. e.local.state # "Aborted" => l.curr # NoAssignment
      BY <1>1 DEF CheckAssignments, Effect, LocalState
    <3>5. l.curr # NoAssignment =>
            /\ AsksOthers(e.out)
            /\ Linked /\ Living = Node => Passes(n, l, e)
      BY <1>1, <1>3, CheckPasses
    <3> HIDE DEF e
    <3>6. CASE e.local.state = "Aborted"
      <4>1. e.local \in LocalState
        BY <3>2 DEF Effects
      <4>2. /\ comp' = [comp EXCEPT ![n] = e.local] /\ pc' = [pc EXCEPT ![n] = "dead"]
            /\ dealTo' = dealTo /\ clients' = clients /\ chan' = Unread(n)
        BY <3>3, <3>6 DEF Abort
      <4> QED BY <1>1, <4>1, <4>2, NetEnds
    <3>7. CASE e.local.state # "Aborted"
      <4>1. ComputeStep(n, e, LoopCycles + 1) /\ AsksOthers(e.out)
        BY <3>3, <3>4, <3>5, <3>7
      <4>2. Living = Node => Passes(n, comp[n], e)
        BY <3>4, <3>5, <3>7 DEF NetInv
      <4> QED BY <1>1, <3>2, <3>7, <4>1, <4>2, ComputeStepKeeps
    <3> QED BY <3>6, <3>7
  <2> QED BY <1>10, <2>2, <2>3, <2>4 DEF Loop
<1>11. ASSUME ContinueCompute(n)
       PROVE  NetInv' /\ (Living' = Node => WorkStays)
  <2>1. ComputeStep(n, Effect(l, Nothing), fuel[n])
    BY <1>11 DEF ContinueCompute
  <2> HIDE DEF l
  <2> QED BY <1>1, <1>3, <1>5, <2>1
<1>12. ASSUME NEW m \in Node, ReadMessage(n, m)
       PROVE  NetInv' /\ (Living' = Node => WorkStays)
  BY <1>1, <1>12, ReadPasses
<1>13. ASSUME EndLoop(n)
       PROVE  NetInv' /\ Living' # Node
  <2>1. /\ comp' = [comp EXCEPT ![n] = l] /\ pc' = [pc EXCEPT ![n] = "done"]
        /\ dealTo' = dealTo /\ clients' = clients /\ chan' = Unread(n)
    BY <1>2, <1>13 DEF EndLoop
  <2> HIDE DEF l
  <2> QED BY <1>1, <2>1, NetEnds
<1>14. ASSUME SeeFinished(n)
       PROVE  NetInv' /\ WorkStays
  <2>1. UNCHANGED <<comp, pc, dealTo, clients, chan>>
    BY <1>14 DEF SeeFinished
  <2>2. NetInv'
    BY <2>1 DEF NetInv, Linked, OthersDivide, LocalsRight, Gone
  <2> QED BY <2>1, <2>2, SameWork
<1>15. ASSUME Terminate(n)
       PROVE  NetInv' /\ (Living' = Node => WorkStays)
  <2> DEFINE m == OnTerminate(l)
  <2>1. /\ comp' = [comp EXCEPT ![n] = m] /\ pc' = [pc EXCEPT ![n] = pc[n]]
        /\ dealTo' = dealTo /\ clients' = clients /\ chan' = chan
    BY <1>2, <1>15 DEF Terminate, OnTerminate
  <2>2. /\ m \in LocalState /\ m.state = "Finished"
        /\ m.bestMax = l.bestMax /\ m.states = l.states
    BY <1>1 DEF OnTerminate, LocalState, State
  <2> HIDE DEF m
  <2>4. NetInv'
    BY <1>1, <1>2, <1>3, <2>1, <2>2, NetKeeps
  <2>5. comp'[n] = m /\ \A k \in Node : k # n => comp'[k] = comp[k]
    BY <1>1, <2>1 DEF TypeOK
  <2>6. Living' = Node => WorkStays
    BY <1>1, <2>1, <2>2, <2>5, WorkKept
  <2> QED BY <2>4, <2>6
<1> QED
  BY <1>6, <1>7, <1>8, <1>9, <1>10, <1>11, <1>12, <1>13, <1>14, <1>15 DEF Process, Read

\* A step of the network loses no work while everybody runs.
LEMMA NetworkPasses ==
  ASSUME IInv, NetInv, Late = {}, Network
  PROVE  NetInv' /\ (Living' = Node => WorkStays)
<1>1. TypeOK /\ chan \in [Node -> [Node -> Seq(Message)]] /\ clients \in [Node -> SUBSET Node]
  BY DEF IInv, TypeOK
<1>2. ASSUME NEW n \in Node, Elect(n)
      PROVE  NetInv' /\ (Living' = Node => WorkStays)
  <2>1. UNCHANGED <<comp, pc, dealTo, clients, chan>>
    BY <1>2 DEF Elect
  <2>2. NetInv'
    BY <2>1 DEF NetInv, Linked, OthersDivide, LocalsRight, Gone
  <2> QED BY <2>1, <2>2, SameWork
<1>3. ASSUME NEW i \in Node, NEW j \in Node, Connect(i, j)
      PROVE  FALSE
  BY <1>3 DEF Connect
<1>4. ASSUME NEW n \in Node, Crash(n)
      PROVE  NetInv' /\ Living' # Node
  <2>1. /\ comp' = [comp EXCEPT ![n] = comp[n]] /\ comp[n] \in LocalState
        /\ pc' = [pc EXCEPT ![n] = "dead"] /\ chan' = Unread(n)
        /\ dealTo' = dealTo /\ clients' = clients
    BY <1>1, <1>4 DEF Crash, TypeOK
  <2> QED BY <1>1, <2>1, NetEnds
<1>5. ASSUME NEW n \in Node, NEW j \in Node, LoseLast(n, j)
      PROVE  NetInv' /\ Living' # Node
  <2>1. /\ pc[n] = "dead" /\ chan[n][j] # <<>> /\ chan' = [chan EXCEPT ![n][j] = Front(@)]
        /\ UNCHANGED <<comp, pc, dealTo, clients>>
    BY <1>5 DEF LoseLast
  <2>2. ToSet(Front(chan[n][j])) \subseteq ToSet(chan[n][j])
    <3> DEFINE s == chan[n][j]
    <3>1. s \in Seq(Message) /\ s # <<>>
      BY <1>1, <2>1
    <3> HIDE DEF s
    <3>2. Front(s) = [i \in 1 .. Len(s) - 1 |-> s[i]]
      BY <3>1 DEF Front
    <3>3. 1 .. Len(s) - 1 \subseteq DOMAIN s
      BY <3>1
    <3>4. ToSet(Front(s)) \subseteq ToSet(s)
      BY <3>2, <3>3 DEF ToSet
    <3> QED BY <3>4 DEF s
  <2>3. Divides(Front(chan[n][j])) \subseteq Divides(chan[n][j])
    BY <2>2 DEF Divides
  <2>4. \A i, k \in Node : chan'[i][k] = IF i = n /\ k = j THEN Front(chan[n][j]) ELSE chan[i][k]
    BY <1>1, <2>1
  <2>5. OthersDivide(chan')
    BY <2>3, <2>4 DEF NetInv, OthersDivide
  <2>6. NetInv'
    BY <2>1, <2>5 DEF NetInv, Linked, OthersDivide, LocalsRight, Gone
  <2> QED BY <2>1, <2>6 DEF Living, Gone
<1>6. ASSUME NEW n \in Node, NEW j \in Node, Disconnect(j, n)
      PROVE  NetInv' /\ (Living' = Node => WorkStays)
  <2>1. /\ Gone(n) /\ clients' = [clients EXCEPT ![j] = @ \ {n}]
        /\ UNCHANGED <<comp, pc, dealTo, chan>>
    BY <1>6 DEF Disconnect
  <2>2. \A i \in Node : clients'[i] = IF i = j THEN clients[i] \ {n} ELSE clients[i]
    BY <1>1, <2>1
  <2>3. Linked'
    BY <2>1, <2>2 DEF NetInv, Linked, Gone
  <2>4. NetInv'
    BY <2>1, <2>3 DEF NetInv, OthersDivide, LocalsRight, Gone
  <2> QED BY <2>1, <2>4, SameWork
<1> QED BY <1>2, <1>3, <1>4, <1>5, <1>6 DEF Network

\* Every step loses no work while everybody runs and no busy node is handed any.
LEMMA StepPasses ==
  ASSUME IInv, NetInv, Late = {}, [Next]_vars
  PROVE  NetInv' /\ (Living' = Node => WorkStays)
<1>1. ASSUME UNCHANGED vars
      PROVE  NetInv' /\ WorkStays
  <2>1. UNCHANGED <<comp, pc, dealTo, clients, chan>>
    BY <1>1 DEF vars
  <2>2. NetInv'
    BY <2>1 DEF NetInv, Linked, OthersDivide, LocalsRight, Gone
  <2> QED BY <2>1, <2>2, SameWork
<1>2. CASE \E n \in Node : Process(n)
  BY <1>2, ProcessPasses
<1>3. CASE Network
  BY <1>3, NetworkPasses
<1>4. CASE AllStopped
  BY <1>1, <1>4 DEF AllStopped
<1> QED BY <1>1, <1>2, <1>3, <1>4 DEF Next

\* When nobody is late, everybody is connected to everybody in the beginning.
LEMMA NetInit ==
  ASSUME Init, Late = {}
  PROVE  NetInv
<1>1. \A n \in Node : clients[n] = Node \ {n}
  BY DEF Init
<1>2. \A n \in Node : comp[n].state = "Initial" /\ pc[n] = "off"
  BY DEF Init, InitLocal
<1>3. \A m, j \in Node : chan[m][j] = <<>>
  BY DEF Init
<1> QED BY <1>1, <1>2, <1>3, SaysNothing DEF NetInv, Linked, OthersDivide, LocalsRight

-----------------------------------------------------------------------------
(* Where the paths on the stacks and the results come from *)

\* What the search reaches in one step from the paths of S.
ReachedFrom(S) == ToSet(Roots) \cup UNION {ToSet(Children[p]) : p \in S}

\* When the paths of S are explored, the jobs of a table, the local state of a node
\* and the messages of a channel have only paths that these reach, and results
\* that account for some of them.
TableSound(a, S) == \A c \in Node : ToSet(Job(a, c)) \subseteq ReachedFrom(S)
Sound(l, S) ==
  /\ ToSet(l.states) \subseteq ReachedFrom(S) /\ TableSound(l.curr, S)
  /\ l.bestFound \subseteq S
MailSound(s, S) ==
  \A x \in ToSet(s) : /\ x.type = "STACK_ASSIGNMENT" => TableSound(x.assign, S)
                      /\ x.type = "ASSIGNMENT_FINISHED" => x.best \subseteq S

\* A handler explores nothing and forgets no result, and a node that computes goes
\* on or ends.
Follows(l, m) ==
  /\ m.bestMax = l.bestMax /\ l.bestFound \subseteq m.bestFound
  /\ l.state = "Computing" => m.state \notin {"Initial", "Waiting"}

\* The more has been explored, the more is reached.
LEMMA SoundGrows ==
  ASSUME NEW S, NEW T, S \subseteq T
  PROVE  /\ ReachedFrom(S) \subseteq ReachedFrom(T)
         /\ \A l : Sound(l, S) => Sound(l, T)
         /\ \A s : MailSound(s, S) => MailSound(s, T)
<1>1. ReachedFrom(S) \subseteq ReachedFrom(T)
  BY DEF ReachedFrom
<1>2. \A a : TableSound(a, S) => TableSound(a, T)
  BY <1>1 DEF TableSound
<1> QED BY <1>1, <1>2 DEF Sound, MailSound

\* No operation of StackAssignment makes up a job.
LEMMA TablesSound ==
  ASSUME NEW S, NEW a \in Assignment, NEW b \in Assignment, TableSound(a, S), TableSound(b, S),
         NEW c \in Node, NEW T
  PROVE  /\ TableSound(NoAssignment, S)
         /\ TableSound(Update(a, b), S) /\ TableSound(WithEntry(a, c), S)
         /\ TableSound(WithoutJob(a, c), S) /\ TableSound(RemoveIdle(a, T), S)
<1>1. ToSet(<<>>) = {}
  BY ToSetSmall
<1>2. ASSUME NEW d \in Node
      PROVE  /\ Job(NoAssignment, d) = <<>>
             /\ Job(Update(a, b), d) \in {Job(a, d), Job(b, d)}
             /\ Job(WithEntry(a, c), d) = Job(a, d)
             /\ Job(WithoutJob(a, c), d) \in {<<>>, Job(a, d)}
             /\ Job(RemoveIdle(a, T), d) \in {<<>>, Job(a, d)}
  BY NoStack DEF Job, NoAssignment, Update, WithEntry, WithoutJob, RemoveIdle, Assignment
<1> QED BY <1>1, <1>2 DEF TableSound

\* A node takes a job from the table it is sent.
LEMMA OnAssignmentSound ==
  ASSUME NEW S, NEW n \in Node, NEW l \in LocalState, NEW a \in Assignment,
         Sound(l, S), TableSound(a, S)
  PROVE  Sound(OnAssignment(n, l, a), S) /\ Follows(l, OnAssignment(n, l, a))
<1> DEFINE table == Update(l.curr, a)
           m == OnAssignment(n, l, a)
<1>1. /\ l.curr \in Assignment /\ table \in Assignment /\ TableSound(table, S)
      /\ WithEntry(table, n) \in Assignment /\ TableSound(WithEntry(table, n), S)
      /\ Job(a, n) \in Seq(Path) /\ ToSet(Job(a, n)) \subseteq ReachedFrom(S)
  <2>1. l.curr \in Assignment /\ TableSound(l.curr, S)
    BY DEF LocalState, Sound
  <2>2. table \in Assignment /\ TableSound(table, S)
    BY <2>1, AssignmentTypes, TablesSound
  <2>3. WithEntry(table, n) \in Assignment /\ TableSound(WithEntry(table, n), S)
    BY <2>2, AssignmentTypes, TablesSound
  <2> QED BY <2>1, <2>2, <2>3, JobIs DEF TableSound
<1>2. CASE l.state = "Computing"
  <2>1. m = [l EXCEPT !.curr = table]
    BY <1>2 DEF OnAssignment
  <2>2. /\ m.curr = table /\ m.states = l.states /\ m.bestFound = l.bestFound
        /\ m.bestMax = l.bestMax /\ m.state = l.state
    BY <2>1 DEF LocalState
  <2> QED BY <1>1, <1>2, <2>2 DEF Sound, Follows
<1>3. CASE l.state # "Computing"
  <2> DEFINE new == IF l.curr = NoAssignment THEN WithEntry(table, n) ELSE table
  <2>1. m = [l EXCEPT !.curr = new, !.states = Job(a, n),
                      !.state = IF Job(a, n) = <<>> THEN "Waiting" ELSE "Computing"]
    BY <1>3 DEF OnAssignment
  <2>2. TableSound(new, S)
    BY <1>1
  <2> HIDE DEF new
  <2>3. /\ m.curr = new /\ m.states = Job(a, n) /\ m.bestFound = l.bestFound
        /\ m.bestMax = l.bestMax
    BY <2>1 DEF LocalState
  <2> QED BY <1>1, <1>3, <2>2, <2>3 DEF Sound, Follows
<1> QED BY <1>2, <1>3

\* What a node hears of has been explored.
LEMMA OnAssignmentFinishedSound ==
  ASSUME NEW S, NEW l \in LocalState, NEW c \in Node, NEW best, best \subseteq S, Sound(l, S)
  PROVE  LET m == OnAssignmentFinished(l, c, best)
         IN  /\ Sound(m, S) /\ Follows(l, m)
             /\ l.curr # NoAssignment => m.bestFound = l.bestFound \cup best
<1> DEFINE m == OnAssignmentFinished(l, c, best)
<1>1. CASE l.curr = NoAssignment
  <2>1. m = [l EXCEPT !.state = "Aborted"]
    BY <1>1 DEF OnAssignmentFinished
  <2>2. /\ m.curr = l.curr /\ m.states = l.states /\ m.bestFound = l.bestFound
        /\ m.bestMax = l.bestMax /\ m.state = "Aborted"
    BY <2>1 DEF LocalState
  <2> QED BY <1>1, <2>2 DEF Sound, Follows
<1>2. CASE l.curr # NoAssignment
  <2>1. m = [l EXCEPT !.bestFound = @ \cup best, !.curr = WithoutJob(@, c)]
    BY <1>2 DEF OnAssignmentFinished
  <2>2. /\ m.curr = WithoutJob(l.curr, c) /\ m.states = l.states
        /\ m.bestFound = l.bestFound \cup best /\ m.bestMax = l.bestMax /\ m.state = l.state
    BY <2>1 DEF LocalState
  <2>3. TableSound(WithoutJob(l.curr, c), S)
    BY TablesSound DEF LocalState, Sound
  <2> QED BY <2>2, <2>3 DEF Sound, Follows
<1> QED BY <1>1, <1>2

\* A node that shall end keeps what it has.
LEMMA OnTerminateSound ==
  ASSUME NEW S, NEW l \in LocalState, Sound(l, S)
  PROVE  Sound(OnTerminate(l), S) /\ Follows(l, OnTerminate(l))
<1>1. LET m == OnTerminate(l)
      IN  /\ m.curr = l.curr /\ m.states = l.states /\ m.bestFound = l.bestFound
          /\ m.bestMax = l.bestMax /\ m.state = "Finished"
  BY DEF OnTerminate, LocalState
<1> QED BY <1>1 DEF Sound, Follows

\* The halves of a stack have nothing but its elements.
LEMMA HalvesAreParts ==
  ASSUME NEW s \in Seq(Path)
  PROVE  ToSet(Kept(s)) \subseteq ToSet(s) /\ ToSet(Given(s)) \subseteq ToSet(s)
<1> DEFINE a == Kept(s)
           b == Given(s)
<1> HIDE DEF a, b
<1>1. AreHalves(s, a, b)
  BY HalvesAt DEF a, b
<1>2. ToSet(a) \subseteq ToSet(s) /\ ToSet(b) \subseteq ToSet(s)
  BY <1>1 DEF AreHalves, ToSet
<1> QED BY <1>2 DEF a, b

\* A node that divides its stack sends and keeps parts of it.
LEMMA OnDivideWithSound ==
  ASSUME NEW S, NEW n \in Node, NEW l \in LocalState, NEW c \in Node, Sound(l, S)
  PROVE  LET e == OnDivideWith(n, l, c)
         IN  /\ Sound(e.local, S) /\ Follows(l, e.local)
             /\ \A j \in Node : MailSound(e.out[j], S)
<1>1. CASE l.states = <<>>
  <2>1. OnDivideWith(n, l, c) = Effect(l, Nothing)
    BY <1>1 DEF OnDivideWith
  <2>2. OnDivideWith(n, l, c).local = l /\ \A j \in Node : OnDivideWith(n, l, c).out[j] = <<>>
    BY <2>1 DEF Effect, Nothing
  <2>3. MailSound(<<>>, S)
    BY ToSetSmall DEF MailSound
  <2>4. Follows(l, l)
    BY DEF Follows
  <2> QED BY <2>2, <2>3, <2>4
<1>2. CASE l.states # <<>>
  <2> DEFINE rest == [l EXCEPT !.states = Kept(@)]
             halves == Halves(n, l, c)
             local == OnAssignment(n, rest, halves)
             msg == StackAssignmentMsg(halves)
             out == [j \in Node |-> <<msg>>]
  <2>1. /\ l.states \in Seq(Path) /\ Kept(l.states) \in Seq(Path) /\ Given(l.states) \in Seq(Path)
    BY KeptType DEF LocalState
  <2>2. /\ ToSet(Kept(l.states)) \subseteq ReachedFrom(S) /\ ToSet(Given(l.states)) \subseteq ReachedFrom(S)
    BY <2>1, HalvesAreParts DEF Sound
  <2>3. /\ rest \in LocalState /\ rest.states = Kept(l.states) /\ rest.curr = l.curr
        /\ rest.bestFound = l.bestFound /\ rest.bestMax = l.bestMax /\ rest.state = l.state
    BY <2>1 DEF LocalState
  <2>4. Sound(rest, S)
    BY <2>2, <2>3 DEF Sound
  <2>5. halves \in Assignment
    BY <2>1 DEF Halves, NoAssignment, Assignment
  <2>6. TableSound(halves, S)
    <3>1. \A d \in Node : halves[d] \in {Kept(l.states), Given(l.states), NoEntry}
      BY DEF Halves, NoAssignment
    <3>2. \A d \in Node : Job(halves, d) \in {Kept(l.states), Given(l.states), <<>>}
      BY <3>1 DEF Job
    <3> QED BY <2>2, <3>2, ToSetSmall DEF TableSound
  <2> HIDE DEF rest, halves
  <2>7. Sound(local, S) /\ Follows(rest, local)
    BY <2>3, <2>4, <2>5, <2>6, OnAssignmentSound
  <2>8. Follows(l, local)
    BY <2>3, <2>7 DEF Follows
  <2>9. MailSound(<<msg>>, S)
    BY <2>6, ToSetSmall DEF MailSound, StackAssignmentMsg
  <2>10. OnDivideWith(n, l, c) = Effect(local, out)
    BY <1>2 DEF OnDivideWith, rest, halves
  <2> HIDE DEF local, msg
  <2>11. OnDivideWith(n, l, c).local = local /\ \A j \in Node : OnDivideWith(n, l, c).out[j] = <<msg>>
    BY <2>10 DEF Effect
  <2> QED BY <2>7, <2>8, <2>9, <2>11
<1> QED BY <1>1, <1>2

\* What is on top of a stack is reached, and so is what exploring it pushes.
LEMMA ExploreSound ==
  ASSUME NEW S, NEW n \in Node, NEW l \in LocalState, l.states # <<>>, Sound(l, S)
  PROVE  /\ Last(l.states) \in ReachedFrom(S)
         /\ Sound(Explore(l), S \cup {Last(l.states)})
         /\ Explore(l).bestFound = l.bestFound
<1> DEFINE s == l.states
           m == Explore(l)
           T == S \cup {Last(s)}
<1>1. s \in Seq(Path) /\ Len(s) \in Nat /\ Len(s) > 0 /\ DOMAIN s = 1 .. Len(s)
  BY DEF LocalState
<1>2. Last(s) = s[Len(s)] /\ Len(s) \in DOMAIN s
  BY <1>1 DEF Last
<1>3. Last(s) \in ToSet(s) /\ Last(s) \in Path
  BY <1>1, <1>2 DEF ToSet
<1>4. Front(s) \in Seq(Path) /\ ToSet(Front(s)) \subseteq ToSet(s)
  <2>1. Front(s) = SubSeq(s, 1, Len(s) - 1)
    BY DEF Front
  <2>2. /\ Front(s) \in Seq(Path) /\ DOMAIN Front(s) = 1 .. Len(s) - 1
        /\ \A i \in 1 .. Len(s) - 1 : Front(s)[i] = s[i]
    <3> HIDE DEF s
    <3> QED BY <1>1, <2>1
  <2>3. \A i \in 1 .. Len(s) - 1 : i \in DOMAIN s
    BY <1>1
  <2> QED BY <2>2, <2>3 DEF ToSet
<1>5. Children[Last(s)] \in Seq(Path)
  BY <1>3, JobAssumption
<1>6. /\ m.states = Front(s) \o Children[Last(s)] /\ m.curr = l.curr
      /\ m.bestFound = l.bestFound
  <2>1. m = [l EXCEPT !.states = Front(s) \o Children[Last(s)], !.bestMax = l.bestMax \cup {Last(s)}]
    BY DEF Explore
  <2> HIDE DEF s
  <2> QED BY <2>1 DEF LocalState
<1>7. ToSet(m.states) \subseteq ToSet(Front(s)) \cup ToSet(Children[Last(s)])
  <2> DEFINE f == Front(s)
             c == Children[Last(s)]
  <2>1. f \in Seq(Path) /\ c \in Seq(Path)
    BY <1>4, <1>5
  <2> HIDE DEF f, c
  <2>2. \A i \in DOMAIN (f \o c) : \/ i \in DOMAIN f /\ (f \o c)[i] = f[i]
                                   \/ i - Len(f) \in DOMAIN c /\ (f \o c)[i] = c[i - Len(f)]
    BY <2>1, ConcatIs
  <2>3. ToSet(f \o c) \subseteq ToSet(f) \cup ToSet(c)
    BY <2>2 DEF ToSet
  <2> QED BY <1>6, <2>3 DEF f, c
<1> HIDE DEF s, m
<1>8. ToSet(s) \subseteq ReachedFrom(S) /\ TableSound(l.curr, S) /\ l.bestFound \subseteq S
  BY DEF Sound, s
<1>9. ReachedFrom(S) \subseteq ReachedFrom(T) /\ ToSet(Children[Last(s)]) \subseteq ReachedFrom(T)
  BY DEF ReachedFrom
<1>10. TableSound(l.curr, T)
  BY <1>8, <1>9 DEF TableSound
<1>11. Sound(m, T)
  BY <1>4, <1>6, <1>7, <1>8, <1>9, <1>10 DEF Sound
<1> QED BY <1>3, <1>6, <1>8, <1>11 DEF s, m

\* What ComputeStep() announces has been explored.
LEMMA AnnounceSound ==
  ASSUME NEW S, NEW n \in Node, NEW e \in Effects, Owns(n, e.local), e.local.bestMax \subseteq S,
         Sound(e.local, S), \A j \in Node : MailSound(e.out[j], S)
  PROVE  LET f == AnnounceIfComputing(n, e)
         IN  /\ Sound(f.local, S) /\ f.local.bestMax = e.local.bestMax
             /\ e.local.bestFound \subseteq f.local.bestFound
             /\ \A j \in Node : MailSound(f.out[j], S)
             /\ e.local.state = "Computing" => e.local.bestMax \subseteq f.local.bestFound
<1>1. e.local \in LocalState /\ e.out \in [Node -> Seq(Message)]
  BY DEF Effects
<1>2. CASE e.local.state # "Computing"
  BY <1>2 DEF AnnounceIfComputing
<1>3. CASE e.local.state = "Computing"
  <2> DEFINE best == e.local.bestMax
             m == OnAssignmentFinished(e.local, n, best)
             w == [m EXCEPT !.state = "Waiting"]
             out == [j \in Node |-> Append(e.out[j], FinishedMsg(best))]
  <2>1. best \in SUBSET Path
    BY <1>1 DEF LocalState
  <2>2. m \in LocalState
    BY <1>1, <2>1, OnAssignmentFinishedGood
  <2>3. /\ Sound(m, S) /\ Follows(e.local, m) /\ m.bestFound = e.local.bestFound \cup best
    BY <1>1, <1>3, OnAssignmentFinishedSound DEF Owns
  <2> HIDE DEF m
  <2>4. /\ w.states = m.states /\ w.curr = m.curr /\ w.bestFound = m.bestFound /\ w.bestMax = m.bestMax
    BY <2>2 DEF LocalState
  <2>5. AnnounceIfComputing(n, e) = Effect(w, out)
    BY <1>3 DEF AnnounceIfComputing, m
  <2>6. Sound(w, S) /\ w.bestMax = e.local.bestMax
    BY <2>3, <2>4 DEF Sound, Follows
  <2>7. \A j \in Node : MailSound(out[j], S)
    <3> SUFFICES ASSUME NEW j \in Node
                 PROVE  MailSound(Append(e.out[j], FinishedMsg(best)), S)
      OBVIOUS
    <3> DEFINE t == e.out[j]
               x == FinishedMsg(best)
    <3>1. t \in Seq(Message) /\ x \in Message /\ x.type = "ASSIGNMENT_FINISHED" /\ x.best \subseteq S
      BY <1>1, <2>1, MessageTypes DEF FinishedMsg
    <3>2. MailSound(t, S)
      OBVIOUS
    <3> HIDE DEF t, x
    <3>3. Append(t, x) = t \o <<x>> /\ <<x>> \in Seq(Message)
      BY <3>1, AppendIsConcat
    <3>4. ToSet(t \o <<x>>) = ToSet(t) \cup {x}
      <4> DEFINE u == <<x>>
      <4>1. ToSet(u) = {x} /\ u \in Seq(Message)
        BY <3>3, ToSetSmall
      <4> HIDE DEF u
      <4>2. ToSet(t \o u) = ToSet(t) \cup {x}
        BY <3>1, <4>1, ConcatSet
      <4> QED BY <4>2 DEF u
    <3>5. MailSound(Append(t, x), S)
      BY <3>1, <3>2, <3>3, <3>4 DEF MailSound
    <3> QED BY <3>5 DEF t, x
  <2> HIDE DEF w, out
  <2>8. AnnounceIfComputing(n, e).local = w /\ AnnounceIfComputing(n, e).out = out
    BY <2>5 DEF Effect
  <2> QED BY <1>3, <2>3, <2>4, <2>6, <2>7, <2>8 DEF out
<1> QED BY <1>2, <1>3

\* ClearDisconnected() and NonLeaderStep() touch no job.
LEMMA NonLeaderSound ==
  ASSUME NEW S, NEW n \in Node, NEW l \in LocalState, Sound(l, S)
  PROVE  /\ Sound(NonLeaderStep(l), S) /\ Follows(l, NonLeaderStep(l))
         /\ Sound(ClearDisconnected(n, l), S) /\ Follows(l, ClearDisconnected(n, l))
         /\ ClearDisconnected(n, l).state = l.state
<1>1. Sound(NonLeaderStep(l), S) /\ Follows(l, NonLeaderStep(l))
  <2>1. CASE l.state = "Initial"
    <3> DEFINE m == [l EXCEPT !.state = "Waiting"]
    <3>1. /\ m.states = l.states /\ m.curr = l.curr /\ m.bestFound = l.bestFound
          /\ m.bestMax = l.bestMax
      BY DEF LocalState
    <3>2. NonLeaderStep(l) = m
      BY <2>1 DEF NonLeaderStep
    <3> HIDE DEF m
    <3> QED BY <2>1, <3>1, <3>2 DEF Sound, Follows
  <2>2. CASE l.state # "Initial"
    BY <2>2 DEF NonLeaderStep, Follows
  <2> QED BY <2>1, <2>2
<1>2. /\ Sound(ClearDisconnected(n, l), S) /\ Follows(l, ClearDisconnected(n, l))
      /\ ClearDisconnected(n, l).state = l.state
  <2> DEFINE gone == Node \ (clients[n] \cup {n})
             m == ClearDisconnected(n, l)
  <2>1. l.curr \in Assignment /\ TableSound(l.curr, S)
    BY DEF LocalState, Sound
  <2>2. TableSound(RemoveIdle(l.curr, gone), S)
    BY <2>1, TablesSound
  <2>3. m = [l EXCEPT !.curr = RemoveIdle(l.curr, gone)]
    BY DEF ClearDisconnected
  <2> HIDE DEF gone
  <2>4. /\ m.states = l.states /\ m.curr = RemoveIdle(l.curr, gone) /\ m.bestFound = l.bestFound
        /\ m.bestMax = l.bestMax /\ m.state = l.state
    BY <2>3 DEF LocalState
  <2> HIDE DEF m
  <2>5. Sound(m, S) /\ Follows(l, m) /\ m.state = l.state
    BY <2>2, <2>4 DEF Sound, Follows
  <2> QED BY <2>5 DEF m
<1> QED BY <1>1, <1>2

\* What is given again is in the table.
LEMMA RegivenSound ==
  ASSUME NEW S, TypeOK, NEW n \in Node, NEW l \in LocalState, Sound(l, S)
  PROVE  TableSound(Regiven(n, l), S)
<1> DEFINE need == NeedJobClients(n, l)
           disc == DisconnectedClients(n, l)
<1>1. need \in SUBSET Node /\ disc \in SUBSET Node /\ l.curr \in Assignment /\ TableSound(l.curr, S)
  BY CheckSets DEF LocalState, Sound
<1>2. \A c \in disc : l.curr[c] # NoEntry
  BY DEF DisconnectedClients, Entries
<1>3. \A c \in HeirsOf(n, l) : c \in need /\ Rank(need, c) < Cardinality(disc)
  BY DEF HeirsOf, First
<1> HIDE DEF need, disc
<1>4. \A c \in HeirsOf(n, l) : SameRank(need, c, disc) \in disc
  BY <1>1, <1>3, SameRankIn
<1>5. \A d \in disc : ToSet(l.curr[d]) \subseteq ReachedFrom(S)
  BY <1>1, <1>2 DEF TableSound, Job
<1> SUFFICES ASSUME NEW c \in Node
             PROVE  ToSet(Job(Regiven(n, l), c)) \subseteq ReachedFrom(S)
  BY DEF TableSound
<1>6. CASE c \in HeirsOf(n, l)
  <2>1. Regiven(n, l)[c] = l.curr[SameRank(need, c, disc)]
    BY <1>6 DEF Regiven, need, disc
  <2>2. l.curr[SameRank(need, c, disc)] # NoEntry
    BY <1>2, <1>4, <1>6
  <2> QED BY <1>4, <1>5, <1>6, <2>1, <2>2 DEF Job
<1>7. CASE c \notin HeirsOf(n, l)
  <2>1. Regiven(n, l)[c] \in {<<>>, NoEntry}
    BY <1>7 DEF Regiven
  <2> QED BY <2>1, ToSetSmall DEF Job
<1> QED BY <1>6, <1>7

\* Messages appended to others.
LEMMA MailConcat ==
  ASSUME NEW S, NEW s \in Seq(Message), NEW t \in Seq(Message), MailSound(s, S), MailSound(t, S)
  PROVE  s \o t \in Seq(Message) /\ MailSound(s \o t, S)
<1>1. ToSet(s \o t) = ToSet(s) \cup ToSet(t) /\ s \o t \in Seq(Message)
  BY ConcatSet
<1> QED BY <1>1 DEF MailSound

\* One message, if any.
LEMMA MailIf ==
  ASSUME NEW S, NEW P \in BOOLEAN, NEW x, P => x \in Message, MailSound(<<x>>, S)
  PROVE  MessagesIf(P, x) \in Seq(Message) /\ MailSound(MessagesIf(P, x), S)
<1>1. CASE P
  BY <1>1 DEF MessagesIf
<1>2. CASE ~P
  BY <1>2, ToSetSmall DEF MessagesIf, MailSound
<1> QED BY <1>1, <1>2

\* When there are no jobs left there are none to give again.
LEMMA NoHeirs ==
  ASSUME TypeOK, NEW n \in Node, NEW l, NoJobsLeft(n, l)
  PROVE  HeirsOf(n, l) = {} /\ n \notin Dividers(n, l)
<1> DEFINE need == NeedJobClients(n, l)
<1>1. need \in SUBSET Node /\ WorkingClients(n, l) = {} /\ DisconnectedClients(n, l) = {}
  BY CheckSets DEF NoJobsLeft
<1>2. Cardinality(DisconnectedClients(n, l)) = 0
  BY <1>1, FS_EmptySet
<1>3. HeirsOf(n, l) = First(need, 0)
  BY <1>2 DEF HeirsOf
<1> HIDE DEF need
<1>4. \A x \in need : Rank(need, x) \in 0 .. Cardinality(need) - 1 /\ Cardinality(need) \in Nat
  BY <1>1, RankOrder, NodeAssumption, FS_Subset, FS_CardinalityType
<1>5. First(need, 0) = {}
  BY <1>4 DEF First
<1> QED BY <1>1, <1>3, <1>5 DEF Dividers, First

\* CheckAssignments() passes on only what is in the table or on the own stack.
LEMMA OwnDivisionSound ==
  ASSUME NEW S, TypeOK, NEW n \in Node, NEW l \in LocalState, Owns(n, l), Sound(l, S)
  PROVE  /\ Sound(Cleared(n, l), S)
         /\ LET e == OwnDivision(n, l)
            IN  /\ Sound(e.local, S) /\ Follows(l, e.local)
                /\ \A j \in Node : MailSound(e.out[j], S)
<1> DEFINE c == Cleared(n, l)
           r == AfterRegiving(n, l)
<1>1. c \in LocalState /\ Owns(n, c) /\ Sound(c, S) /\ Follows(l, c) /\ c.state = l.state
  BY ClearDisconnectedGood, NonLeaderSound DEF Cleared
<1>2. CASE NoJobsLeft(n, l)
  <2>1. OwnDivision(n, l) = Effect(OnTerminate(c), Nothing)
    BY <1>2, NoHeirs DEF OwnDivision, AfterRegiving, AfterEnd
  <2> HIDE DEF c
  <2>2. Sound(OnTerminate(c), S) /\ Follows(c, OnTerminate(c))
    BY <1>1, OnTerminateSound
  <2>3. Follows(l, OnTerminate(c))
    BY <1>1, <2>2 DEF Follows
  <2>4. /\ OwnDivision(n, l).local = OnTerminate(c)
        /\ \A j \in Node : OwnDivision(n, l).out[j] = <<>>
    BY <2>1 DEF Effect, Nothing
  <2>5. MailSound(<<>>, S)
    BY ToSetSmall DEF MailSound
  <2> QED BY <1>1, <2>2, <2>3, <2>4, <2>5 DEF c
<1>3. CASE ~NoJobsLeft(n, l)
  <2>1. r = IF HeirsOf(n, l) = {} THEN c ELSE OnAssignment(n, c, Regiven(n, l))
    BY <1>3 DEF AfterRegiving, AfterEnd
  <2>2. Regiven(n, l) \in Assignment /\ TableSound(Regiven(n, l), S)
    BY RegivenType, RegivenSound
  <2> HIDE DEF c, r
  <2>3. r \in LocalState /\ Sound(r, S) /\ Follows(c, r) /\ (c.state = "Computing" => r.state = "Computing")
    <3>1. CASE HeirsOf(n, l) = {}
      BY <1>1, <2>1, <3>1 DEF Follows
    <3>2. CASE HeirsOf(n, l) # {}
      <4>1. r = OnAssignment(n, c, Regiven(n, l))
        BY <2>1, <3>2
      <4> QED BY <1>1, <2>2, <4>1, OnAssignmentSound, OnAssignmentIs
    <3> QED BY <3>1, <3>2
  <2>4. Follows(l, r) /\ (l.state = "Computing" => r.state = "Computing")
    BY <1>1, <2>3 DEF Follows
  <2>5. CASE n \in Dividers(n, l)
    <3> DEFINE d == DivideWith(n, l, n)
               e == OnDivideWith(n, r, d)
    <3>1. d \in Node
      BY <2>5, DivideWithNode
    <3>2. OwnDivision(n, l) = e
      BY <2>5 DEF OwnDivision, r
    <3> HIDE DEF d
    <3>3. /\ Sound(e.local, S) /\ Follows(r, e.local)
          /\ \A j \in Node : MailSound(e.out[j], S)
      BY <2>3, <3>1, OnDivideWithSound
    <3>4. Follows(l, e.local)
      BY <2>4, <3>3 DEF Follows
    <3> QED BY <1>1, <3>2, <3>3, <3>4 DEF c
  <2>6. CASE n \notin Dividers(n, l)
    <3>1. OwnDivision(n, l) = Effect(r, Nothing)
      BY <2>6 DEF OwnDivision, r
    <3>2. OwnDivision(n, l).local = r /\ \A j \in Node : OwnDivision(n, l).out[j] = <<>>
      BY <3>1 DEF Effect, Nothing
    <3>3. MailSound(<<>>, S)
      BY ToSetSmall DEF MailSound
    <3> QED BY <1>1, <2>3, <2>4, <3>2, <3>3 DEF c
  <2> QED BY <2>5, <2>6
<1> QED BY <1>2, <1>3

\* So do the messages it sends.
LEMMA CheckSound ==
  ASSUME NEW S, TypeOK, NEW n \in Node, NEW l \in LocalState, Owns(n, l), Sound(l, S), NEW sync \in BOOLEAN
  PROVE  LET e == CheckAssignments(n, l, sync)
         IN  /\ Sound(e.local, S) /\ Follows(l, e.local)
             /\ \A j \in Node : MailSound(e.out[j], S)
<1> DEFINE e == CheckAssignments(n, l, sync)
<1>1. CASE l.curr = NoAssignment
  <2> DEFINE m == [l EXCEPT !.state = "Aborted"]
  <2>1. e = Effect(m, Nothing)
    BY <1>1 DEF CheckAssignments
  <2>2. /\ m.states = l.states /\ m.curr = l.curr /\ m.bestFound = l.bestFound
        /\ m.bestMax = l.bestMax /\ m.state = "Aborted"
    BY DEF LocalState
  <2> HIDE DEF m
  <2>3. e.local = m /\ \A j \in Node : e.out[j] = <<>>
    BY <2>1 DEF Effect, Nothing
  <2>4. MailSound(<<>>, S)
    BY ToSetSmall DEF MailSound
  <2>5. Sound(m, S) /\ Follows(l, m)
    BY <2>2 DEF Sound, Follows
  <2> HIDE DEF e
  <2>6. /\ Sound(e.local, S) /\ Follows(l, e.local) /\ \A j \in Node : MailSound(e.out[j], S)
    BY <2>3, <2>4, <2>5
  <2> QED BY <2>6 DEF e
<1>2. CASE l.curr # NoAssignment
  <2>1. e = Effect(OwnDivision(n, l).local, [j \in Node |-> CheckMessages(n, l, sync, j)])
    BY <1>2 DEF CheckAssignments
  <2>2. e.local = OwnDivision(n, l).local /\ \A j \in Node : e.out[j] = CheckMessages(n, l, sync, j)
    BY <2>1 DEF Effect
  <2>3. ASSUME NEW j \in Node
        PROVE  MailSound(CheckMessages(n, l, sync, j), S)
    <3> DEFINE table == StackAssignmentMsg(Cleared(n, l).curr)
               given == RegivenMsg(n, l)
               divide == DivideWithMsg(DivideWith(n, l, j))
               A == MessagesIf(sync, table)
               B == MessagesIf(j \in NewClients(n, l), table)
               C == MessagesIf(NoJobsLeft(n, l), TerminateMsg)
               D == MessagesIf(HeirsOf(n, l) # {}, given)
               F == MessagesIf(j \in Dividers(n, l) /\ j < n, divide)
               G == OwnDivision(n, l).out[j]
               H == MessagesIf(j \in Dividers(n, l) /\ j > n, divide)
    <3>1. table \in Message /\ MailSound(<<table>>, S)
      <4>1. Cleared(n, l).curr \in Assignment /\ TableSound(Cleared(n, l).curr, S)
        BY OwnDivisionGood, OwnDivisionSound DEF Sound, LocalState
      <4>2. table \in Message
        BY <4>1, MessageTypes
      <4> QED BY <4>1, <4>2, ToSetSmall DEF MailSound, StackAssignmentMsg
    <3>2. given \in Message /\ MailSound(<<given>>, S)
      <4> DEFINE a == IF l.state = "Computing" THEN Regiven(n, l) ELSE WithEntry(Regiven(n, l), n)
      <4>1. a \in Assignment /\ TableSound(a, S)
        BY RegivenType, RegivenSound, AssignmentTypes, TablesSound
      <4>2. given = StackAssignmentMsg(a)
        BY DEF RegivenMsg
      <4> HIDE DEF a
      <4>3. given \in Message
        BY <4>1, <4>2, MessageTypes
      <4> QED BY <4>1, <4>2, <4>3, ToSetSmall DEF MailSound, StackAssignmentMsg
    <3>3. /\ j \in Dividers(n, l) => divide \in Message
          /\ MailSound(<<divide>>, S)
      <4>1. j \in Dividers(n, l) => divide \in Message
        BY DivideWithNode, MessageTypes
      <4> QED BY <4>1, ToSetSmall DEF MailSound, DivideWithMsg
    <3>4. TerminateMsg \in Message /\ MailSound(<<TerminateMsg>>, S)
      <4>1. TerminateMsg \in Message
        BY MessageTypes
      <4> QED BY <4>1, ToSetSmall DEF MailSound, TerminateMsg
    <3>5. G \in Seq(Message) /\ MailSound(G, S)
      BY OwnDivisionGood, OwnDivisionSound DEF Effects
    <3> HIDE DEF table, given, divide
    <3>6. /\ A \in Seq(Message) /\ MailSound(A, S) /\ B \in Seq(Message) /\ MailSound(B, S)
      <4>1. A \in Seq(Message) /\ MailSound(A, S)
        BY <3>1, MailIf
      <4>2. B \in Seq(Message) /\ MailSound(B, S)
        <5> DEFINE P == j \in NewClients(n, l)
        <5>1. P \in BOOLEAN /\ B = MessagesIf(P, table)
          OBVIOUS
        <5> HIDE DEF P, B
        <5> QED BY <3>1, <5>1, MailIf
      <4> QED BY <4>1, <4>2
    <3>7. /\ C \in Seq(Message) /\ MailSound(C, S) /\ D \in Seq(Message) /\ MailSound(D, S)
      BY <3>2, <3>4, MailIf DEF NoJobsLeft
    <3>8. /\ F \in Seq(Message) /\ MailSound(F, S) /\ H \in Seq(Message) /\ MailSound(H, S)
      <4>1. MailSound(<<>>, S) /\ <<>> \in Seq(Message)
        <5>1. MailSound(<<>>, S)
          BY ToSetSmall DEF MailSound
        <5>2. <<>> \in Seq(Message)
          OBVIOUS
        <5> QED BY <5>1, <5>2
      <4>2. j \in Dividers(n, l) => <<divide>> \in Seq(Message)
        BY <3>3
      <4>3. F \in {<<>>, <<divide>>} /\ (F = <<divide>> /\ F # <<>> => j \in Dividers(n, l))
        BY DEF MessagesIf
      <4>4. H \in {<<>>, <<divide>>} /\ (H = <<divide>> /\ H # <<>> => j \in Dividers(n, l))
        BY DEF MessagesIf
      <4> QED BY <3>3, <4>1, <4>2, <4>3, <4>4
    <3>9. CheckMessages(n, l, sync, j) = A \o B \o C \o D \o F \o G \o H
      BY DEF CheckMessages, table, given, divide
    <3> HIDE DEF A, B, C, D, F, G, H
    <3>10. A \o B \in Seq(Message) /\ MailSound(A \o B, S)
      BY <3>6, MailConcat
    <3>11. (A \o B) \o C \in Seq(Message) /\ MailSound((A \o B) \o C, S)
      BY <3>7, <3>10, MailConcat
    <3>12. ((A \o B) \o C) \o D \in Seq(Message) /\ MailSound(((A \o B) \o C) \o D, S)
      BY <3>7, <3>11, MailConcat
    <3>13. /\ (((A \o B) \o C) \o D) \o F \in Seq(Message)
           /\ MailSound((((A \o B) \o C) \o D) \o F, S)
      BY <3>8, <3>12, MailConcat
    <3>14. /\ ((((A \o B) \o C) \o D) \o F) \o G \in Seq(Message)
           /\ MailSound(((((A \o B) \o C) \o D) \o F) \o G, S)
      BY <3>5, <3>13, MailConcat
    <3>15. MailSound((((((A \o B) \o C) \o D) \o F) \o G) \o H, S)
      BY <3>8, <3>14, MailConcat
    <3> QED BY <3>9, <3>15
  <2> HIDE DEF e
  <2>4. /\ Sound(e.local, S) /\ Follows(l, e.local) /\ \A j \in Node : MailSound(e.out[j], S)
    BY <2>2, <2>3, OwnDivisionSound
  <2> QED BY <2>4 DEF e
<1> QED BY <1>1, <1>2

\* The jobs the leader deals are parts of its stack.
LEMMA DealtSound ==
  ASSUME NEW S, IInv, NEW n \in Node, Sound(comp[n], S),
         NEW position \in [dealTo[n] -> 1 .. Cardinality(dealTo[n])]
  PROVE  TableSound(DealtJobs(n, position), S)
<1> DEFINE s == comp[n].states
           k == Cardinality(dealTo[n])
           pars == GetParallelStacks(s, k + 1)
           jobs == DealtJobs(n, position)
<1>1. s \in Seq(Path) /\ dealTo[n] \in SUBSET Node /\ ToSet(s) \subseteq ReachedFrom(S)
  BY DEF IInv, TypeOK, LocalState, Sound
<1>2. k \in Nat /\ k + 1 \in Nat \ {0}
  BY <1>1, NodeAssumption, FS_Subset, FS_CardinalityType
<1>3. pars \in [1 .. k + 1 -> Seq(Path)] /\ IsDivision(s, pars)
  <2> DEFINE count == k + 1
  <2>1. count \in Nat /\ count \in Nat \ {0}
    BY <1>2
  <2> HIDE DEF count, s
  <2>2. GetParallelStacks(s, count) \in [1 .. count -> Seq(Path)] /\ IsDivision(s, GetParallelStacks(s, count))
    BY <1>1, <2>1, GetParallelStacksType, GetParallelStacksDivides
  <2> QED BY <2>2 DEF count
<1>4. \A c \in Node : jobs[c] = IF c = n THEN pars[k + 1]
                                 ELSE IF c \in dealTo[n] THEN pars[position[c]] ELSE NoEntry
  BY DEF DealtJobs
<1>5. \A c \in dealTo[n] : position[c] \in 1 .. k
  OBVIOUS
<1>6. k + 1 \in 1 .. k + 1 /\ \A i \in 1 .. k : i \in 1 .. k + 1
  <2> HIDE DEF k
  <2> QED BY <1>2
<1> HIDE DEF s, k, pars, jobs
<1>7. ASSUME NEW j \in 1 .. k + 1
      PROVE  ToSet(pars[j]) \subseteq ToSet(s)
  <2>1. PICK at \in [Places(pars) -> DOMAIN s] : \A p \in Places(pars) : pars[p[1]][p[2]] = s[at[p]]
    BY <1>3 DEF IsDivision
  <2> SUFFICES ASSUME NEW i \in DOMAIN pars[j]
               PROVE  pars[j][i] \in ToSet(s)
    BY DEF ToSet
  <2>2. <<j, i>> \in Places(pars)
    BY <1>3 DEF Places
  <2>3. at[<<j, i>>] \in DOMAIN s /\ pars[j][i] = s[at[<<j, i>>]]
    BY <2>1, <2>2
  <2> QED BY <2>3 DEF ToSet
<1>8. ASSUME NEW c \in Node
      PROVE  ToSet(Job(jobs, c)) \subseteq ReachedFrom(S)
  <2>1. CASE jobs[c] = NoEntry
    BY <2>1, ToSetSmall DEF Job
  <2>2. CASE jobs[c] # NoEntry
    <3>1. PICK j \in 1 .. k + 1 : jobs[c] = pars[j]
      BY <1>4, <1>5, <1>6, <2>2
    <3> QED BY <1>1, <1>7, <2>2, <3>1 DEF Job
  <2> QED BY <2>1, <2>2
<1>9. TableSound(jobs, S)
  BY <1>8 DEF TableSound
<1> QED BY <1>9 DEF jobs

\* The invariant
SearchInv ==
  /\ \A n \in Node : Sound(comp[n], Explored)
  /\ \A m, n \in Node : MailSound(chan[m][n], Explored)

\* What a step does to what is explored and to the results
SearchStep ==
  /\ Explored \subseteq Explored' /\ Explored' \subseteq Explored \cup ReachedFrom(Explored)
  /\ \A n \in Node : comp[n].bestFound \subseteq comp'[n].bestFound

\* A step of a process that explores only what is reached.
LEMMA NodeSearches ==
  ASSUME IInv, SearchInv, NEW n \in Node, NEW l, comp' = [comp EXCEPT ![n] = l],
         comp[n].bestMax \subseteq l.bestMax,
         l.bestMax \subseteq comp[n].bestMax \cup ReachedFrom(Explored),
         comp[n].bestFound \subseteq l.bestFound,
         NEW S, S = Explored \cup l.bestMax, Sound(l, S),
         \A m, j \in Node : MailSound(chan'[m][j], S)
  PROVE  SearchInv' /\ SearchStep
<1>1. comp'[n] = l /\ \A m \in Node : m # n => comp'[m] = comp[m]
  BY DEF IInv, TypeOK
<1>2. Explored' = UNION {comp'[m].bestMax : m \in Node}
  BY DEF Explored
<1>3. \A x : x \in Explored <=> \E m \in Node : x \in comp[m].bestMax
  BY DEF Explored
<1>4. \A x : x \in Explored' <=> \E m \in Node : x \in comp'[m].bestMax
  BY <1>2
<1>5. Explored' = S
  <2>1. \A x : x \in Explored' => x \in S
    BY <1>1, <1>3, <1>4
  <2>2. \A x : x \in S => x \in Explored'
    BY <1>1, <1>3, <1>4
  <2> QED BY <2>1, <2>2
<1>6. comp[n].bestMax \subseteq Explored
  BY <1>3
<1>7. \A m \in Node : Sound(comp'[m], S)
  BY <1>1, SoundGrows DEF SearchInv
<1>8. SearchInv'
  BY <1>5, <1>7 DEF SearchInv
<1> QED BY <1>1, <1>5, <1>6, <1>8 DEF SearchStep

\* Fewer messages say no more.
LEMMA MailLess ==
  ASSUME NEW S, NEW s, NEW t, ToSet(t) \subseteq ToSet(s), MailSound(s, S)
  PROVE  MailSound(t, S)
BY DEF MailSound

\* A step that changes no process, and sends nothing.
LEMMA NetworkSearches ==
  ASSUME SearchInv, comp' = comp,
         \A m, j \in Node : ToSet(chan'[m][j]) \subseteq ToSet(chan[m][j])
  PROVE  SearchInv' /\ SearchStep
<1>1. Explored' = Explored
  BY DEF Explored
<1>2. \A m, j \in Node : MailSound(chan'[m][j], Explored)
  BY MailLess DEF SearchInv
<1> QED BY <1>1, <1>2 DEF SearchInv, SearchStep

\* What is sent is added to what has been sent.
LEMMA SentSound ==
  ASSUME NEW S, NEW n \in Node, NEW out \in [Node -> Seq(Message)],
         NEW ch \in [Node -> [Node -> Seq(Message)]],
         \A m, j \in Node : MailSound(ch[m][j], S), \A j \in Node : MailSound(out[j], S)
  PROVE  \A m, j \in Node : MailSound(Sent(n, out, ch)[m][j], S)
<1> SUFFICES ASSUME NEW m \in Node, NEW j \in Node
             PROVE  MailSound(Sent(n, out, ch)[m][j], S)
  OBVIOUS
<1>1. Sent(n, out, ch)[m][j] = IF m = n /\ j \in clients[n] /\ ~Gone(j)
                               THEN ch[m][j] \o out[j] ELSE ch[m][j]
  BY DEF Sent
<1>2. ch[m][j] \in Seq(Message) /\ out[j] \in Seq(Message)
  OBVIOUS
<1>3. MailSound(ch[m][j] \o out[j], S)
  BY <1>2, MailConcat
<1> QED BY <1>1, <1>3

\* What is no longer read, and what is lost.
LEMMA FewerMessages ==
  ASSUME TypeOK, NEW n \in Node
  PROVE  /\ \A m, j \in Node : ToSet(Unread(n)[m][j]) \subseteq ToSet(chan[m][j])
         /\ \A j \in Node : chan[n][j] # <<>> => ToSet(Front(chan[n][j])) \subseteq ToSet(chan[n][j])
<1>1. ASSUME NEW m \in Node, NEW j \in Node
      PROVE  ToSet(Unread(n)[m][j]) \subseteq ToSet(chan[m][j])
  <2>1. Unread(n)[m][j] = IF j = n THEN <<>> ELSE chan[m][j]
    BY DEF TypeOK, Unread
  <2> QED BY <2>1, ToSetSmall
<1>2. ASSUME NEW j \in Node, chan[n][j] # <<>>
      PROVE  ToSet(Front(chan[n][j])) \subseteq ToSet(chan[n][j])
  <2> DEFINE s == chan[n][j]
  <2>1. s \in Seq(Message)
    BY DEF TypeOK
  <2>2. s # <<>>
    BY <1>2
  <2> HIDE DEF s
  <2>3. Len(s) \in Nat /\ Len(s) > 0 /\ DOMAIN s = 1 .. Len(s)
    BY <2>1, <2>2
  <2>4. /\ DOMAIN Front(s) = 1 .. Len(s) - 1 /\ \A i \in 1 .. Len(s) - 1 : Front(s)[i] = s[i]
    BY <2>1, <2>3 DEF Front
  <2>5. \A i \in 1 .. Len(s) - 1 : i \in DOMAIN s
    BY <2>3
  <2>6. ToSet(Front(s)) \subseteq ToSet(s)
    BY <2>4, <2>5 DEF ToSet
  <2> QED BY <2>6 DEF s
<1> QED BY <1>1, <1>2

\* compute(), whatever the node did before in its step.
LEMMA ComputeStepSearches ==
  ASSUME IInv, SearchInv, NEW n \in Node, NEW e \in Effects, Owns(n, e.local),
         Sound(e.local, Explored), Follows(comp[n], e.local),
         \A j \in Node : MailSound(e.out[j], Explored),
         NEW left, ComputeStep(n, e, left)
  PROVE  SearchInv' /\ SearchStep
<1> DEFINE found == AnnounceIfComputing(n, e)
<1>1. /\ TypeOK /\ e.local \in LocalState /\ e.out \in [Node -> Seq(Message)]
      /\ chan \in [Node -> [Node -> Seq(Message)]]
      /\ \A m, j \in Node : MailSound(chan[m][j], Explored)
      /\ e.local.bestMax = comp[n].bestMax /\ comp[n].bestFound \subseteq e.local.bestFound
      /\ comp[n].bestMax \subseteq Explored
  BY DEF IInv, TypeOK, Effects, SearchInv, Follows, Explored
<1>2. CASE e.local.states = <<>>
  <2>1. found \in Effects
    BY <1>2, AnnounceGood
  <2>2. /\ comp' = [comp EXCEPT ![n] = found.local] /\ chan' = Sent(n, found.out, chan)
    BY <1>2 DEF ComputeStep
  <2>3. /\ Sound(found.local, Explored) /\ found.local.bestMax = e.local.bestMax
        /\ e.local.bestFound \subseteq found.local.bestFound
        /\ \A j \in Node : MailSound(found.out[j], Explored)
    <3>1. e.local.bestMax \subseteq Explored
      BY <1>1
    <3> QED BY <3>1, AnnounceSound
  <2> HIDE DEF found
  <2>4. found.out \in [Node -> Seq(Message)]
    BY <2>1 DEF Effects
  <2>5. \A m, j \in Node : MailSound(chan'[m][j], Explored)
    BY <1>1, <2>2, <2>3, <2>4, SentSound
  <2>6. Explored = Explored \cup found.local.bestMax
    BY <1>1, <2>3
  <2> QED BY <1>1, <2>2, <2>3, <2>5, <2>6, NodeSearches
<1>3. CASE e.local.states # <<>>
  <2> DEFINE l == Explore(e.local)
             p == Last(e.local.states)
             S == Explored \cup {p}
  <2>1. comp' = [comp EXCEPT ![n] = l] /\ chan' = Sent(n, e.out, chan)
    BY <1>3 DEF ComputeStep
  <2>2. p \in ReachedFrom(Explored) /\ Sound(l, S) /\ l.bestFound = e.local.bestFound
    BY <1>1, <1>3, ExploreSound
  <2>3. l.bestMax = e.local.bestMax \cup {p}
    BY <1>1, <1>3, ExploreIs
  <2> HIDE DEF l, p
  <2>4. \A m, j \in Node : MailSound(chan'[m][j], Explored)
    BY <1>1, <2>1, SentSound
  <2>5. \A m, j \in Node : MailSound(chan'[m][j], S)
    BY <2>4, SoundGrows
  <2>6. S = Explored \cup l.bestMax
    BY <1>1, <2>3
  <2> HIDE DEF S
  <2> QED BY <1>1, <2>1, <2>2, <2>3, <2>5, <2>6, NodeSearches
<1> QED BY <1>2, <1>3

\* The handler of a message.
LEMMA HandleSound ==
  ASSUME IInv, NEW S, NEW n \in Node, NEW m \in Node, NEW msg \in Message,
         Sound(comp[n], S), MailSound(<<msg>>, S)
  PROVE  LET e == Handle(n, m, msg)
         IN  /\ Sound(e.local, S) /\ Follows(comp[n], e.local)
             /\ \A j \in Node : MailSound(e.out[j], S)
<1> DEFINE l == comp[n]
           e == Handle(n, m, msg)
<1>1. l \in LocalState /\ Owns(n, l)
  BY DEF IInv, TypeOK, NodeInv
<1>2. /\ msg.type = "STACK_ASSIGNMENT" => TableSound(msg.assign, S)
      /\ msg.type = "ASSIGNMENT_FINISHED" => msg.best \subseteq S
  BY ToSetSmall DEF MailSound
<1>3. MailSound(<<>>, S)
  BY ToSetSmall DEF MailSound
<1>4. ASSUME NEW k, e = Effect(k, Nothing), Sound(k, S), Follows(l, k)
      PROVE  Sound(e.local, S) /\ Follows(l, e.local) /\ \A j \in Node : MailSound(e.out[j], S)
  <2> HIDE DEF e
  <2>1. e.local = k /\ \A j \in Node : e.out[j] = <<>>
    BY <1>4 DEF Effect, Nothing
  <2> QED BY <1>3, <1>4, <2>1
<1> HIDE DEF l
<1>5. CASE msg.type = "STACK_ASSIGNMENT"
  <2>1. e = Effect(OnAssignment(n, l, msg.assign), Nothing)
    BY <1>5 DEF Handle, l
  <2>2. Sound(OnAssignment(n, l, msg.assign), S) /\ Follows(l, OnAssignment(n, l, msg.assign))
    BY <1>1, <1>2, <1>5, MessageContents, OnAssignmentSound DEF l
  <2> QED BY <1>4, <2>1, <2>2 DEF l
<1>6. CASE msg.type = "ASSIGNMENT_FINISHED"
  <2>1. e = Effect(OnAssignmentFinished(l, m, msg.best), Nothing)
    BY <1>6 DEF Handle, l
  <2>2. /\ Sound(OnAssignmentFinished(l, m, msg.best), S)
        /\ Follows(l, OnAssignmentFinished(l, m, msg.best))
    BY <1>1, <1>2, <1>6, OnAssignmentFinishedSound DEF l
  <2> QED BY <1>4, <2>1, <2>2 DEF l
<1>7. CASE msg.type = "DIVIDE_WITH"
  <2>1. e = OnDivideWith(n, l, msg.with)
    BY <1>7 DEF Handle, l
  <2> QED BY <1>1, <1>7, <2>1, MessageContents, OnDivideWithSound DEF l
<1>8. CASE msg.type = "TERMINATE"
  <2>1. e = Effect(OnTerminate(l), Nothing)
    BY <1>8 DEF Handle, l
  <2>2. Sound(OnTerminate(l), S) /\ Follows(l, OnTerminate(l))
    BY <1>1, OnTerminateSound DEF l
  <2> QED BY <1>4, <2>1, <2>2 DEF l
<1> QED BY <1>5, <1>6, <1>7, <1>8, MessageContents

\* A step of a process that explores nothing, whatever becomes of its messages.
LEMMA HandlerSearches ==
  ASSUME IInv, SearchInv, NEW n \in Node, NEW l, comp' = [comp EXCEPT ![n] = l],
         Sound(l, Explored), Follows(comp[n], l),
         \A m, j \in Node : MailSound(chan'[m][j], Explored)
  PROVE  SearchInv' /\ SearchStep
<1>1. comp[n].bestMax \subseteq Explored
  BY DEF Explored
<1>2. /\ comp[n].bestMax \subseteq l.bestMax
      /\ l.bestMax \subseteq comp[n].bestMax \cup ReachedFrom(Explored)
      /\ comp[n].bestFound \subseteq l.bestFound /\ Explored = Explored \cup l.bestMax
  BY <1>1 DEF Follows
<1> DEFINE S == Explored
<1>3. S = Explored \cup l.bestMax /\ Sound(l, S) /\ \A m, j \in Node : MailSound(chan'[m][j], S)
  BY <1>2
<1> HIDE DEF S
<1> QED BY <1>2, <1>3, NodeSearches

\* A step of a computation thread.
LEMMA ProcessSearches ==
  ASSUME IInv, SearchInv, NEW n \in Node, Process(n)
  PROVE  SearchInv' /\ SearchStep
<1> DEFINE l == comp[n]
<1>1. /\ TypeOK /\ l \in LocalState /\ Owns(n, l) /\ Sound(l, Explored)
      /\ pc[n] \notin {"init", "done", "dead"} => IdleEmpty(l)
      /\ chan \in [Node -> [Node -> Seq(Message)]]
      /\ \A m, j \in Node : MailSound(chan[m][j], Explored)
      /\ comp = [comp EXCEPT ![n] = l] /\ l.bestMax \subseteq Explored
  BY DEF IInv, TypeOK, NodeInv, SearchInv, Explored
<1>2. /\ Nothing \in [Node -> Seq(Message)]
      /\ \A j \in Node : MailSound(Nothing[j], Explored)
  <2>1. MailSound(<<>>, Explored)
    BY ToSetSmall DEF MailSound
  <2> QED BY <2>1, NothingType DEF Nothing
<1>3. ASSUME NEW m \in LocalState, Owns(n, m), Sound(m, Explored), Follows(l, m),
             NEW left, ComputeStep(n, Effect(m, Nothing), left)
      PROVE  SearchInv' /\ SearchStep
  <2> DEFINE e == Effect(m, Nothing)
  <2>1. /\ e \in Effects /\ e.local = m /\ e.out = Nothing
    BY <1>2, <1>3 DEF Effect, Effects
  <2>2. ComputeStep(n, e, left)
    BY <1>3
  <2> HIDE DEF e, l
  <2>3. Follows(comp[n], e.local)
    BY <1>3, <2>1 DEF l
  <2> QED BY <1>2, <1>3, <2>1, <2>2, <2>3, ComputeStepSearches
<1>4. Follows(l, l)
  BY DEF Follows
<1>5. \A i, j \in Node : MailSound(Unread(n)[i][j], Explored)
  BY <1>1, FewerMessages, MailLess
<1>6. ASSUME StartComputation(n)
      PROVE  SearchInv' /\ SearchStep
  <2>1. comp' = comp /\ chan' = chan
    BY <1>6 DEF StartComputation
  <2> QED BY <2>1, NetworkSearches
<1>7. ASSUME BeginInit(n)
      PROVE  SearchInv' /\ SearchStep
  <2> DEFINE m == [l EXCEPT !.state = "Waiting", !.states = @ \o Roots]
  <2>1. comp' = [comp EXCEPT ![n] = m] /\ chan' = chan /\ l.state = "Initial"
    BY <1>7 DEF BeginInit
  <2>2. /\ m.states = l.states \o Roots /\ m.curr = l.curr /\ m.bestFound = l.bestFound
        /\ m.bestMax = l.bestMax
    BY <1>1 DEF LocalState
  <2>3. l.states \in Seq(Path) /\ Roots \in Seq(Path)
    BY <1>1, JobAssumption DEF LocalState
  <2> DEFINE s == l.states
  <2>4. ToSet(s \o Roots) \subseteq ToSet(s) \cup ToSet(Roots)
    <3>1. s \in Seq(Path)
      BY <2>3
    <3> HIDE DEF s
    <3>2. \A i \in DOMAIN (s \o Roots) :
            \/ i \in DOMAIN s /\ (s \o Roots)[i] = s[i]
            \/ i - Len(s) \in DOMAIN Roots /\ (s \o Roots)[i] = Roots[i - Len(s)]
      BY <2>3, <3>1, ConcatIs
    <3> QED BY <3>2 DEF ToSet
  <2> HIDE DEF m
  <2>5. Sound(m, Explored)
    BY <1>1, <2>2, <2>4 DEF Sound, ReachedFrom
  <2>6. Follows(l, m)
    BY <2>1, <2>2 DEF Follows
  <2> QED BY <1>1, <2>1, <2>5, <2>6, HandlerSearches
<1>8. ASSUME ExploreFirst(n)
      PROVE  SearchInv' /\ SearchStep
  <2> DEFINE m == Explore(l)
             p == Last(l.states)
             S == Explored \cup {p}
  <2>1. l.states # <<>> /\ comp' = [comp EXCEPT ![n] = m] /\ chan' = chan
    BY <1>8 DEF ExploreFirst
  <2>2. p \in ReachedFrom(Explored) /\ Sound(m, S) /\ m.bestFound = l.bestFound
    BY <1>1, <2>1, ExploreSound
  <2>3. m.bestMax = l.bestMax \cup {p}
    BY <1>1, <2>1, ExploreIs
  <2> HIDE DEF m, p
  <2>4. \A i, j \in Node : MailSound(chan'[i][j], S)
    BY <1>1, <2>1, SoundGrows
  <2>5. S = Explored \cup m.bestMax
    BY <1>1, <2>3
  <2> HIDE DEF S
  <2> QED BY <1>1, <2>1, <2>2, <2>3, <2>4, <2>5, NodeSearches
<1>9. ASSUME DivideInit(n)
      PROVE  SearchInv' /\ SearchStep
  <2>1. PICK position \in [dealTo[n] -> 1 .. Cardinality(dealTo[n])] :
          LET jobs == DealtJobs(n, position)
          IN  ComputeStep(n,
                Effect(OnAssignment(n, comp[n], jobs),
                       [j \in Node |-> MessagesIf(j \in dealTo[n], StackAssignmentMsg(jobs))]),
                LoopCycles + 1)
    BY <1>9 DEF DivideInit
  <2> DEFINE jobs == DealtJobs(n, position)
             after == OnAssignment(n, l, jobs)
             msg == StackAssignmentMsg(jobs)
             out == [j \in Node |-> MessagesIf(j \in dealTo[n], msg)]
             e == Effect(after, out)
  <2>2. jobs \in Assignment /\ TableSound(jobs, Explored)
    BY <1>1, DealtJobsType, DealtSound
  <2>3. ComputeStep(n, e, LoopCycles + 1)
    BY <2>1
  <2>4. msg \in Message /\ MailSound(<<msg>>, Explored)
    <3>1. msg \in Message
      BY <2>2, MessageTypes
    <3> QED BY <2>2, <3>1, ToSetSmall DEF MailSound, StackAssignmentMsg
  <2> HIDE DEF jobs, msg
  <2>5. after \in LocalState /\ Owns(n, after) /\ Sound(after, Explored) /\ Follows(l, after)
    BY <1>1, <2>2, OnAssignmentIs, OnAssignmentSound
  <2>6. \A j \in Node : out[j] \in Seq(Message) /\ MailSound(out[j], Explored)
    <3> SUFFICES ASSUME NEW j \in Node
                 PROVE  out[j] \in Seq(Message) /\ MailSound(out[j], Explored)
      OBVIOUS
    <3> DEFINE P == j \in dealTo[n]
    <3>1. P \in BOOLEAN /\ out[j] = MessagesIf(P, msg)
      OBVIOUS
    <3> HIDE DEF P, out
    <3> QED BY <2>4, <3>1, MailIf
  <2>7. out \in [Node -> Seq(Message)]
    BY <2>6
  <2> HIDE DEF after, out
  <2>8. /\ e \in Effects /\ e.local = after /\ e.out = out
    BY <2>5, <2>7 DEF Effect, Effects
  <2> HIDE DEF e, l
  <2>9. Follows(comp[n], e.local)
    BY <2>5, <2>8 DEF l
  <2> QED BY <2>3, <2>5, <2>6, <2>8, <2>9, ComputeStepSearches
<1>10. ASSUME Loop(n)
       PROVE  SearchInv' /\ SearchStep
  <2>1. IdleEmpty(l)
    BY <1>1, <1>10 DEF Loop, Iterate, IterateAndClear, IterateAndCheck, MayIterate
  <2> DEFINE k == NonLeaderStep(l)
  <2>2. k \in LocalState /\ Owns(n, k) /\ Sound(k, Explored) /\ Follows(l, k)
    BY <1>1, <2>1, NonLeaderStepGood, NonLeaderSound
  <2>3. CASE Iterate(n)
    <3> DEFINE m == IF n \in leader THEN l ELSE k
    <3>1. m \in LocalState /\ Owns(n, m) /\ Sound(m, Explored) /\ Follows(l, m)
      BY <1>1, <1>4, <2>2
    <3>2. ComputeStep(n, Effect(m, Nothing), LoopCycles + 1)
      BY <2>3 DEF Iterate
    <3> HIDE DEF m
    <3> QED BY <1>3, <3>1, <3>2
  <2>4. CASE IterateAndClear(n)
    <3> DEFINE m == ClearDisconnected(n, k)
    <3>1. ComputeStep(n, Effect(m, Nothing), LoopCycles + 1)
      BY <2>4 DEF IterateAndClear
    <3> HIDE DEF k
    <3>2. /\ m \in LocalState /\ Owns(n, m) /\ Sound(m, Explored) /\ Follows(k, m)
          /\ m.state = k.state
      BY <2>2, ClearDisconnectedGood, NonLeaderSound
    <3>3. Follows(l, m)
      BY <2>2, <3>2 DEF Follows
    <3> HIDE DEF m
    <3> QED BY <1>3, <3>1, <3>2, <3>3
  <2>5. ASSUME NEW sync \in BOOLEAN, IterateAndCheck(n, sync)
        PROVE  SearchInv' /\ SearchStep
    <3> DEFINE e == CheckAssignments(n, l, sync)
    <3>1. e \in Effects /\ Owns(n, e.local)
      BY <1>1, <2>1, CheckAssignmentsGood
    <3>2. /\ Sound(e.local, Explored) /\ Follows(l, e.local)
          /\ \A j \in Node : MailSound(e.out[j], Explored)
      BY <1>1, CheckSound
    <3>3. IF e.local.state = "Aborted" THEN Abort(n, e.local)
                                       ELSE ComputeStep(n, e, LoopCycles + 1)
      BY <2>5 DEF IterateAndCheck
    <3> HIDE DEF e, l
    <3>4. Follows(comp[n], e.local)
      BY <3>2 DEF l
    <3>5. CASE e.local.state = "Aborted"
      <4>1. comp' = [comp EXCEPT ![n] = e.local] /\ chan' = Unread(n)
        BY <3>3, <3>5 DEF Abort
      <4>2. \A i, j \in Node : MailSound(chan'[i][j], Explored)
        BY <1>5, <4>1
      <4> QED BY <3>2, <3>4, <4>1, <4>2, HandlerSearches
    <3>6. CASE e.local.state # "Aborted"
      BY <3>1, <3>2, <3>3, <3>4, <3>6, ComputeStepSearches
    <3> QED BY <3>5, <3>6
  <2> QED BY <1>10, <2>3, <2>4, <2>5 DEF Loop
<1>11. ASSUME ContinueCompute(n)
       PROVE  SearchInv' /\ SearchStep
  <2>1. ComputeStep(n, Effect(l, Nothing), fuel[n])
    BY <1>11 DEF ContinueCompute
  <2> HIDE DEF l
  <2> QED BY <1>1, <1>3, <1>4, <2>1
<1>12. ASSUME NEW m \in Node, ReadMessage(n, m)
       PROVE  SearchInv' /\ SearchStep
  <2> DEFINE s == chan[m][n]
             msg == Head(s)
             e == Handle(n, m, msg)
             read == [chan EXCEPT ![m][n] = Tail(@)]
  <2>1. /\ pc[n] = "loop" /\ s # <<>>
        /\ IF e.local.state = "Aborted"
           THEN Abort(n, e.local)
           ELSE comp' = [comp EXCEPT ![n] = e.local] /\ chan' = Sent(n, e.out, read)
    BY <1>12 DEF ReadMessage
  <2>2. s \in Seq(Message) /\ MailSound(s, Explored)
    BY <1>1
  <2> HIDE DEF s
  <2>3. /\ Tail(s) \in Seq(Message) /\ msg \in Message
        /\ ToSet(Tail(s)) \subseteq ToSet(s) /\ msg \in ToSet(s)
    BY <2>1, <2>2, TailSet
  <2>4. ToSet(<<msg>>) = {msg}
    BY ToSetSmall
  <2>5. MailSound(Tail(s), Explored) /\ MailSound(<<msg>>, Explored)
    BY <2>2, <2>3, <2>4, MailLess
  <2> HIDE DEF msg
  <2>6. e \in Effects
    BY <2>1, <2>3, HandleGood
  <2>7. /\ Sound(e.local, Explored) /\ Follows(comp[n], e.local)
        /\ \A j \in Node : MailSound(e.out[j], Explored)
    BY <1>1, <2>3, <2>5, HandleSound
  <2>8. /\ read \in [Node -> [Node -> Seq(Message)]]
        /\ \A i, j \in Node : read[i][j] = IF i = m /\ j = n THEN Tail(s) ELSE chan[i][j]
    BY <1>1, <2>3 DEF s
  <2>9. \A i, j \in Node : MailSound(read[i][j], Explored)
    BY <1>1, <2>5, <2>8
  <2> HIDE DEF e, read
  <2>10. e.out \in [Node -> Seq(Message)]
    BY <2>6 DEF Effects
  <2>11. CASE e.local.state = "Aborted"
    <3>1. comp' = [comp EXCEPT ![n] = e.local] /\ chan' = Unread(n)
      BY <2>1, <2>11 DEF Abort
    <3>2. \A i, j \in Node : MailSound(chan'[i][j], Explored)
      BY <1>5, <3>1
    <3> QED BY <2>7, <3>1, <3>2, HandlerSearches
  <2>12. CASE e.local.state # "Aborted"
    <3>1. comp' = [comp EXCEPT ![n] = e.local] /\ chan' = Sent(n, e.out, read)
      BY <2>1, <2>12
    <3>2. \A i, j \in Node : MailSound(chan'[i][j], Explored)
      BY <2>7, <2>8, <2>9, <2>10, <3>1, SentSound
    <3> QED BY <2>7, <3>1, <3>2, HandlerSearches
  <2> QED BY <2>11, <2>12
<1>13. ASSUME EndLoop(n)
       PROVE  SearchInv' /\ SearchStep
  <2>1. comp' = comp /\ chan' = Unread(n)
    BY <1>13 DEF EndLoop
  <2> QED BY <1>1, <2>1, FewerMessages, NetworkSearches
<1>14. ASSUME SeeFinished(n)
       PROVE  SearchInv' /\ SearchStep
  <2>1. comp' = comp /\ chan' = chan
    BY <1>14 DEF SeeFinished
  <2> QED BY <2>1, NetworkSearches
<1>15. ASSUME Terminate(n)
       PROVE  SearchInv' /\ SearchStep
  <2> DEFINE m == OnTerminate(l)
  <2>1. comp' = [comp EXCEPT ![n] = m] /\ chan' = chan
    BY <1>15 DEF Terminate, OnTerminate
  <2>2. Sound(m, Explored) /\ Follows(l, m)
    BY <1>1, OnTerminateSound
  <2> HIDE DEF m
  <2> QED BY <1>1, <2>1, <2>2, HandlerSearches
<1> QED
  BY <1>6, <1>7, <1>8, <1>9, <1>10, <1>11, <1>12, <1>13, <1>14, <1>15 DEF Process, Read

\* A step explores only what is reached, and forgets no result.
LEMMA StepSearches ==
  ASSUME IInv, SearchInv, [Next]_vars
  PROVE  SearchInv' /\ SearchStep
<1>1. ASSUME comp' = comp, chan' = chan
      PROVE  SearchInv' /\ SearchStep
  BY <1>1, NetworkSearches
<1>2. CASE UNCHANGED vars \/ AllStopped
  BY <1>1, <1>2 DEF vars, AllStopped
<1>3. CASE \E n \in Node : Process(n)
  BY <1>3, ProcessSearches
<1>4. CASE Network
  <2>1. ASSUME NEW n \in Node, Elect(n)
        PROVE  SearchInv' /\ SearchStep
    BY <1>1, <2>1 DEF Elect
  <2>2. ASSUME NEW i \in Node, NEW j \in Node, Connect(i, j)
        PROVE  SearchInv' /\ SearchStep
    BY <1>1, <2>2 DEF Connect
  <2>3. ASSUME NEW n \in Node, Crash(n)
        PROVE  SearchInv' /\ SearchStep
    <3>1. comp' = comp /\ chan' = Unread(n)
      BY <2>3 DEF Crash
    <3> QED BY <3>1, FewerMessages, NetworkSearches DEF IInv
  <2>4. ASSUME NEW n \in Node, NEW j \in Node, LoseLast(n, j)
        PROVE  SearchInv' /\ SearchStep
    <3>1. comp' = comp /\ chan[n][j] # <<>> /\ chan' = [chan EXCEPT ![n][j] = Front(@)]
      BY <2>4 DEF LoseLast
    <3>2. ToSet(Front(chan[n][j])) \subseteq ToSet(chan[n][j])
      BY <3>1, FewerMessages DEF IInv
    <3>3. \A i, k \in Node : chan'[i][k] = IF i = n /\ k = j THEN Front(chan[n][j]) ELSE chan[i][k]
      BY <3>1 DEF IInv, TypeOK
    <3>4. \A i, k \in Node : ToSet(chan'[i][k]) \subseteq ToSet(chan[i][k])
      BY <3>2, <3>3
    <3> QED BY <3>1, <3>4, NetworkSearches
  <2>5. ASSUME NEW n \in Node, NEW j \in Node, Disconnect(j, n)
        PROVE  SearchInv' /\ SearchStep
    BY <1>1, <2>5 DEF Disconnect
  <2> QED BY <1>4, <2>1, <2>2, <2>3, <2>4, <2>5 DEF Network
<1> QED BY <1>2, <1>3, <1>4 DEF Next

\* Initially there is nothing.
LEMMA SearchInit ==
  ASSUME Init
  PROVE  SearchInv /\ Explored = {}
<1>1. \A n \in Node : comp[n] = InitLocal
  BY DEF Init
<1>2. Explored = {}
  BY <1>1 DEF Explored, InitLocal
<1>3. NoAssignment \in Assignment
  BY DEF NoAssignment, Assignment
<1>4. \A c \in Node : Job(NoAssignment, c) = <<>>
  BY DEF Job, NoAssignment
<1>5. Sound(InitLocal, Explored)
  BY <1>4, ToSetSmall DEF Sound, InitLocal, TableSound
<1>6. MailSound(<<>>, Explored)
  BY ToSetSmall DEF MailSound
<1>7. \A m, n \in Node : chan[m][n] = <<>>
  BY DEF Init
<1> QED BY <1>1, <1>2, <1>5, <1>6, <1>7 DEF SearchInv

\* What is reached from a part of the whole job is in it.
LEMMA ReachedInJob ==
  ASSUME NEW S, S \subseteq WholeJob
  PROVE  ReachedFrom(S) \subseteq WholeJob
<1>1. \A i \in DOMAIN Roots : Roots[i] \in Path
  BY JobAssumption
<1>2. \A x : x \in WholeJob <=> \E i \in DOMAIN Roots : x \in Subtree[Roots[i]]
  BY WorkOf DEF WholeJob
<1>3. ToSet(Roots) \subseteq WholeJob
  BY <1>1, <1>2, SubtreeIs DEF ToSet
<1>4. ASSUME NEW x \in WholeJob
      PROVE  ToSet(Children[x]) \subseteq WholeJob
  <2>1. PICK i \in DOMAIN Roots : x \in Subtree[Roots[i]]
    BY <1>2
  <2>2. ToSet(Children[x]) \subseteq Subtree[Roots[i]]
    BY <1>1, <2>1, SubtreeIs
  <2> QED BY <1>2, <2>2
<1> QED BY <1>3, <1>4 DEF ReachedFrom

\* All that has ever been explored belongs to the job, and all the results are results
\* of paths that some node has explored.
ResultsAreExplored ==
  /\ Explored \subseteq WholeJob
  /\ \A n \in Node : comp[n].bestFound \subseteq Explored

\* What WorkPool asks of the paths explored: nothing but what the search reaches is
\* explored, and nothing is taken back.
ExploresReached ==
  [][Explored \subseteq Explored' /\ Explored' \subseteq Explored \cup Pool!Reached(Explored)]_vars

\* The abstract specification means the same by "reached".
LEMMA PoolReached ==
  ASSUME NEW S
  PROVE  Pool!Reached(S) = ReachedFrom(S)
BY DEF Pool!Reached, ReachedFrom, Pool!ToSet, ToSet

\* The invariant of the search.
LEMMA SearchInvariance == Spec => [](IInv /\ SearchInv /\ Explored \subseteq WholeJob)
<1>1. Init => IInv /\ SearchInv /\ Explored \subseteq WholeJob
  BY InitInv, SearchInit
<1>2. IInv /\ SearchInv /\ Explored \subseteq WholeJob /\ [Next]_vars
        => (IInv /\ SearchInv /\ Explored \subseteq WholeJob)'
  <2> SUFFICES ASSUME IInv, SearchInv, Explored \subseteq WholeJob, [Next]_vars
               PROVE  IInv' /\ SearchInv' /\ Explored' \subseteq WholeJob
    BY DEF WholeJob, WorkIn, Subtree, ToSet
  <2>1. SearchInv' /\ SearchStep
    BY StepSearches
  <2>2. Explored' \subseteq WholeJob
    BY <2>1, ReachedInJob DEF SearchStep
  <2> QED BY <2>1, <2>2, StepInv
<1> QED BY <1>1, <1>2, PTL DEF Spec

-----------------------------------------------------------------------------
(* The job is a tree *)

\* The paths of MaximumCut are sequences of vertices; compute() pushes paths that are
\* the popped one and one vertex more, a different one each; PopulateStates() pushes
\* one path for each vertex.
AllDiffer(s) == \A i, j \in DOMAIN s : s[i] = s[j] => i = j
Begins(p, q) == Len(p) <= Len(q) /\ \A k \in 1 .. Len(p) : q[k] = p[k]

PathsGrow ==
  /\ \E V : Path \subseteq Seq(V)
  /\ AllDiffer(Roots) /\ \A i \in DOMAIN Roots : Len(Roots[i]) = 1
  /\ \A p \in Path : /\ AllDiffer(Children[p])
                     /\ \A i \in DOMAIN Children[p] :
                          Len(Children[p][i]) = Len(p) + 1 /\ Begins(p, Children[p][i])

\* What is reached from a path begins with it.
LEMMA SubtreeBegins ==
  ASSUME PathsGrow, NEW p \in Path, NEW q \in Subtree[p]
  PROVE  q \in Path /\ Begins(p, q)
<1> DEFINE C == {x \in Path : Begins(p, x)}
<1>1. \A x \in Path : Len(x) \in Nat
  <2>1. PICK V : Path \subseteq Seq(V)
    BY DEF PathsGrow
  <2> QED BY <2>1
<1>2. p \in C
  BY <1>1 DEF Begins
<1>3. ASSUME NEW x \in C, NEW y \in ToSet(Children[x])
      PROVE  y \in C
  <2>1. Children[x] \in Seq(Path)
    BY JobAssumption
  <2>2. PICK i \in DOMAIN Children[x] : y = Children[x][i]
    BY <2>1 DEF ToSet
  <2>3. y \in Path
    BY <2>1, <2>2
  <2>4. Len(y) = Len(x) + 1 /\ Begins(x, y)
    BY <2>2 DEF PathsGrow
  <2>5. Begins(p, x)
    OBVIOUS
  <2>6. Len(p) \in Nat /\ Len(x) \in Nat /\ Len(y) \in Nat
    BY <1>1, <2>3
  <2>7. Len(p) <= Len(y) /\ \A k \in 1 .. Len(p) : k \in 1 .. Len(x)
    BY <2>4, <2>5, <2>6 DEF Begins
  <2>8. \A k \in 1 .. Len(p) : y[k] = p[k]
    BY <2>4, <2>5, <2>7 DEF Begins
  <2> QED BY <2>3, <2>7, <2>8 DEF Begins
<1>4. C \in SUBSET Path /\ \A x \in C : ToSet(Children[x]) \subseteq C
  BY <1>3
<1>5. Subtree[p] \subseteq C
  BY <1>2, <1>4, SubtreeIs
<1> QED BY <1>5

\* Nothing begins with two paths of one length.
LEMMA SubtreesApart ==
  ASSUME PathsGrow, NEW p \in Path, NEW r \in Path, Len(p) = Len(r), p # r
  PROVE  Subtree[p] \cap Subtree[r] = {}
<1>1. PICK V : Path \subseteq Seq(V)
  BY DEF PathsGrow
<1> SUFFICES ASSUME NEW q \in Subtree[p], q \in Subtree[r]
             PROVE  FALSE
  OBVIOUS
<1>2. Begins(p, q) /\ Begins(r, q)
  BY SubtreeBegins
<1>3. p \in Seq(V) /\ r \in Seq(V)
  BY <1>1
<1>4. \A k \in 1 .. Len(p) : p[k] = r[k]
  BY <1>2 DEF Begins
<1> QED BY <1>3, <1>4

\* Such a job is a tree: what it reaches from two paths that one step makes is apart,
\* and it never comes back to a path.
LEMMA GrowingIsATree ==
  ASSUME PathsGrow
  PROVE  TreeJob
<1>1. ASSUME NEW s \in Seq(Path), AllDiffer(s), NEW n, \A i \in DOMAIN s : Len(s[i]) = n
      PROVE  Apart(s)
  <2> SUFFICES ASSUME NEW i \in DOMAIN s, NEW j \in DOMAIN s, i # j
               PROVE  Subtree[s[i]] \cap Subtree[s[j]] = {}
    BY DEF Apart
  <2>1. s[i] \in Path /\ s[j] \in Path
    OBVIOUS
  <2>2. s[i] # s[j] /\ Len(s[i]) = Len(s[j])
    BY <1>1 DEF AllDiffer
  <2> QED BY <2>1, <2>2, SubtreesApart
<1>2. Apart(Roots)
  BY <1>1, JobAssumption DEF PathsGrow
<1>3. ASSUME NEW p \in Path
      PROVE  Apart(Children[p]) /\ p \notin WorkIn(Children[p])
  <2>1. /\ Children[p] \in Seq(Path) /\ AllDiffer(Children[p])
        /\ \A i \in DOMAIN Children[p] : Len(Children[p][i]) = Len(p) + 1
    BY JobAssumption DEF PathsGrow
  <2>2. Apart(Children[p])
    BY <1>1, <2>1
  <2>3. ASSUME NEW i \in DOMAIN Children[p], p \in Subtree[Children[p][i]]
        PROVE  FALSE
    <3>1. PICK V : Path \subseteq Seq(V)
      BY DEF PathsGrow
    <3>2. Children[p][i] \in Path
      BY <2>1
    <3>3. Len(Children[p][i]) <= Len(p)
      BY <2>3, <3>2, SubtreeBegins DEF Begins
    <3>4. Len(p) \in Nat
      BY <3>1
    <3> QED BY <2>1, <3>3, <3>4
  <2> QED BY <2>2, <2>3, WorkOf
<1> QED BY <1>2, <1>3 DEF TreeJob

-----------------------------------------------------------------------------
(* Sums over finite sets *)

\* A nonempty set of subsets of a finite set has a smallest one: what proofs by
\* induction over finite sets come down to here.
LEMMA LeastSet ==
  ASSUME NEW S, IsFiniteSet(S), NEW B, B \subseteq SUBSET S, B # {}
  PROVE  \E T \in B : \A U \in B : U \subseteq T => U = T
<1>1. FiniteSubsetsOf(S) = SUBSET S
  BY FS_FiniteSubsetsOfFinite
<1>2. IsWellFoundedOn(StrictSubsetOrdering(S), FiniteSubsetsOf(S))
  BY FS_StrictSubsetOrderingWellFounded
<1>3. PICK T \in B : \A U \in B : <<U, T>> \notin StrictSubsetOrdering(S)
  BY <1>1, <1>2, WFMin
<1>4. ASSUME NEW U \in B, U \subseteq T
      PROVE  U = T
  <2>1. <<U, T>> \notin StrictSubsetOrdering(S) /\ U \in SUBSET S /\ T \in SUBSET S
    BY <1>3
  <2> QED BY <1>4, <2>1 DEF StrictSubsetOrdering
<1> QED BY <1>4

\* The element a fold of a set takes next; the sums of g over the subsets of S, as the
\* fold adds them up; and the sum of g over S.
Picked(s) == CHOOSE x \in s : TRUE

AddsUp(g, S, F) ==
  F = [s \in SUBSET S |-> IF s = {} THEN 0 ELSE g[Picked(s)] + F[s \ {Picked(s)}]]

Total(g, S) == (CHOOSE F : AddsUp(g, S, F))[S]

\* It is one of them.
LEMMA PickedIs ==
  ASSUME NEW s, s # {}
  PROVE  Picked(s) \in s
BY DEF Picked

\* Two ways to write the sums down agree where both do.
LEMMA SumsAgree ==
  ASSUME NEW g, NEW S, IsFiniteSet(S), NEW F, AddsUp(g, S, F),
         NEW T \in SUBSET S, NEW G, AddsUp(g, T, G)
  PROVE  \A s \in SUBSET T : F[s] = G[s]
<1> DEFINE B == {s \in SUBSET T : F[s] # G[s]}
<1>1. ASSUME NEW s \in SUBSET T
      PROVE  /\ F[s] = IF s = {} THEN 0 ELSE g[Picked(s)] + F[s \ {Picked(s)}]
             /\ G[s] = IF s = {} THEN 0 ELSE g[Picked(s)] + G[s \ {Picked(s)}]
  <2>1. s \in SUBSET S
    OBVIOUS
  <2>2. F = [x \in SUBSET S |-> IF x = {} THEN 0 ELSE g[Picked(x)] + F[x \ {Picked(x)}]]
    BY DEF AddsUp
  <2>3. G = [x \in SUBSET T |-> IF x = {} THEN 0 ELSE g[Picked(x)] + G[x \ {Picked(x)}]]
    BY DEF AddsUp
  <2>4. F[s] = IF s = {} THEN 0 ELSE g[Picked(s)] + F[s \ {Picked(s)}]
    BY ONLY <2>1, <2>2
  <2>5. G[s] = IF s = {} THEN 0 ELSE g[Picked(s)] + G[s \ {Picked(s)}]
    BY ONLY s \in SUBSET T, <2>3
  <2> QED BY <2>4, <2>5
<1> SUFFICES ASSUME B # {}
             PROVE  FALSE
  OBVIOUS
<1>2. IsFiniteSet(T)
  BY FS_Subset
<1>3. PICK s \in B : \A u \in B : u \subseteq s => u = s
  <2>1. B \subseteq SUBSET T
    OBVIOUS
  <2> HIDE DEF B
  <2> QED BY <1>2, <2>1, LeastSet
<1>4. s # {}
  BY <1>1
<1>5. Picked(s) \in s
  BY <1>4, PickedIs
<1>6. s \ {Picked(s)} \notin B
  BY <1>3, <1>5
<1>7. F[s \ {Picked(s)}] = G[s \ {Picked(s)}]
  BY <1>6
<1> QED BY <1>1, <1>4, <1>7

\* There is such a function, which a CHOOSE then finds.
LEMMA SumsExist ==
  ASSUME NEW g, NEW S, IsFiniteSet(S)
  PROVE  \E F : AddsUp(g, S, F)
<1> DEFINE B == {T \in SUBSET S : ~ \E F : AddsUp(g, T, F)}
<1> SUFFICES ASSUME B # {}
             PROVE  FALSE
  OBVIOUS
<1>1. PICK T \in B : \A U \in B : U \subseteq T => U = T
  <2>1. B \subseteq SUBSET S
    OBVIOUS
  <2> HIDE DEF B
  <2> QED BY <2>1, LeastSet
<1>2. T \in SUBSET S /\ IsFiniteSet(T)
  BY FS_Subset
<1> DEFINE Below(s) == CHOOSE F : AddsUp(g, s, F)
           x == Picked(T)
           Value(s) == IF s # T THEN Below(s)[s]
                       ELSE IF T = {} THEN 0 ELSE g[x] + Below(T \ {x})[T \ {x}]
           F == [s \in SUBSET T |-> Value(s)]
<1>3. ASSUME NEW s \in SUBSET T, s # T
      PROVE  AddsUp(g, s, Below(s))
  <2>1. \E G : AddsUp(g, s, G)
    BY <1>1, <1>2, <1>3
  <2> QED BY <2>1
<1> HIDE DEF Below
<1>4. ASSUME NEW s \in SUBSET T, s # T, NEW u \in SUBSET s
      PROVE  Below(s)[u] = Below(u)[u]
  <2>1. IsFiniteSet(s) /\ u \in SUBSET T /\ u # T
    BY <1>2, <1>4, FS_Subset
  <2>2. AddsUp(g, s, Below(s)) /\ AddsUp(g, u, Below(u))
    BY <1>3, <1>4, <2>1
  <2> QED BY <2>1, <2>2, SumsAgree
<1>5. ASSUME NEW s \in SUBSET T, s # {}
      PROVE  /\ Picked(s) \in s /\ s \ {Picked(s)} \in SUBSET T /\ s \ {Picked(s)} # T
             /\ F[s \ {Picked(s)}] = Below(s \ {Picked(s)})[s \ {Picked(s)}]
  <2>1. Picked(s) \in s
    BY <1>5, PickedIs
  <2> QED BY <2>1
<1>6. ASSUME NEW s \in SUBSET T
      PROVE  Value(s) = IF s = {} THEN 0 ELSE g[Picked(s)] + F[s \ {Picked(s)}]
  <2>1. CASE s = T
    BY <1>5, <2>1
  <2>2. CASE s # T
    <3>1. AddsUp(g, s, Below(s)) /\ s \in SUBSET s
      BY <1>3, <2>2
    <3>2. Below(s) = [u \in SUBSET s |-> IF u = {} THEN 0 ELSE g[Picked(u)] + Below(s)[u \ {Picked(u)}]]
      BY <3>1 DEF AddsUp
    <3>3. Below(s)[s] = IF s = {} THEN 0 ELSE g[Picked(s)] + Below(s)[s \ {Picked(s)}]
      BY ONLY <3>1, <3>2
    <3>4. Value(s) = Below(s)[s]
      BY <2>2
    <3>5. ASSUME s # {}
          PROVE  Below(s)[s \ {Picked(s)}] = F[s \ {Picked(s)}]
      BY <1>4, <1>5, <2>2, <3>5
    <3> HIDE DEF F, Value
    <3> QED BY <3>3, <3>4, <3>5
  <2> QED BY <2>1, <2>2
<1>7. AddsUp(g, T, F)
  <2>1. F = [s \in SUBSET T |-> Value(s)]
    OBVIOUS
  <2> HIDE DEF F, Value
  <2>2. F = [s \in SUBSET T |-> IF s = {} THEN 0 ELSE g[Picked(s)] + F[s \ {Picked(s)}]]
    BY <1>6, <2>1
  <2> QED BY <2>2 DEF AddsUp
<1> QED BY <1>1, <1>7

\* So the sum is what the recursion says, whichever function is taken.
LEMMA TotalIs ==
  ASSUME NEW g, NEW S, IsFiniteSet(S)
  PROVE  /\ \A F : AddsUp(g, S, F) => F[S] = Total(g, S)
         /\ Total(g, S) = IF S = {} THEN 0 ELSE g[Picked(S)] + Total(g, S \ {Picked(S)})
<1> DEFINE A == CHOOSE F : AddsUp(g, S, F)
           T == S \ {Picked(S)}
           C == CHOOSE F : AddsUp(g, T, F)
<1>1. AddsUp(g, S, A)
  BY SumsExist
<1>2. IsFiniteSet(T) /\ T \in SUBSET S /\ T \in SUBSET T /\ S \in SUBSET S
  BY FS_Subset
<1>3. AddsUp(g, T, C)
  BY <1>2, SumsExist
<1>4. Total(g, S) = A[S] /\ Total(g, T) = C[T]
  BY DEF Total
<1> HIDE DEF A, C
<1> HIDE DEF T
<1>5. A[T] = C[T]
  <2>1. T \in SUBSET S /\ T \in SUBSET T
    BY <1>2
  <2>2. \A s \in SUBSET T : A[s] = C[s]
    BY ONLY IsFiniteSet(S), <1>1, <1>3, <2>1, SumsAgree
  <2> QED BY <2>1, <2>2
<1>6. A = [s \in SUBSET S |-> IF s = {} THEN 0 ELSE g[Picked(s)] + A[s \ {Picked(s)}]]
  BY <1>1 DEF AddsUp
<1>7. A[S] = IF S = {} THEN 0 ELSE g[Picked(S)] + A[T]
  BY ONLY <1>2, <1>6 DEF T
<1>8. \A F : AddsUp(g, S, F) => F[S] = A[S]
  BY <1>1, <1>2, SumsAgree
<1> QED BY <1>4, <1>5, <1>7, <1>8 DEF T

\* A sum of numbers is a number.
LEMMA TotalType ==
  ASSUME NEW g, NEW S, IsFiniteSet(S), \A x \in S : g[x] \in Nat
  PROVE  Total(g, S) \in Nat
<1> DEFINE B == {T \in SUBSET S : Total(g, T) \notin Nat}
<1> SUFFICES ASSUME B # {}
             PROVE  FALSE
  BY S \in SUBSET S
<1>1. B \subseteq SUBSET S
  OBVIOUS
<1>2. PICK T \in B : \A U \in B : U \subseteq T => U = T
  <2> HIDE DEF B
  <2> QED BY <1>1, LeastSet
<1>3. IsFiniteSet(T) /\ T \in SUBSET S
  BY FS_Subset
<1>4. Total(g, T) = IF T = {} THEN 0 ELSE g[Picked(T)] + Total(g, T \ {Picked(T)})
  BY <1>3, TotalIs
<1>5. ASSUME T # {}
      PROVE  Picked(T) \in T /\ Total(g, T \ {Picked(T)}) \in Nat
  <2>1. Picked(T) \in T
    BY <1>5, PickedIs
  <2> QED BY <1>2, <2>1
<1>6. T # {} => g[Picked(T)] \in Nat
  BY <1>5
<1> QED BY <1>2, <1>4, <1>5, <1>6

\* Any element can be taken out of a sum, and not only the one a fold takes.
LEMMA TotalTake ==
  ASSUME NEW g, NEW S, IsFiniteSet(S), \A x \in S : g[x] \in Nat, NEW x \in S
  PROVE  Total(g, S) = g[x] + Total(g, S \ {x})
<1> DEFINE B == {T \in SUBSET S : \E y \in T : Total(g, T) # g[y] + Total(g, T \ {y})}
<1> SUFFICES ASSUME B # {}
             PROVE  FALSE
  BY S \in SUBSET S
<1>1. B \subseteq SUBSET S
  OBVIOUS
<1>2. PICK T \in B : \A U \in B : U \subseteq T => U = T
  <2> HIDE DEF B
  <2> QED BY <1>1, LeastSet
<1>3. PICK y \in T : Total(g, T) # g[y] + Total(g, T \ {y})
  BY <1>2
<1> DEFINE p == Picked(T)
<1>4. p \in T
  BY PickedIs
<1> HIDE DEF p
<1>5. IsFiniteSet(T) /\ T \in SUBSET S
  BY FS_Subset
<1>6. Total(g, T) = g[p] + Total(g, T \ {p})
  BY <1>4, <1>5, TotalIs DEF p
<1>7. y # p
  BY <1>3, <1>6
<1>8. T \ {p} \notin B /\ T \ {y} \notin B
  BY <1>2, <1>4
<1>9. Total(g, T \ {p}) = g[y] + Total(g, (T \ {p}) \ {y})
  BY <1>7, <1>8
<1>10. Total(g, T \ {y}) = g[p] + Total(g, (T \ {y}) \ {p})
  BY <1>4, <1>7, <1>8
<1> DEFINE R == (T \ {p}) \ {y}
<1>11. R = (T \ {y}) \ {p} /\ R \in SUBSET S
  OBVIOUS
<1>12. IsFiniteSet(R) /\ \A z \in R : g[z] \in Nat
  BY <1>11, FS_Subset
<1>13. Total(g, R) \in Nat /\ g[p] \in Nat /\ g[y] \in Nat
  BY <1>4, <1>12, TotalType
<1> HIDE DEF R, B
<1> QED BY <1>3, <1>6, <1>9, <1>10, <1>11, <1>13 DEF R

\* Sums of the same numbers are the same.
LEMMA TotalSame ==
  ASSUME NEW g, NEW h, NEW S, IsFiniteSet(S), \A x \in S : g[x] = h[x]
  PROVE  Total(g, S) = Total(h, S)
<1> DEFINE B == {T \in SUBSET S : Total(g, T) # Total(h, T)}
<1> SUFFICES ASSUME B # {}
             PROVE  FALSE
  BY S \in SUBSET S
<1>1. B \subseteq SUBSET S
  OBVIOUS
<1>2. PICK T \in B : \A U \in B : U \subseteq T => U = T
  <2> HIDE DEF B
  <2> QED BY <1>1, LeastSet
<1>3. IsFiniteSet(T) /\ T \in SUBSET S
  BY FS_Subset
<1> DEFINE p == Picked(T)
<1>4. /\ Total(g, T) = IF T = {} THEN 0 ELSE g[p] + Total(g, T \ {p})
      /\ Total(h, T) = IF T = {} THEN 0 ELSE h[p] + Total(h, T \ {p})
  BY <1>3, TotalIs
<1>5. T # {} => p \in T
  BY PickedIs
<1> HIDE DEF p
<1>6. T # {} => g[p] = h[p] /\ T \ {p} \notin B
  BY <1>2, <1>5
<1>7. T # {} => Total(g, T \ {p}) = Total(h, T \ {p})
  BY <1>6
<1> QED BY <1>2, <1>4, <1>6, <1>7

\* The sum over two sets that are apart is the sum over each.
LEMMA TotalJoin ==
  ASSUME NEW g, NEW S, NEW T, IsFiniteSet(S), IsFiniteSet(T), S \cap T = {},
         \A x \in S \cup T : g[x] \in Nat
  PROVE  Total(g, S \cup T) = Total(g, S) + Total(g, T)
<1> DEFINE B == {U \in SUBSET T : Total(g, S \cup U) # Total(g, S) + Total(g, U)}
<1> SUFFICES ASSUME B # {}
             PROVE  FALSE
  BY T \in SUBSET T
<1>1. B \subseteq SUBSET T
  OBVIOUS
<1>2. PICK U \in B : \A V \in B : V \subseteq U => V = U
  <2> HIDE DEF B
  <2> QED BY <1>1, LeastSet
<1>3. IsFiniteSet(U) /\ U \in SUBSET T /\ IsFiniteSet(S \cup U)
  BY FS_Subset, FS_Union
<1>4. Total(g, S) \in Nat
  BY TotalType
<1>5. CASE U = {}
  <2>1. Total(g, U) = 0
    BY <1>3, <1>5, TotalIs
  <2>2. S \cup U = S
    BY <1>5
  <2>3. Total(g, S \cup U) # Total(g, S) + Total(g, U)
    BY <1>2
  <2>4. Total(g, S \cup U) = Total(g, S)
    BY <2>2
  <2> HIDE DEF B
  <2> QED BY ONLY <1>4, <2>1, <2>3, <2>4
<1>6. CASE U # {}
  <2>1. PICK x \in U : TRUE
    BY <1>6
  <2> DEFINE R == U \ {x}
  <2>2. R \notin B /\ R \in SUBSET T
    BY <1>2, <2>1
  <2>3. Total(g, S \cup R) = Total(g, S) + Total(g, R)
    BY <2>2
  <2>4. /\ \A y \in S \cup U : g[y] \in Nat
        /\ \A y \in U : g[y] \in Nat
        /\ \A y \in R : g[y] \in Nat
    BY <1>3
  <2>5. x \in S \cup U /\ (S \cup U) \ {x} = S \cup R
    OBVIOUS
  <2>6. IsFiniteSet(R)
    BY <2>2, FS_Subset
  <2> HIDE DEF R, B
  <2>7. Total(g, S \cup U) = g[x] + Total(g, S \cup R)
    BY <1>3, <2>4, <2>5, TotalTake
  <2>8. Total(g, U) = g[x] + Total(g, R)
    BY <1>3, <2>4, TotalTake DEF R
  <2>9. g[x] \in Nat /\ Total(g, R) \in Nat
    BY <2>4, <2>6, TotalType
  <2>10. Total(g, S \cup U) # Total(g, S) + Total(g, U)
    BY <1>2 DEF B
  <2> QED BY <1>4, <2>3, <2>7, <2>8, <2>9, <2>10
<1> QED BY <1>5, <1>6

\* The arcs of a grid are added up by row: that is what the two loops of Matrix::sum()
\* do.  Those without a weight need not be looked at.
ByRow(w, W, V) == Total([t \in W |-> Total([j \in V |-> w[<<t, j>>]], V)], W)

\* One row
LEMMA RowTotal ==
  ASSUME NEW w, NEW t, NEW V, IsFiniteSet(V), \A j \in V : w[<<t, j>>] \in Nat
  PROVE  Total(w, {a \in {t} \X V : w[a] > 0}) = Total([j \in V |-> w[<<t, j>>]], V)
<1> DEFINE R(U) == {a \in {t} \X U : w[a] > 0}
           r == [j \in V |-> w[<<t, j>>]]
           B == {U \in SUBSET V : Total(w, R(U)) # Total(r, U)}
<1> SUFFICES ASSUME B # {}
             PROVE  FALSE
  BY V \in SUBSET V
<1>1. B \subseteq SUBSET V
  OBVIOUS
<1>2. PICK U \in B : \A T \in B : T \subseteq U => T = U
  <2> HIDE DEF B
  <2> QED BY <1>1, LeastSet
<1>3. IsFiniteSet(U) /\ U \in SUBSET V /\ IsFiniteSet({t} \X U)
  <2>1. IsFiniteSet(U) /\ IsFiniteSet({t})
    BY FS_Subset, FS_Singleton
  <2> QED BY <2>1, FS_Product
<1>4. IsFiniteSet(R(U)) /\ \A a \in R(U) : w[a] \in Nat
  <2>1. R(U) \in SUBSET ({t} \X U)
    OBVIOUS
  <2>2. \A a \in {t} \X U : a = <<t, a[2]>> /\ a[2] \in V
    OBVIOUS
  <2> QED BY <1>3, <2>1, <2>2, FS_Subset
<1>5. \A j \in U : r[j] = w[<<t, j>>] /\ r[j] \in Nat
  BY <1>3
<1>6. Total(w, R(U)) # Total(r, U)
  BY <1>2
<1>7. CASE U = {}
  <2>1. R(U) = {}
    BY <1>7
  <2>2. IsFiniteSet({})
    BY FS_EmptySet
  <2>3. Total(w, {}) = 0 /\ Total(r, {}) = 0
    BY <2>2, TotalIs
  <2> HIDE DEF R, r
  <2> QED BY <1>6, <1>7, <2>1, <2>3
<1>8. CASE U # {}
  <2>1. PICK x \in U : TRUE
    BY <1>8
  <2>2. U \ {x} \notin B /\ U \ {x} \in SUBSET V
    BY <1>2, <2>1
  <2>3. Total(w, R(U \ {x})) = Total(r, U \ {x})
    BY <2>2
  <2>4. Total(r, U) = r[x] + Total(r, U \ {x})
    <3>1. \A j \in U : r[j] \in Nat
      BY <1>5
    <3> HIDE DEF r, R, B
    <3> QED BY <1>3, <2>1, <3>1, TotalTake
  <2>5. IsFiniteSet(U \ {x}) /\ \A j \in U \ {x} : r[j] \in Nat
    BY <1>3, <1>5, FS_Subset
  <2>6. Total(r, U \ {x}) \in Nat
    <3> HIDE DEF r
    <3> QED BY <2>5, TotalType
  <2>7. w[<<t, x>>] = r[x] /\ r[x] \in Nat
    BY <1>5
  <2>8. CASE w[<<t, x>>] > 0
    <3>1. <<t, x>> \in R(U) /\ R(U \ {x}) = R(U) \ {<<t, x>>}
      BY <2>1, <2>8
    <3> DEFINE e == <<t, x>>
               Q == R(U)
    <3>2. IsFiniteSet(Q) /\ (\A a \in Q : w[a] \in Nat) /\ e \in Q
      BY <1>4, <3>1
    <3> HIDE DEF R, r, B, e, Q
    <3>3. Total(w, Q) = w[e] + Total(w, Q \ {e})
      BY <3>2, TotalTake
    <3>4. Total(w, R(U)) = w[<<t, x>>] + Total(w, R(U \ {x}))
      BY <3>1, <3>3 DEF e, Q
    <3> QED BY <1>6, <2>3, <2>4, <2>7, <3>4
  <2>9. CASE ~ (w[<<t, x>>] > 0)
    <3>1. R(U \ {x}) = R(U)
      BY <2>9
    <3> HIDE DEF R, r, B
    <3> QED BY <1>6, <2>3, <2>4, <2>6, <2>7, <2>9, <3>1
  <2> QED BY <2>8, <2>9
<1> QED BY <1>7, <1>8

\* All rows make the grid.
LEMMA GridTotal ==
  ASSUME NEW w, NEW W, NEW V, IsFiniteSet(W), IsFiniteSet(V),
         \A t \in W : \A j \in V : w[<<t, j>>] \in Nat
  PROVE  ByRow(w, W, V) \in Nat /\ Total(w, {a \in W \X V : w[a] > 0}) = ByRow(w, W, V)
<1> DEFINE A(T) == {a \in T \X V : w[a] > 0}
           g == [t \in W |-> Total([j \in V |-> w[<<t, j>>]], V)]
           B == {T \in SUBSET W : Total(w, A(T)) # Total(g, T)}
<1>1. ASSUME NEW t \in W
      PROVE  g[t] \in Nat /\ Total(w, A({t})) = g[t] /\ \A a \in A({t}) : w[a] \in Nat
  <2> DEFINE r == [j \in V |-> w[<<t, j>>]]
  <2>1. g[t] = Total(r, V)
    OBVIOUS
  <2>2. \A j \in V : r[j] \in Nat
    OBVIOUS
  <2>3. Total(r, V) \in Nat
    <3> HIDE DEF r
    <3> QED BY <2>2, TotalType
  <2>4. \A j \in V : w[<<t, j>>] \in Nat
    OBVIOUS
  <2>5. Total(w, {a \in {t} \X V : w[a] > 0}) = Total([j \in V |-> w[<<t, j>>]], V)
    BY <2>4, RowTotal
  <2>6. \A a \in {t} \X V : a = <<t, a[2]>> /\ a[2] \in V
    OBVIOUS
  <2>7. \A a \in A({t}) : w[a] \in Nat
    BY <2>4, <2>6
  <2> QED BY <2>1, <2>3, <2>5, <2>7
<1>2. \A t \in W : g[t] \in Nat
  BY <1>1
<1>3. Total(g, W) \in Nat
  <2> HIDE DEF g
  <2> QED BY <1>2, TotalType
<1> SUFFICES ASSUME B # {}
             PROVE  FALSE
  BY <1>3, W \in SUBSET W DEF ByRow
<1>4. B \subseteq SUBSET W
  OBVIOUS
<1>5. PICK T \in B : \A U \in B : U \subseteq T => U = T
  <2> HIDE DEF B
  <2> QED BY <1>4, LeastSet
<1>6. IsFiniteSet(T) /\ T \in SUBSET W
  BY FS_Subset
<1>7. Total(w, A(T)) # Total(g, T)
  BY <1>5
<1>8. ASSUME NEW U \in SUBSET W
      PROVE  IsFiniteSet(A(U)) /\ \A a \in A(U) : w[a] \in Nat
  <2>1. A(U) \in SUBSET (W \X V) /\ \A a \in W \X V : w[a] \in Nat
    <3>1. \A a \in W \X V : a = <<a[1], a[2]>> /\ a[1] \in W /\ a[2] \in V
      OBVIOUS
    <3> QED BY <3>1
  <2>2. IsFiniteSet(W \X V)
    BY FS_Product
  <2> QED BY <2>1, <2>2, FS_Subset
<1>9. CASE T = {}
  <2>1. A(T) = {}
    BY <1>9
  <2>2. IsFiniteSet({})
    BY FS_EmptySet
  <2>3. Total(w, {}) = 0 /\ Total(g, {}) = 0
    BY <2>2, TotalIs
  <2> HIDE DEF A, g
  <2> QED BY <1>7, <1>9, <2>1, <2>3
<1>10. CASE T # {}
  <2>1. PICK x \in T : TRUE
    BY <1>10
  <2> DEFINE R == T \ {x}
  <2>2. R \notin B /\ R \in SUBSET W /\ {x} \in SUBSET W /\ x \in W
    BY <1>5, <2>1
  <2>3. Total(w, A(R)) = Total(g, R)
    BY <2>2
  <2>4. Total(g, T) = g[x] + Total(g, R)
    <3> HIDE DEF g
    <3> QED BY <1>2, <1>6, TotalTake
  <2>5. IsFiniteSet(R) /\ \A t \in R : g[t] \in Nat
    BY <1>2, <1>6, FS_Subset
  <2>6. Total(g, R) \in Nat
    <3> HIDE DEF g
    <3> QED BY <2>5, TotalType
  <2>7. A(T) = A(R) \cup A({x}) /\ A(R) \cap A({x}) = {}
    OBVIOUS
  <2>8. /\ IsFiniteSet(A(R)) /\ IsFiniteSet(A({x}))
        /\ \A a \in A(R) \cup A({x}) : w[a] \in Nat
    BY <1>8, <2>2
  <2>9. g[x] \in Nat /\ Total(w, A({x})) = g[x]
    BY <1>1, <2>2
  <2> DEFINE P == A(R)
             Q == A({x})
  <2>10. IsFiniteSet(P) /\ IsFiniteSet(Q) /\ P \cap Q = {} /\ \A a \in P \cup Q : w[a] \in Nat
    BY <2>7, <2>8
  <2> HIDE DEF A, g, R, B, P, Q
  <2>11. Total(w, P \cup Q) = Total(w, P) + Total(w, Q)
    BY <2>10, TotalJoin
  <2>12. Total(w, A(T)) = Total(w, A(R)) + Total(w, A({x}))
    BY <2>7, <2>11 DEF P, Q
  <2> QED BY <1>7, <2>3, <2>4, <2>6, <2>9, <2>12
<1> QED BY <1>9, <1>10

-----------------------------------------------------------------------------
(* The search of MaximumCut *)

\* Weights are numbers.
LEMMA WeightType ==
  /\ Len(Matrix) \in Nat \ {0} /\ IsFiniteSet(Vertex)
  /\ \A i, j \in Vertex : Weight(i, j) \in Nat
<1>1. Len(Matrix) \in Nat \ {0}
  BY MatrixAssumption
<1>2. IsFiniteSet(Vertex)
  BY <1>1, FS_Interval DEF Vertex
<1>3. ASSUME NEW i \in Vertex, NEW j \in Vertex
      PROVE  Weight(i, j) \in Nat
  <2>1. i + 1 \in 1 .. Len(Matrix) /\ j + 1 \in 1 .. Len(Matrix)
    BY <1>1 DEF Vertex
  <2>2. i + 1 \in DOMAIN Matrix /\ Matrix[i + 1] \in Seq(0 .. 255)
    BY <2>1, MatrixAssumption
  <2>3. Len(Matrix[i + 1]) = Len(Matrix)
    BY <2>2, MatrixAssumption
  <2>4. j + 1 \in DOMAIN Matrix[i + 1]
    BY <2>1, <2>2, <2>3
  <2>5. Matrix[i + 1][j + 1] \in 0 .. 255
    <3> DEFINE r == Matrix[i + 1]
               B == 0 .. 255
    <3>1. r \in Seq(B) /\ j + 1 \in DOMAIN r
      BY <2>2, <2>4
    <3> HIDE DEF r, B
    <3>2. r[j + 1] \in B
      BY <3>1
    <3> QED BY <3>2 DEF r, B
  <2> QED BY <2>5 DEF Weight
<1> QED BY <1>1, <1>2, <1>3

\* MapThenSumSet adds up as Total does.
LEMMA SumOf ==
  ASSUME NEW S, IsFiniteSet(S), NEW t
  PROVE  /\ MapThenSumSet(LAMBDA j : Weight(t, j), S) = Total([j \in S |-> Weight(t, j)], S)
         /\ MapThenSumSet(LAMBDA a : Weight(a[1], a[2]), S)
              = Total([a \in S |-> Weight(a[1], a[2])], S)
<1>1. MapThenSumSet(LAMBDA j : Weight(t, j), S) = Total([j \in S |-> Weight(t, j)], S)
  <2> DEFINE g == [j \in S |-> Weight(t, j)]
             Folds(F) == F = [s \in SUBSET S |->
                IF s = {} THEN 0 ELSE Weight(t, CHOOSE x \in s : TRUE) + F[s \ {CHOOSE x \in s : TRUE}]]
             C == CHOOSE F : Folds(F)
  <2>1. MapThenSumSet(LAMBDA j : Weight(t, j), S) = C[S]
    BY DEF MapThenSumSet, MapThenFoldSet
  <2>2. \A s \in SUBSET S : s # {} => Weight(t, CHOOSE x \in s : TRUE) = g[CHOOSE x \in s : TRUE]
    OBVIOUS
  <2>3. \A F : Folds(F) <=> AddsUp(g, S, F)
    BY <2>2 DEF AddsUp, Picked
  <2> HIDE DEF g, Folds
  <2>4. PICK F : Folds(F)
    BY <2>3, SumsExist
  <2>5. AddsUp(g, S, C)
    BY <2>3, <2>4
  <2> HIDE DEF C
  <2> QED BY <2>1, <2>5, TotalIs DEF g
<1>2. MapThenSumSet(LAMBDA a : Weight(a[1], a[2]), S) = Total([a \in S |-> Weight(a[1], a[2])], S)
  <2> DEFINE g == [a \in S |-> Weight(a[1], a[2])]
             W(a) == Weight(a[1], a[2])
             Folds(F) == F = [s \in SUBSET S |->
                IF s = {} THEN 0 ELSE W(CHOOSE x \in s : TRUE) + F[s \ {CHOOSE x \in s : TRUE}]]
             C == CHOOSE F : Folds(F)
  <2>1. MapThenSumSet(LAMBDA a : Weight(a[1], a[2]), S) = C[S]
    BY DEF MapThenSumSet, MapThenFoldSet
  <2>2. \A s \in SUBSET S : s # {} => W(CHOOSE x \in s : TRUE) = g[CHOOSE x \in s : TRUE]
    OBVIOUS
  <2> HIDE DEF W
  <2>3. \A F : Folds(F) <=> AddsUp(g, S, F)
    BY <2>2 DEF AddsUp, Picked
  <2> HIDE DEF g, Folds
  <2>4. PICK F : Folds(F)
    BY <2>3, SumsExist
  <2>5. AddsUp(g, S, C)
    BY <2>3, <2>4
  <2> HIDE DEF C
  <2> QED BY <2>1, <2>5, TotalIs DEF g
<1> QED BY <1>1, <1>2

\* Matrix::sum() adds up the arcs that leave the vertices of the path.
LEMMA SumIsCut ==
  ASSUME NEW p, ToSet(p) \subseteq Vertex
  PROVE  /\ Sum(p) \in Nat
         /\ Sum(p) = MapThenSumSet(LAMBDA arc : Weight(arc[1], arc[2]),
              {arc \in ToSet(p) \X (Vertex \ ToSet(p)) : Weight(arc[1], arc[2]) > 0})
<1> DEFINE W == ToSet(p)
           V == Vertex \ ToSet(p)
           Row(t) == MapThenSumSet(LAMBDA j : Weight(t, j), V)
<1>1. Len(Matrix) \in Nat
  BY MatrixAssumption
<1>2. IsFiniteSet(Vertex)
  BY <1>1, FS_Interval DEF Vertex
<1>3. IsFiniteSet(W) /\ IsFiniteSet(V)
  BY <1>2, FS_Subset
<1>4. \A t \in Vertex, j \in Vertex : Weight(t, j) \in Nat
  BY MatrixAssumption, WeightType
<1> DEFINE w == [a \in W \X V |-> Weight(a[1], a[2])]
           g == [t \in W |-> Total([j \in V |-> w[<<t, j>>]], V)]
           Arcs == {a \in W \X V : Weight(a[1], a[2]) > 0}
<1>5. \A t \in W : \A j \in V : w[<<t, j>>] = Weight(t, j) /\ w[<<t, j>>] \in Nat
  BY <1>4
<1>6. \A t \in W : Row(t) = g[t]
  <2> TAKE t \in W
  <2>1. Row(t) = Total([j \in V |-> Weight(t, j)], V)
    BY <1>3, SumOf
  <2>2. [j \in V |-> Weight(t, j)] = [j \in V |-> w[<<t, j>>]]
    BY <1>5
  <2> QED BY <2>1, <2>2
<1>7. Sum(p) = Total(g, W)
  <2> DEFINE Folds(F) == F = [s \in SUBSET W |->
                IF s = {} THEN 0 ELSE Row(CHOOSE x \in s : TRUE) + F[s \ {CHOOSE x \in s : TRUE}]]
             C == CHOOSE F : Folds(F)
  <2>1. Sum(p) = C[W]
    BY DEF Sum, MapThenSumSet, MapThenFoldSet
  <2> HIDE DEF Row
  <2>2. \A s \in SUBSET W : s # {} => Row(CHOOSE x \in s : TRUE) = g[CHOOSE x \in s : TRUE]
    BY <1>6
  <2> HIDE DEF g
  <2>3. \A F : Folds(F) <=> AddsUp(g, W, F)
    BY <2>2 DEF AddsUp, Picked
  <2> HIDE DEF Folds, W
  <2>4. PICK F : Folds(F)
    BY <1>3, <2>3, SumsExist
  <2>5. AddsUp(g, W, C)
    BY <2>3, <2>4
  <2> HIDE DEF C
  <2> QED BY <1>3, <2>1, <2>5, TotalIs
<1>8. MapThenSumSet(LAMBDA arc : Weight(arc[1], arc[2]), Arcs) = Total(w, {a \in W \X V : w[a] > 0})
  <2>1. {a \in W \X V : w[a] > 0} = Arcs
    OBVIOUS
  <2>2. IsFiniteSet(Arcs)
    BY <1>3, FS_Product, FS_Subset
  <2>3. MapThenSumSet(LAMBDA arc : Weight(arc[1], arc[2]), Arcs) = Total([a \in Arcs |-> Weight(a[1], a[2])], Arcs)
    BY <2>2, SumOf
  <2>4. \A a \in Arcs : [x \in Arcs |-> Weight(x[1], x[2])][a] = w[a]
    OBVIOUS
  <2>5. Total([a \in Arcs |-> Weight(a[1], a[2])], Arcs) = Total(w, Arcs)
    <3> DEFINE h == [x \in Arcs |-> Weight(x[1], x[2])]
    <3>1. \A a \in Arcs : h[a] = w[a]
      OBVIOUS
    <3> HIDE DEF h, w, Arcs
    <3>2. Total(h, Arcs) = Total(w, Arcs)
      BY <2>2, <3>1, TotalSame
    <3> QED BY <3>2 DEF h
  <2> QED BY <2>1, <2>3, <2>5
<1>9. Total(g, W) \in Nat /\ Total(w, {a \in W \X V : w[a] > 0}) = Total(g, W)
  <2>1. \A t \in W : \A j \in V : w[<<t, j>>] \in Nat
    BY <1>5
  <2> HIDE DEF w, W, V
  <2>2. ByRow(w, W, V) \in Nat /\ Total(w, {a \in W \X V : w[a] > 0}) = ByRow(w, W, V)
    BY <1>3, <2>1, GridTotal
  <2> QED BY <2>2 DEF g, ByRow
<1> QED BY <1>7, <1>8, <1>9

\* The orders of a finite set have each element of it once.
LEMMA OrderIs ==
  ASSUME NEW S, IsFiniteSet(S), NEW o \in SetToSeqs(S)
  PROVE  o \in Seq(S) /\ Len(o) = Cardinality(S) /\ AllDiffer(o) /\ ToSet(o) = S
<1> DEFINE n == Cardinality(S)
           D == 1 .. n
<1>1. n \in Nat
  BY FS_CardinalityType
<1>2. o \in [D -> S] /\ \A i, j \in D : o[i] = o[j] => i = j
  BY DEF SetToSeqs
<1>3. o \in Seq(S) /\ Len(o) = n /\ DOMAIN o = D
  BY <1>1, <1>2
<1>4. IsFiniteSet(D) /\ Cardinality(D) = n
  BY <1>1, FS_Interval
<1>5. o \in Injection(D, S)
  BY <1>2 DEF Injection, IsInjective
<1> HIDE DEF D
<1>6. o \in Surjection(D, S)
  BY <1>4, <1>5, FS_Injection
<1>7. ToSet(o) = S
  BY <1>2, <1>3, <1>6 DEF Surjection, ToSet
<1> QED BY <1>2, <1>3, <1>7 DEF AllDiffer

\* A sequence without repetition is one of the orders of its elements.
LEMMA OrderOf ==
  ASSUME NEW T, NEW o \in Seq(T), AllDiffer(o)
  PROVE  o \in SetToSeqs(ToSet(o)) /\ Cardinality(ToSet(o)) = Len(o)
<1> DEFINE n == Len(o)
           D == 1 .. n
           S == ToSet(o)
<1>1. n \in Nat /\ DOMAIN o = D
  OBVIOUS
<1>2. o \in [D -> S]
  BY <1>1 DEF ToSet
<1>3. \A i, j \in D : o[i] = o[j] => i = j
  BY <1>1 DEF AllDiffer
<1>4. IsFiniteSet(D) /\ Cardinality(D) = n
  BY <1>1, FS_Interval
<1>5. o \in Bijection(D, S)
  BY <1>1, <1>2, <1>3 DEF Bijection, Injection, Surjection, IsInjective, ToSet
<1> HIDE DEF D, S
<1>6. ExistsBijection(D, S)
  BY <1>5 DEF ExistsBijection
<1>7. Cardinality(S) = n
  BY <1>4, <1>6, FS_Bijection
<1>8. o \in SetToSeqs(S)
  BY <1>2, <1>3, <1>7 DEF SetToSeqs, D
<1> QED BY <1>7, <1>8 DEF S

\* Every set of vertices has an ascending order.
LEMMA AscendingIs ==
  ASSUME NEW S, S \subseteq Vertex
  PROVE  /\ IsFiniteSet(S)
         /\ Ascending(S) \in SetToSeqs(S)
<1>1. IsFiniteSet(S) /\ S \subseteq Nat
  <2>1. Vertex \subseteq Nat
    BY WeightType DEF Vertex
  <2> QED BY <2>1, WeightType, FS_Subset
<1> DEFINE n == Cardinality(S)
           D == 1 .. n
           o == [k \in D |-> CHOOSE x \in S : Rank(S, x) = k - 1]
<1>2. n \in Nat
  BY <1>1, FS_CardinalityType
<1>3. \A k \in D : o[k] \in S /\ Rank(S, o[k]) = k - 1
  <2> TAKE k \in D
  <2>1. k - 1 \in 0 .. Cardinality(S) - 1
    BY <1>2
  <2>2. \E x \in S : Rank(S, x) = k - 1
    BY <1>1, <2>1, RanksFill
  <2> QED BY <2>2
<1>4. ASSUME NEW i \in D, NEW j \in D, i < j
      PROVE  o[i] < o[j]
  <2>1. o[i] \in S /\ o[j] \in S /\ Rank(S, o[i]) = i - 1 /\ Rank(S, o[j]) = j - 1
    BY <1>3
  <2> DEFINE x == o[i]
             y == o[j]
  <2>2. x \in S /\ y \in S /\ Rank(S, x) = i - 1 /\ Rank(S, y) = j - 1
    BY <2>1
  <2> HIDE DEF x, y, o
  <2>3. y < x => Rank(S, y) < Rank(S, x)
    BY <1>1, <2>2, Ranks
  <2>4. i \in Int /\ j \in Int
    BY <1>2
  <2>5. x \in Nat /\ y \in Nat
    BY <1>1, <2>2
  <2>6. x # y /\ ~ (y < x)
    BY <1>4, <2>2, <2>3, <2>4
  <2> QED BY <2>5, <2>6 DEF x, y
<1>5. o \in [D -> S]
  BY <1>3
<1>6. ASSUME NEW i \in D, NEW j \in D, i # j
      PROVE  o[i] # o[j]
  <2>1. i \in Int /\ j \in Int /\ o[i] \in Nat /\ o[j] \in Nat
    <3>1. o[i] \in S /\ o[j] \in S
      BY <1>3
    <3>2. o[i] \in Nat /\ o[j] \in Nat
      <4> HIDE DEF o
      <4> QED BY <1>1, <3>1
    <3>3. i \in Int /\ j \in Int
      <4> HIDE DEF o
      <4> QED BY <1>2
    <3> QED BY <3>2, <3>3
  <2>2. i < j \/ j < i
    BY <1>6, <2>1
  <2> HIDE DEF o, D
  <2>3. o[i] < o[j] \/ o[j] < o[i]
    BY <1>4, <2>2
  <2> QED BY <2>1, <2>3
<1>7. o \in SetToSeqs(S)
  <2> HIDE DEF o
  <2> QED BY <1>5, <1>6 DEF SetToSeqs
<1> HIDE DEF o
<1> QED BY <1>1, <1>4, <1>7 DEF Ascending

\* compute() pushes the path with each neighbour of its last vertex that is not on it.
NewOn(c) == Ascending(GetNeigh(Last(c)) \ ToSet(c))

\* The longer paths are the path with each of those vertices.
LEMMA LongerIs ==
  ASSUME NEW c \in Seq(Vertex)
  PROVE  /\ NewOn(c) \in Seq(Vertex) /\ AllDiffer(NewOn(c))
         /\ ToSet(NewOn(c)) = GetNeigh(Last(c)) \ ToSet(c)
         /\ DOMAIN Longer(c) = DOMAIN NewOn(c)
         /\ \A k \in DOMAIN NewOn(c) : Longer(c)[k] = Append(c, NewOn(c)[k])
<1> DEFINE N == GetNeigh(Last(c)) \ ToSet(c)
<1>1. N \subseteq Vertex
  BY DEF GetNeigh
<1> HIDE DEF N
<1>2. NewOn(c) = Ascending(N)
  BY DEF NewOn, N
<1>3. IsFiniteSet(N) /\ NewOn(c) \in SetToSeqs(N)
  BY <1>1, <1>2, AscendingIs
<1>4. NewOn(c) \in Seq(N) /\ AllDiffer(NewOn(c)) /\ ToSet(NewOn(c)) = N
  BY <1>3, OrderIs
<1>5. Longer(c) = [k \in DOMAIN NewOn(c) |-> Append(c, NewOn(c)[k])]
  BY DEF Longer, NewOn
<1> HIDE DEF NewOn
<1>6. NewOn(c) \in Seq(Vertex)
  BY <1>1, <1>4
<1> QED BY <1>4, <1>5, <1>6 DEF N

\* Each vertex has a path of its own.
LEMMA RootsAre ==
  /\ DOMAIN PopulateStates = 1 .. Len(Matrix) /\ Len(Matrix) \in Nat
  /\ \A i \in 1 .. Len(Matrix) : PopulateStates[i] = <<i - 1>>
BY WeightType DEF PopulateStates

\* The search makes paths longer, in as many ways.
LEMMA SearchGrows ==
  ASSUME JobIsSearch
  PROVE  PathsGrow
<1>1. Path \subseteq Seq(Vertex) /\ Roots = PopulateStates /\ \A p \in Path : Children[p] = Longer(p)
  BY DEF JobIsSearch
<1>2. AllDiffer(Roots) /\ \A i \in DOMAIN Roots : Len(Roots[i]) = 1
  <2>1. ASSUME NEW i \in DOMAIN Roots
        PROVE  i \in Int /\ Roots[i] = <<i - 1>>
    BY <1>1, RootsAre
  <2>2. ASSUME NEW i \in DOMAIN Roots, NEW j \in DOMAIN Roots, Roots[i] = Roots[j]
        PROVE  i = j
    <3>1. <<i - 1>> = <<j - 1>> /\ i \in Int /\ j \in Int
      BY <2>1, <2>2
    <3>2. i - 1 = j - 1
      BY <3>1
    <3> QED BY <3>1, <3>2
  <2>3. ASSUME NEW i \in DOMAIN Roots
        PROVE  Len(Roots[i]) = 1
    BY <2>1
  <2> QED BY <2>2, <2>3 DEF AllDiffer
<1>3. ASSUME NEW p \in Path
      PROVE  /\ AllDiffer(Children[p])
             /\ \A i \in DOMAIN Children[p] :
                  Len(Children[p][i]) = Len(p) + 1 /\ Begins(p, Children[p][i])
  <2> DEFINE o == NewOn(p)
             s == Longer(p)
  <2>1. p \in Seq(Vertex) /\ Children[p] = s
    BY <1>1
  <2>2. /\ o \in Seq(Vertex) /\ AllDiffer(o)
        /\ DOMAIN s = DOMAIN o /\ \A k \in DOMAIN o : s[k] = Append(p, o[k])
    BY <2>1, LongerIs
  <2> HIDE DEF o, s
  <2>3. ASSUME NEW i \in DOMAIN s
        PROVE  /\ o[i] \in Vertex /\ s[i] = Append(p, o[i]) /\ Len(s[i]) = Len(p) + 1
               /\ s[i][Len(p) + 1] = o[i] /\ \A k \in 1 .. Len(p) : s[i][k] = p[k]
    <3>1. o[i] \in Vertex /\ s[i] = Append(p, o[i])
      BY <2>2
    <3> QED BY <2>1, <3>1, AppendProperties
  <2>4. ASSUME NEW i \in DOMAIN s, NEW j \in DOMAIN s, s[i] = s[j]
        PROVE  i = j
    <3>1. o[i] = o[j]
      BY <2>3, <2>4
    <3> QED BY <2>2, <3>1 DEF AllDiffer
  <2>5. Len(p) <= Len(p) + 1
    <3>1. Len(p) \in Nat
      BY <2>1
    <3> QED BY <3>1
  <2> QED BY <2>1, <2>3, <2>4, <2>5 DEF AllDiffer, Begins
<1> QED BY <1>1, <1>2, <1>3 DEF PathsGrow

\* So the job is a tree: from two paths that compute() or PopulateStates() pushes the
\* search reaches no path in common, and it never comes back to a path.  This is what
\* lets the nodes share it out without work being done twice.
THEOREM SearchIsATree ==
  ASSUME JobIsSearch
  PROVE  TreeJob
BY SearchGrows, GrowingIsATree

\* A simple path of the graph.
IsPath(p) ==
  /\ p \in Seq(Vertex) /\ Len(p) > 0 /\ AllDiffer(p)
  /\ \A k \in 1 .. Len(p) - 1 : Weight(p[k], p[k + 1]) > 0

\* The next vertex of a path is one that compute() pushes, and no other is.
LEMMA PathGoesOn ==
  ASSUME NEW p, IsPath(p), NEW v \in Vertex
  PROVE  /\ v \in ToSet(NewOn(p)) <=> IsPath(Append(p, v))
<1> DEFINE n == Len(p)
           q == Append(p, v)
<1>1. p \in Seq(Vertex) /\ n \in Nat \ {0} /\ AllDiffer(p)
  BY DEF IsPath
<1>2. /\ q \in Seq(Vertex) /\ Len(q) = n + 1 /\ q[n + 1] = v
      /\ \A k \in 1 .. n : q[k] = p[k]
  BY <1>1, AppendProperties
<1>3. v \in ToSet(NewOn(p)) <=> Weight(p[n], v) > 0 /\ \A k \in 1 .. n : p[k] # v
  <2>1. ToSet(NewOn(p)) = GetNeigh(Last(p)) \ ToSet(p)
    BY <1>1, LongerIs
  <2>2. DOMAIN p = 1 .. n
    BY <1>1
  <2>3. v \in ToSet(p) <=> \E k \in 1 .. n : p[k] = v
    BY <2>2 DEF ToSet
  <2>4. v \in GetNeigh(Last(p)) <=> Weight(p[n], v) > 0
    BY DEF GetNeigh, Last
  <2> QED BY <2>1, <2>3, <2>4
<1> HIDE DEF n, q
<1>4. AllDiffer(q) <=> \A k \in 1 .. n : p[k] # v
  <2>1. DOMAIN q = 1 .. n + 1 /\ DOMAIN p = 1 .. n
    BY <1>1, <1>2 DEF n
  <2>2. ASSUME AllDiffer(q), NEW k \in 1 .. n
        PROVE  p[k] # v
    <3>1. k \in 1 .. n + 1 /\ n + 1 \in 1 .. n + 1 /\ k # n + 1
      BY <1>1
    <3> QED BY <1>2, <2>1, <2>2, <3>1 DEF AllDiffer
  <2>3. ASSUME \A k \in 1 .. n : p[k] # v
        PROVE  AllDiffer(q)
    <3>1. ASSUME NEW i \in 1 .. n + 1, NEW j \in 1 .. n + 1, q[i] = q[j]
          PROVE  i = j
      <4>1. i \in 1 .. n \/ i = n + 1
        BY <1>1
      <4>2. j \in 1 .. n \/ j = n + 1
        BY <1>1
      <4> QED BY <1>1, <1>2, <2>1, <2>3, <3>1, <4>1, <4>2 DEF AllDiffer
    <3> QED BY <2>1, <3>1 DEF AllDiffer
  <2> QED BY <2>2, <2>3
<1>5. (\A k \in 1 .. Len(q) - 1 : Weight(q[k], q[k + 1]) > 0) <=> Weight(p[n], v) > 0
  <2>1. \A k \in 1 .. n - 1 : Weight(p[k], p[k + 1]) > 0
    BY DEF IsPath, n
  <2>2. ASSUME NEW k \in 1 .. n - 1
        PROVE  q[k] = p[k] /\ q[k + 1] = p[k + 1]
    <3>1. k \in 1 .. n /\ k + 1 \in 1 .. n
      BY <1>1
    <3> QED BY <1>2, <3>1
  <2>3. n \in 1 .. n /\ Len(q) - 1 = n /\ \A k \in 1 .. n : k \in 1 .. n - 1 \/ k = n
    BY <1>1, <1>2
  <2>4. q[n] = p[n] /\ q[n + 1] = v
    BY <1>2, <2>3
  <2> QED BY <2>1, <2>2, <2>3, <2>4
<1>6. Len(q) > 0
  BY <1>1, <1>2
<1> QED BY <1>2, <1>3, <1>4, <1>5, <1>6 DEF IsPath, q

\* The beginning of a path is a path.
Beginning(p, k) == [i \in 1 .. k |-> p[i]]

LEMMA BeginningIs ==
  ASSUME NEW p, IsPath(p), NEW k \in 1 .. Len(p)
  PROVE  /\ IsPath(Beginning(p, k)) /\ Len(Beginning(p, k)) = k
         /\ k = Len(p) => Beginning(p, k) = p
         /\ k < Len(p) => /\ p[k + 1] \in Vertex
                          /\ Beginning(p, k + 1) = Append(Beginning(p, k), p[k + 1])
<1> DEFINE n == Len(p)
           b == Beginning(p, k)
<1>1. p \in Seq(Vertex) /\ n \in Nat /\ AllDiffer(p) /\ k \in Nat /\ DOMAIN p = 1 .. n
  BY DEF IsPath
<1>2. \A i \in 1 .. k : i \in 1 .. n /\ p[i] \in Vertex
  <2>1. \A i \in 1 .. k : i \in 1 .. n
    BY <1>1
  <2> QED BY <1>1, <2>1
<1>3. b \in Seq(Vertex) /\ Len(b) = k /\ DOMAIN b = 1 .. k /\ \A i \in 1 .. k : b[i] = p[i]
  BY <1>1, <1>2 DEF Beginning
<1>4. AllDiffer(b)
  BY <1>1, <1>2, <1>3 DEF AllDiffer
<1>5. ASSUME NEW i \in 1 .. k - 1
      PROVE  Weight(b[i], b[i + 1]) > 0
  <2>1. i \in 1 .. k /\ i + 1 \in 1 .. k /\ i \in 1 .. n - 1
    BY <1>1
  <2> QED BY <1>3, <2>1 DEF IsPath
<1>6. k > 0
  OBVIOUS
<1>7. IsPath(b)
  BY <1>3, <1>4, <1>5, <1>6 DEF IsPath
<1>8. ASSUME k = n
      PROVE  b = p
  BY <1>1, <1>3, <1>8
<1>9. ASSUME k < n
      PROVE  p[k + 1] \in Vertex /\ Beginning(p, k + 1) = Append(b, p[k + 1])
  <2>1. k + 1 \in 1 .. n
    BY <1>1, <1>9
  <2>2. p[k + 1] \in Vertex
    BY <1>1, <2>1
  <2> DEFINE v == p[k + 1]
             c == Beginning(p, k + 1)
             d == Append(b, v)
  <2> HIDE DEF b, v
  <2>3. d \in Seq(Vertex) /\ Len(d) = k + 1 /\ d[k + 1] = v /\ \A i \in 1 .. k : d[i] = b[i]
    BY <1>3, <2>2, AppendProperties DEF v
  <2>4. \A i \in 1 .. k + 1 : i \in 1 .. k \/ i = k + 1
    BY <1>1
  <2>5. \A i \in 1 .. k + 1 : d[i] = p[i]
    BY <1>3, <2>3, <2>4 DEF v
  <2>6. d = [i \in 1 .. k + 1 |-> p[i]]
    <3> HIDE DEF d
    <3>1. d = [i \in 1 .. Len(d) |-> d[i]]
      BY <2>3
    <3> QED BY <2>3, <2>5, <3>1
  <2> QED BY <2>2, <2>6 DEF Beginning, v, b
<1> QED BY <1>3, <1>7, <1>8, <1>9

\* The search visits the simple paths of the graph, and all of them.
THEOREM SearchVisitsPaths ==
  ASSUME JobIsSearch
  PROVE  \A p : p \in WholeJob <=> IsPath(p)
<1>1. /\ Path \subseteq Seq(Vertex) /\ \A p \in Path : Children[p] = Longer(p)
      /\ Roots \in Seq(Path) /\ DOMAIN Roots = 1 .. Len(Matrix) /\ Len(Matrix) \in Nat
      /\ \A i \in 1 .. Len(Matrix) : Roots[i] = <<i - 1>> /\ Roots[i] \in Path
  BY JobAssumption, RootsAre DEF JobIsSearch
<1>2. \A p : p \in WholeJob <=> \E i \in 1 .. Len(Matrix) : p \in Subtree[Roots[i]]
  BY <1>1, WorkOf DEF WholeJob
<1>3. ASSUME NEW p \in WholeJob
      PROVE  IsPath(p)
  <2> DEFINE C == {x \in Path : IsPath(x)}
  <2>1. PICK i \in 1 .. Len(Matrix) : p \in Subtree[Roots[i]]
    BY <1>2
  <2>2. Roots[i] \in C
    <3>1. i - 1 \in Vertex /\ Roots[i] = <<i - 1>> /\ Roots[i] \in Path
      BY <1>1 DEF Vertex
    <3> DEFINE v == i - 1
    <3> HIDE DEF v
    <3>2. IsPath(<<v>>)
      BY <3>1 DEF IsPath, AllDiffer, v
    <3> QED BY <3>1, <3>2 DEF v
  <2>3. ASSUME NEW x \in C, NEW y \in ToSet(Children[x])
        PROVE  y \in C
    <3>1. Children[x] \in Seq(Path) /\ Children[x] = Longer(x) /\ x \in Seq(Vertex)
      BY <1>1, JobAssumption
    <3>2. PICK k \in DOMAIN Longer(x) : y = Longer(x)[k]
      BY <3>1 DEF ToSet
    <3>3. y \in Path
      BY <3>1, <3>2
    <3>4. /\ k \in DOMAIN NewOn(x) /\ y = Append(x, NewOn(x)[k])
          /\ NewOn(x)[k] \in Vertex
      BY <3>1, <3>2, LongerIs
    <3>5. NewOn(x)[k] \in ToSet(NewOn(x))
      BY <3>4 DEF ToSet
    <3> QED BY <3>3, <3>4, <3>5, PathGoesOn
  <2>4. C \in SUBSET Path /\ \A x \in C : ToSet(Children[x]) \subseteq C
    BY <2>3
  <2> HIDE DEF C
  <2>5. Subtree[Roots[i]] \subseteq C
    BY <1>1, <2>2, <2>4, SubtreeIs
  <2> QED BY <2>1, <2>5 DEF C
<1>4. ASSUME NEW p, IsPath(p)
      PROVE  p \in WholeJob
  <2> DEFINE n == Len(p)
             K == {k \in 1 .. n : Beginning(p, k) \in WholeJob}
  <2>1. p \in Seq(Vertex) /\ n \in Nat /\ n > 0
    BY <1>4 DEF IsPath
  <2>2. 1 \in K
    <3> DEFINE v == p[1]
    <3>1. 1 \in 1 .. n /\ v \in Vertex
      BY <2>1
    <3>2. v + 1 \in 1 .. Len(Matrix) /\ (v + 1) - 1 = v
      BY <1>1, <3>1 DEF Vertex
    <3>3. Beginning(p, 1) = <<v>>
      BY DEF Beginning
    <3> HIDE DEF v
    <3>4. Roots[v + 1] = <<v>> /\ Roots[v + 1] \in Path
      BY <1>1, <3>2
    <3>5. <<v>> \in Subtree[Roots[v + 1]]
      BY <3>4, SubtreeIs
    <3> QED BY <1>2, <3>1, <3>2, <3>3, <3>5
  <2>3. K \subseteq Int /\ IsFiniteSet(K)
    <3>1. K \in SUBSET (1 .. n) /\ 1 .. n \subseteq Int
      OBVIOUS
    <3>2. IsFiniteSet(1 .. n)
      BY <2>1, FS_Interval
    <3> HIDE DEF K, n
    <3> QED BY <3>1, <3>2, FS_Subset
  <2>4. PICK k \in K : \A l \in K : l <= k
    <3> HIDE DEF K
    <3> QED BY <2>2, <2>3, HasGreatest
  <2>5. k \in 1 .. n /\ Beginning(p, k) \in WholeJob /\ k \in Int
    BY <2>1
  <2>6. ASSUME k < n
        PROVE  FALSE
    <3> DEFINE b == Beginning(p, k)
               v == p[k + 1]
               c == Beginning(p, k + 1)
    <3>1. IsPath(b) /\ v \in Vertex /\ c = Append(b, v)
      BY <1>4, <2>5, <2>6, BeginningIs
    <3>2. k + 1 \in 1 .. n
      BY <2>1, <2>5, <2>6
    <3>3. IsPath(c)
      BY <1>4, <3>2, BeginningIs
    <3>4. b \in WholeJob
      BY <2>5
    <3> HIDE DEF b, v, c
    <3>5. v \in ToSet(NewOn(b)) /\ b \in Seq(Vertex)
      BY <3>1, <3>3, PathGoesOn DEF IsPath
    <3>6. PICK i \in DOMAIN NewOn(b) : v = NewOn(b)[i]
      BY <3>5 DEF ToSet
    <3>7. i \in DOMAIN Longer(b) /\ c = Longer(b)[i]
      BY <3>1, <3>5, <3>6, LongerIs
    <3>8. PICK j \in 1 .. Len(Matrix) : b \in Subtree[Roots[j]]
      BY <1>2, <3>4
    <3>9. b \in Path /\ ToSet(Children[b]) \subseteq Subtree[Roots[j]]
      BY <1>1, <3>8, SubtreeIs
    <3>10. c \in ToSet(Children[b])
      BY <1>1, <3>7, <3>9 DEF ToSet
    <3>11. c \in WholeJob
      BY <1>2, <3>9, <3>10
    <3>12. k + 1 \in K
      BY <3>2, <3>11 DEF c
    <3> QED BY <2>4, <2>5, <3>12
  <2>7. k = n
    BY <2>1, <2>5, <2>6
  <2> QED BY <1>4, <2>5, <2>7, BeginningIs
<1> QED BY <1>3, <1>4

\* One side of a cut that is looked for holds the vertices of a simple path.
LEMMA SidesArePaths ==
  ASSUME NEW W \in (SUBSET Vertex) \ {{}}
  PROVE  OnePath(W) <=> \E p : IsPath(p) /\ ToSet(p) = W
<1>1. IsFiniteSet(W)
  BY WeightType, FS_Subset
<1>2. ASSUME NEW p \in SetToSeqs(W),
             \A k \in 1 .. Len(p) - 1 : Weight(p[k], p[k + 1]) > 0
      PROVE  IsPath(p) /\ ToSet(p) = W
  <2>1. p \in Seq(W) /\ AllDiffer(p) /\ ToSet(p) = W
    BY <1>1, OrderIs
  <2>2. Len(p) # 0
    <3> SUFFICES ASSUME Len(p) = 0
                 PROVE  FALSE
      OBVIOUS
    <3>1. DOMAIN p = {}
      BY <2>1
    <3> QED BY <2>1, <3>1 DEF ToSet
  <2>3. p \in Seq(Vertex) /\ Len(p) \in Nat
    BY <2>1
  <2>4. Len(p) > 0
    BY <2>2, <2>3
  <2> QED BY <1>2, <2>1, <2>3, <2>4 DEF IsPath
<1>3. ASSUME NEW p, IsPath(p), ToSet(p) = W
      PROVE  OnePath(W)
  <2>1. p \in Seq(Vertex) /\ AllDiffer(p)
    BY <1>3 DEF IsPath
  <2>2. p \in SetToSeqs(W)
    BY <1>3, <2>1, OrderOf
  <2> QED BY <1>3, <2>2 DEF OnePath, IsPath
<1> QED BY <1>2, <1>3 DEF OnePath

\* The best of all simple paths is the largest cut.
THEOREM BestOfPathsIsLargest ==
  ASSUME NEW S, \A p : p \in S <=> IsPath(p)
  PROVE  BestMax(S) = LargestCut
<1> DEFINE leaving(W) == {arc \in W \X (Vertex \ W) : Weight(arc[1], arc[2]) > 0}
           cut(W) == MapThenSumSet(LAMBDA arc : Weight(arc[1], arc[2]), leaving(W))
           Sides == {W \in (SUBSET Vertex) \ {{}} : OnePath(W)}
           Cuts == {cut(W) : W \in Sides}
           Sums == {0} \cup {Sum(p) : p \in S}
<1>1. LargestCut = Max(Cuts)
  BY DEF LargestCut
<1>2. BestMax(S) = Max(Sums)
  BY DEF BestMax
<1>3. ASSUME NEW p \in S
      PROVE  ToSet(p) \in Sides /\ Sum(p) \in Nat /\ Sum(p) = cut(ToSet(p))
  <2>1. IsPath(p) /\ p \in Seq(Vertex) /\ Len(p) > 0
    BY DEF IsPath
  <2>2. ToSet(p) \subseteq Vertex
    BY <2>1 DEF ToSet
  <2>3. 1 \in DOMAIN p
    BY <2>1
  <2>4. ToSet(p) # {}
    BY <2>3 DEF ToSet
  <2>5. ToSet(p) \in Sides
    BY <2>1, <2>2, <2>4, SidesArePaths
  <2>6. Sum(p) \in Nat /\ Sum(p) = cut(ToSet(p))
    BY <2>2, SumIsCut
  <2> HIDE DEF cut, Sides
  <2> QED BY <2>5, <2>6
<1>4. ASSUME NEW W \in Sides
      PROVE  \E p \in S : ToSet(p) = W
  BY SidesArePaths
<1>5. Sides \subseteq SUBSET Vertex
  OBVIOUS
<1> HIDE DEF cut, Sides
<1>6. Cuts = {Sum(p) : p \in S} /\ Cuts \subseteq Nat
  <2>1. \A W \in Sides : \E p \in S : cut(W) = Sum(p)
    BY <1>3, <1>4
  <2>2. \A p \in S : \E W \in Sides : Sum(p) = cut(W)
    BY <1>3
  <2>3. Cuts = {Sum(p) : p \in S}
    BY <2>1, <2>2
  <2> QED BY <1>3, <2>3
<1>7. IsFiniteSet(Cuts)
  <2>1. IsFiniteSet(SUBSET Vertex)
    BY WeightType, FS_SUBSET
  <2>2. IsFiniteSet(Sides)
    BY <1>5, <2>1, FS_Subset
  <2> DEFINE f == [W \in Sides |-> cut(W)]
  <2>3. f \in Surjection(Sides, Cuts)
    BY DEF Surjection
  <2> HIDE DEF f, Cuts
  <2> QED BY <2>2, <2>3, FS_Surjection
<1>8. Cuts # {}
  <2>1. 0 \in Vertex
    BY WeightType DEF Vertex
  <2> DEFINE p == <<0>>
  <2>2. IsPath(p)
    BY <2>1 DEF IsPath, AllDiffer
  <2>3. p \in S
    BY <2>2
  <2> HIDE DEF p
  <2> QED BY <1>6, <2>3
<1>9. Sums = {0} \cup Cuts
  BY <1>6
<1> HIDE DEF Cuts, Sums
<1>10. PICK x \in Cuts : \A y \in Cuts : y <= x
  <2>1. Cuts \subseteq Int
    BY <1>6
  <2> QED BY <1>7, <1>8, <2>1, HasGreatest
<1>11. \A y \in Cuts : y \in Nat
  BY <1>6
<1>12. x \in Nat /\ \A y \in Sums : y \in Nat /\ x >= y
  BY <1>9, <1>10, <1>11
<1>13. Max(Cuts) = x
  <2>1. \A z \in Cuts : (\A y \in Cuts : z >= y) => z = x
    BY <1>10, <1>11
  <2>2. \A y \in Cuts : x >= y
    BY <1>10, <1>11
  <2> QED BY <2>1, <2>2 DEF Max
<1>14. Max(Sums) = x
  <2>1. x \in Sums /\ \A z \in Sums : (\A y \in Sums : z >= y) => z = x
    BY <1>9, <1>10, <1>12
  <2> QED BY <1>12, <2>1 DEF Max
<1> QED BY <1>1, <1>2, <1>13, <1>14

-----------------------------------------------------------------------------
(* The theorems *)

\* Type correctness: whatever the delays, crashes and late connections, a handler
\* makes of a table, a stack and messages again such.  In particular the ranks of
\* CheckAssignments() always name nodes, and InitLeaderStep() has a stack for every
\* client it took.
THEOREM TypesAreKept == Spec => []TypeOK
<1>1. IInv => TypeOK
  BY DEF IInv
<1> QED BY <1>1, Invariance, PTL

\* A node that computes has a table, and a table keeps the entry of its own node:
\* the checks of _currAssignment in OnDivideWith() and ComputeStep() cannot fail
\* while a node computes, and a leader is never a new client of its own.
THEOREM OwnEntryIsKept == Spec => []OwnEntry
<1>1. IInv => OwnEntry
  BY InvImplies
<1> QED BY <1>1, Invariance, PTL

\* A node that waits has an empty stack, so that OnAssignment(), which overwrites
\* the stack of a node that does not compute, destroys no work of a waiting one.
THEOREM WaitingNodesAreEmpty == Spec => []IdleHasNoWork
<1>1. IInv => IdleHasNoWork
  BY InvImplies
<1> QED BY <1>1, Invariance, PTL

\* While every node runs and was connected from the start, the work on the stacks and
\* in the messages is passed on by every step: the division at the start, the halving
\* of a stack, the broadcast of both halves, the leader's checks of its table and the
\* result of a share lose nothing.  The only exception is OnAssignment() at a node
\* that computes, which ignores its share, or that has been told to finish, whose own
\* stack it overwrites.  Nothing is assumed of the delays of the messages.
THEOREM WorkIsPassedOn ==
  ASSUME Late = {}
  PROVE  Spec => OnlyBusyNodesDropWork
<1>1. Init => IInv /\ NetInv
  BY InitInv, NetInit
<1>2. IInv /\ NetInv /\ [Next]_vars => IInv' /\ NetInv'
  BY StepInv, StepPasses
<1>3. IInv /\ NetInv /\ [Next]_vars
        => [Dealt /\ Living' = Node
              => Explored \cup OnStacks \cup InTransit
                   \subseteq (Explored \cup OnStacks \cup InTransit)' \cup Dropped]_vars
  BY StepPasses DEF WorkStays, WorkThere
<1> QED BY <1>1, <1>2, <1>3, PTL DEF Spec, OnlyBusyNodesDropWork

\* Whatever messages are delayed or lost and whoever crashes, the nodes explore
\* nothing but what the search reaches from what has been explored before, from the
\* roots on, and no path is ever taken back: a division, a job given again or an
\* assignment overwritten invents no work.
THEOREM OnlyReachedIsExplored == Spec => ExploresReached
<1>1. IInv /\ SearchInv /\ [Next]_vars
        => [Explored \subseteq Explored'
              /\ Explored' \subseteq Explored \cup Pool!Reached(Explored)]_vars
  BY StepSearches, PoolReached DEF SearchStep
<1> QED BY <1>1, SearchInvariance, PTL DEF Spec, ExploresReached

\* Every result a node may ever print is the best of paths that have been explored,
\* all of them paths of the job.
THEOREM ResultsAreReal == Spec => []ResultsAreExplored
<1>1. SearchInv /\ Explored \subseteq WholeJob => ResultsAreExplored
  BY DEF SearchInv, Sound, ResultsAreExplored
<1> QED BY <1>1, SearchInvariance, PTL

=============================================================================
