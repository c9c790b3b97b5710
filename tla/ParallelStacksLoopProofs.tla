---------------------- MODULE ParallelStacksLoopProofs ----------------------
(***************************************************************************)
(* Proofs about module ParallelStacksLoop, for stacks of any length that   *)
(* are divided among any number of clients.                                *)
(***************************************************************************)
EXTENDS ParallelStacksLoop, ParallelStackProofs

\* In the middle of a round, newPars holds what the round has made so far; the
\* function returns when these are the stacks of a last round.
Making ==
  /\ round < count
  /\ index \in 1 .. round + 1 /\ round + index - 1 < count
  /\ stacks = StacksAt(states, round, index)

Numbered == \E n \in 0 .. MaxStates : states = [i \in 1 .. n |-> i]

IInv ==
  /\ Numbered
  /\ count \in Nat \ {0} /\ round \in Nat \ {0} /\ IsPowerOfTwo(round)
  /\ returned \in BOOLEAN
  /\ ~returned => Making \/ (round = 1 /\ count = 1 /\ stacks = <<states>> /\ index = 1)
  /\ returned => stacks = GetParallelStacks(states, count)

\* One pass of the for loop: the stack at index gives, and the new one comes last.
LEMMA GiveMakes ==
  ASSUME NEW S, NEW s \in Seq(S), NEW r \in Nat \ {0}, NEW i \in 1 .. r
  PROVE  LET made == StacksAt(s, r, i)
         IN  /\ Append([made EXCEPT ![i] = Kept(@)], Given(made[i])) = StacksAt(s, r, i + 1)
             /\ Len(made) = r + i - 1
<1> DEFINE made == StacksAt(s, r, i)
           n == r + i - 1
           hand(j) == Deal(s, j - 1, StrideAt(j, r, i))
           next(j) == Deal(s, j - 1, StrideAt(j, r, i + 1))
<1>1. n \in Nat /\ i \in 1 .. n /\ made = [j \in 1 .. n |-> hand(j)] /\ Len(made) = n
  BY DEF StacksAt
<1>2. \A j \in 1 .. n : j # i => StrideAt(j, r, i) = StrideAt(j, r, i + 1)
  BY DEF StrideAt
<1>3. hand(i) = Deal(s, i - 1, r) /\ next(i) = Deal(s, i - 1, 2 * r)
  BY DEF StrideAt
<1>4. next(n + 1) = Deal(s, i - 1 + r, 2 * r)
  <2>1. n + 1 - 1 = i - 1 + r /\ n + 1 > r
    OBVIOUS
  <2>2. StrideAt(n + 1, r, i + 1) = 2 * r
    BY <2>1 DEF StrideAt
  <2> QED BY <2>1, <2>2
<1>5. Kept(hand(i)) = next(i) /\ Given(hand(i)) = next(n + 1)
  <2>1. Len(s) \in Nat /\ i - 1 \in Nat
    OBVIOUS
  <2>2. Kept(Deal(s, i - 1, r)) = Deal(s, i - 1, 2 * r)
        /\ Given(Deal(s, i - 1, r)) = Deal(s, i - 1 + r, 2 * r)
    BY <2>1, HalvedHand
  <2> HIDE DEF hand, next, n
  <2> QED BY <1>3, <1>4, <2>2
<1>6. StacksAt(s, r, i + 1) = [j \in 1 .. n + 1 |-> next(j)]
  <2>1. r + (i + 1) - 1 = n + 1
    OBVIOUS
  <2> QED BY <2>1 DEF StacksAt
<1>7. \A j \in 1 .. n : j # i => hand(j) = next(j)
  BY <1>2
<1> HIDE DEF hand, next, n, made
<1>8. Append([made EXCEPT ![i] = Kept(@)], Given(made[i])) = [j \in 1 .. n + 1 |-> next(j)]
  <2>1. [made EXCEPT ![i] = Kept(@)] = [j \in 1 .. n |-> next(j)]
    BY <1>1, <1>5, <1>7
  <2>2. Given(made[i]) = next(n + 1)
    BY <1>1, <1>5
  <2>3. Append([j \in 1 .. n |-> next(j)], next(n + 1)) = [j \in 1 .. n + 1 |-> next(j)]
    BY <1>1
  <2> QED BY <2>1, <2>2, <2>3
<1> QED BY <1>1, <1>6, <1>8 DEF made, n

\* Where a round starts, and where the function starts: one stack per element of pars.
LEMMA RoundStarts ==
  ASSUME NEW S, NEW s \in Seq(S), NEW r \in Nat \ {0}
  PROVE  /\ StacksAt(s, r, r + 1) = StacksAt(s, 2 * r, 1)
         /\ StacksAt(s, 1, 1) = <<s>>
<1>1. ASSUME NEW j \in 1 .. 2 * r
      PROVE  StrideAt(j, r, r + 1) = StrideAt(j, 2 * r, 1)
  BY DEF StrideAt
<1>2. r + (r + 1) - 1 = 2 * r /\ 2 * r + 1 - 1 = 2 * r
  OBVIOUS
<1>3. StacksAt(s, r, r + 1) = StacksAt(s, 2 * r, 1)
  BY <1>1, <1>2 DEF StacksAt
<1>4. Deal(s, 0, 1) = s
  <2>1. Len(s) \in Nat
    OBVIOUS
  <2>2. IsHandSize(s, 0, 1, Len(s))
    BY <2>1 DEF IsHandSize
  <2>3. Deal(s, 0, 1) = Hand(s, 0, 1, Len(s))
    BY <2>1, <2>2, DealOf
  <2>4. \A i \in 1 .. Len(s) : 0 + 1 + (i - 1) * 1 = i
    OBVIOUS
  <2>5. s = [i \in 1 .. Len(s) |-> s[i]]
    OBVIOUS
  <2> QED BY <2>3, <2>4, <2>5 DEF Hand
<1>5. StacksAt(s, 1, 1) = [j \in 1 .. 1 |-> Deal(s, 0, 1)]
  <2>1. \A j \in 1 .. 1 : j - 1 = 0 /\ StrideAt(j, 1, 1) = 1
    BY DEF StrideAt
  <2>2. 1 + 1 - 1 = 1
    OBVIOUS
  <2> QED BY <2>1, <2>2 DEF StacksAt
<1>6. StacksAt(s, 1, 1) = <<s>>
  BY <1>4, <1>5
<1> QED BY <1>3, <1>6

\* A round that has made as many stacks as are wanted was the last one.
LEMMA Enough ==
  ASSUME NEW S, NEW s \in Seq(S), NEW r \in Nat \ {0}, NEW i \in 1 .. r + 1, NEW c \in Nat \ {0},
         IsPowerOfTwo(r), r < c /\ c = r + i - 1
  PROVE  StacksAt(s, r, i) = GetParallelStacks(s, c)
<1>1. LastRound(c) = r
  <2>1. c <= 2 * r
    OBVIOUS
  <2> QED BY <2>1, LastRoundOf
<1>2. PICK k \in 1 .. r + 1 : c = r + k - 1 /\ GetParallelStacks(s, c) = StacksAt(s, r, k)
  BY <1>1, GetParallelStacksIsRound
<1>3. k = i
  BY <1>2
<1> QED BY <1>2, <1>3

LEMMA OneStack ==
  ASSUME NEW S, NEW s \in Seq(S)
  PROVE  GetParallelStacks(s, 1) = <<s>>
<1>1. LastRound(1) = 1
  BY LastRoundBounds
<1>2. PICK k \in 1 .. 1 + 1 : 1 = 1 + k - 1 /\ GetParallelStacks(s, 1) = StacksAt(s, 1, k)
  BY <1>1, GetParallelStacksIsRound
<1>3. k = 1
  BY <1>2
<1> QED BY <1>2, <1>3, RoundStarts

LEMMA InitIInv == Init => IInv
<1> SUFFICES ASSUME Init PROVE IInv
  OBVIOUS
<1>1. PICK n \in 0 .. MaxStates : states = [i \in 1 .. n |-> i]
  BY DEF Init
<1>2. states \in Seq(Nat)
  <2>1. n \in Nat
    BY BoundsAssumption
  <2> QED BY <1>1, <2>1
<1>3. count \in Nat \ {0} /\ round = 1 /\ index = 1 /\ returned = FALSE /\ stacks = <<states>>
  BY BoundsAssumption DEF Init
<1>4. stacks = StacksAt(states, 1, 1)
  BY <1>2, <1>3, RoundStarts
<1>5. count # 1 => Making
  BY <1>3, <1>4 DEF Making
<1>6. Numbered
  BY <1>1 DEF Numbered
<1>7. IsPowerOfTwo(round)
  BY <1>3, PowersOfTwo
<1>8. ~returned => Making \/ (round = 1 /\ count = 1 /\ stacks = <<states>> /\ index = 1)
  BY <1>3, <1>5
<1>9. count \in Nat \ {0} /\ round \in Nat \ {0}
  BY <1>3
<1>10. returned \in BOOLEAN /\ ~returned
  BY <1>3, Zenon
<1> QED BY <1>6, <1>7, <1>8, <1>9, <1>10 DEF IInv

LEMMA StepIInv == IInv /\ [Next]_vars => IInv'
<1> SUFFICES ASSUME IInv, [Next]_vars PROVE IInv'
  OBVIOUS
<1>1. PICK n \in 0 .. MaxStates : states = [i \in 1 .. n |-> i]
  BY DEF IInv, Numbered
<1>2. states \in Seq(Nat)
  <2>1. n \in Nat
    BY BoundsAssumption
  <2> QED BY <1>1, <2>1
<1>3. /\ count \in Nat \ {0} /\ round \in Nat \ {0} /\ IsPowerOfTwo(round)
      /\ returned \in BOOLEAN
  BY DEF IInv
<1>4. Numbered /\ (states' = states => Numbered')
  BY DEF IInv, Numbered
<1>5. ASSUME Give
      PROVE  IInv'
  <2>1. ~returned /\ round < count /\ index <= round
        /\ stacks' = GiveInterleaved(index) /\ index' = index + 1
        /\ returned' = (Len(stacks') = count) /\ UNCHANGED <<states, count, round>>
    BY <1>5 DEF Give
  <2>2. Making
    BY <2>1 DEF IInv
  <2>3. index \in 1 .. round /\ stacks = StacksAt(states, round, index)
    BY <1>3, <2>1, <2>2 DEF Making
  <2>4. stacks' = StacksAt(states, round, index + 1)
    BY <1>2, <1>3, <2>1, <2>3, GiveMakes DEF GiveInterleaved
  <2>5. Len(stacks') = round + index
    BY <1>3, <2>3, <2>4 DEF StacksAt
  <2>6. round + index - 1 < count
    BY <2>2 DEF Making
  <2>7. index + 1 \in 1 .. round + 1
    BY <1>3, <2>3
  <2>8. CASE round + index = count
    <3>1. returned' = TRUE
      BY <2>1, <2>5, <2>8
    <3>2. stacks' = GetParallelStacks(states, count)
      <4>1. count = round + (index + 1) - 1
        BY <1>3, <2>3, <2>8
      <4> QED BY <1>2, <1>3, <2>1, <2>4, <2>7, <4>1, Enough
    <3> QED BY <1>3, <1>4, <2>1, <3>1, <3>2 DEF IInv
  <2>9. CASE round + index # count
    <3>1. returned' = FALSE
      BY <2>1, <2>5, <2>9
    <3>2. Making'
      <4>1. round + (index + 1) - 1 < count
        BY <1>3, <2>3, <2>6, <2>9
      <4> QED BY <2>1, <2>4, <2>7, <4>1 DEF Making
    <3> QED BY <1>3, <1>4, <2>1, <3>1, <3>2 DEF IInv
  <2> QED BY <2>8, <2>9
<1>6. ASSUME NextRound
      PROVE  IInv'
  <2>1. ~returned /\ round < count /\ index > round
        /\ round' = Len(stacks) /\ index' = 1 /\ UNCHANGED <<states, count, stacks, returned>>
    BY <1>6 DEF NextRound
  <2>2. Making
    BY <1>3, <2>1 DEF IInv
  <2>3. index = round + 1 /\ stacks = StacksAt(states, round, round + 1)
    BY <1>3, <2>1, <2>2 DEF Making
  <2>4. round' = 2 * round
    BY <1>3, <2>1, <2>3 DEF StacksAt
  <2>5. stacks = StacksAt(states, 2 * round, 1)
    BY <1>2, <1>3, <2>3, RoundStarts
  <2>6. 2 * round < count
    BY <1>3, <2>2, <2>3 DEF Making
  <2>7. IsPowerOfTwo(2 * round) /\ 2 * round \in Nat \ {0}
    BY <1>3, PowersOfTwo
  <2>8. Making'
    <3>1. 2 * round + 1 - 1 < count /\ 1 \in 1 .. 2 * round + 1
      BY <1>3, <2>6
    <3> QED BY <2>1, <2>4, <2>5, <2>6, <3>1 DEF Making
  <2> QED BY <1>3, <1>4, <2>1, <2>4, <2>7, <2>8 DEF IInv
<1>7. ASSUME Return
      PROVE  IInv'
  <2>1. ~returned /\ round >= count /\ returned' = TRUE
        /\ UNCHANGED <<states, count, stacks, round, index>>
    BY <1>7 DEF Return
  <2>2. count = 1 /\ stacks = <<states>>
    <3>1. ~ Making
      BY <1>3, <2>1 DEF Making
    <3> QED BY <2>1, <3>1 DEF IInv
  <2>3. stacks = GetParallelStacks(states, count)
    BY <1>2, <2>2, OneStack
  <2> QED BY <1>3, <1>4, <2>1, <2>3 DEF IInv
<1>8. ASSUME UNCHANGED vars
      PROVE  IInv'
  BY <1>8 DEF IInv, Numbered, Making, vars
<1> QED BY <1>5, <1>6, <1>7, <1>8 DEF Next, Stop

\* At every step of the loop the stacks are a division of the whole.
LEMMA StacksDivide == IInv => IsDivision(states, stacks) /\ states \in Seq(Nat)
<1> SUFFICES ASSUME IInv PROVE IsDivision(states, stacks) /\ states \in Seq(Nat)
  OBVIOUS
<1>1. PICK n \in 0 .. MaxStates : states = [i \in 1 .. n |-> i]
  BY DEF IInv, Numbered
<1>2. states \in Seq(Nat)
  <2>1. n \in Nat
    BY BoundsAssumption
  <2> QED BY <1>1, <2>1
<1>3. count \in Nat \ {0} /\ round \in Nat \ {0}
  BY DEF IInv
<1>4. CASE returned
  BY <1>2, <1>3, <1>4, GetParallelStacksDivides DEF IInv
<1>5. CASE Making
  BY <1>2, <1>3, <1>5, StacksAtDivide DEF Making
<1>6. CASE stacks = <<states>> /\ count = 1
  <2>1. stacks = GetParallelStacks(states, count)
    BY <1>2, <1>6, OneStack
  <2> QED BY <1>2, <1>3, <2>1, GetParallelStacksDivides
<1>7. returned \/ Making \/ (stacks = <<states>> /\ count = 1)
  BY DEF IInv
<1> QED BY <1>2, <1>4, <1>5, <1>6, <1>7

\* Dividing a stack never loses or doubles a state, at any step of the loop: for
\* stacks of any length and any number of clients (GetParallelStacks()).
THEOREM NeverLoses == Spec => []NothingLostByDividing
<1>1. IInv => NothingLostByDividing
  <2> SUFFICES ASSUME IInv, NEW x \in 1 .. Len(states)
               PROVE  Cardinality({p \in Places(stacks) : stacks[p[1]][p[2]] = x}) = 1
    BY DEF NothingLostByDividing, Places
  <2>1. PICK n \in 0 .. MaxStates : states = [i \in 1 .. n |-> i]
    BY DEF IInv, Numbered
  <2>2. n \in Nat
    BY BoundsAssumption
  <2>3. DOMAIN states = 1 .. Len(states) /\ \A i \in DOMAIN states : states[i] = i
    BY <2>1, <2>2
  <2>4. PICK at \in [Places(stacks) -> DOMAIN states] :
          /\ \A p \in Places(stacks) : stacks[p[1]][p[2]] = states[at[p]]
          /\ \A p, q \in Places(stacks) : at[p] = at[q] => p = q
          /\ \A y \in DOMAIN states : \E p \in Places(stacks) : at[p] = y
    BY StacksDivide DEF IsDivision
  <2>5. \A p \in Places(stacks) : stacks[p[1]][p[2]] = at[p]
    BY <2>3, <2>4
  <2>6. PICK q \in Places(stacks) : at[q] = x
    BY <2>3, <2>4
  <2>7. {p \in Places(stacks) : stacks[p[1]][p[2]] = x} = {q}
    BY <2>4, <2>5, <2>6
  <2> QED BY <2>7, FS_Singleton
<1> QED BY <1>1, InitIInv, StepIInv, PTL DEF Spec

\* The loop of GetParallelStacks() returns what its operator says, which module
\* Computation divides the first stack with.
THEOREM LoopReturnsDealtStacks == Spec => []ReturnsDealtStacks
<1>1. IInv => ReturnsDealtStacks
  BY DEF IInv, ReturnsDealtStacks
<1> QED BY <1>1, InitIInv, StepIInv, PTL DEF Spec

\* The shares GetParallelStacks() returns are fair, even if it returns in the middle
\* of a round: none is more than twice another one and one state.
THEOREM SharesAreFair == Spec => []FairShares
<1>1. IInv => FairShares
  <2> SUFFICES ASSUME IInv, returned, NEW i \in DOMAIN stacks, NEW j \in DOMAIN stacks
               PROVE  Len(stacks[i]) <= 2 * Len(stacks[j]) + 1
    BY DEF FairShares
  <2>1. states \in Seq(Nat) /\ count \in Nat \ {0} /\ stacks = GetParallelStacks(states, count)
    BY StacksDivide DEF IInv
  <2> DEFINE last == LastRound(count)
  <2>2. last \in Nat \ {0}
    BY <2>1, LastRoundBounds
  <2>3. PICK k \in 1 .. last + 1 : stacks = StacksAt(states, last, k)
    BY <2>1, GetParallelStacksIsRound
  <2> HIDE DEF last
  <2>4. DOMAIN stacks = 1 .. last + k - 1
    BY <2>2, <2>3 DEF StacksAt
  <2>5. i \in 1 .. last + k - 1 /\ j \in 1 .. last + k - 1
    BY <2>4
  <2>6. Len(StacksAt(states, last, k)[i]) <= 2 * Len(StacksAt(states, last, k)[j]) + 1
    BY <2>1, <2>2, <2>5, StacksAtAreFair
  <2> QED BY <2>3, <2>6
<1> QED BY <1>1, InitIInv, StepIInv, PTL DEF Spec

=============================================================================
