------------------------ MODULE ParallelStackProofs ------------------------
(***************************************************************************)
(* Proofs about module ParallelStack, for stacks of any length.            *)
(***************************************************************************)
EXTENDS ParallelStack, FiniteSetTheorems, TLAPS

\* A nonempty finite set of numbers has a greatest element: what Max chooses. The elements
\* that are not below it are a smallest set of that kind.
LEMMA HasGreatest ==
  ASSUME NEW S, S \subseteq Int, IsFiniteSet(S), S # {}
  PROVE  \E x \in S : \A y \in S : y <= x
<1> DEFINE Beyond(x) == {y \in S : y >= x}
           Tails == {Beyond(x) : x \in S}
<1>1. Tails \subseteq FiniteSubsetsOf(S) /\ Tails # {}
  <2>1. FiniteSubsetsOf(S) = SUBSET S
    BY FS_FiniteSubsetsOfFinite
  <2>2. PICK x \in S : TRUE
    OBVIOUS
  <2>3. Tails \subseteq SUBSET S /\ Beyond(x) \in Tails
    BY <2>2
  <2> HIDE DEF Tails
  <2> QED BY <2>1, <2>3
<1>2. PICK U \in Tails : \A V \in Tails : <<V, U>> \notin StrictSubsetOrdering(S)
  <2> HIDE DEF Tails
  <2>1. IsWellFoundedOn(StrictSubsetOrdering(S), FiniteSubsetsOf(S))
    BY FS_StrictSubsetOrderingWellFounded
  <2> QED BY <1>1, <2>1, WFMin
<1>3. PICK x \in S : U = Beyond(x)
  BY <1>2
<1>4. ASSUME NEW y \in S, y > x
      PROVE  FALSE
  <2>1. \A z \in S : z \in Int
    OBVIOUS
  <2>2. ~ (x >= y) /\ x >= x /\ \A z \in S : z >= y => z >= x
    BY <1>4, <2>1
  <2>3. Beyond(y) \subseteq Beyond(x) /\ x \in Beyond(x) /\ x \notin Beyond(y)
    BY <2>2
  <2>4. Beyond(y) \in Tails /\ Beyond(y) \in SUBSET S /\ Beyond(x) \in SUBSET S
    OBVIOUS
  <2> HIDE DEF Beyond, Tails
  <2> QED BY <1>2, <1>3, <2>3, <2>4 DEF StrictSubsetOrdering
<1>5. \A y \in S : y \in Int /\ x \in Int
  OBVIOUS
<1> QED BY <1>4, <1>5

\* A hand of cards is part of the stack.
LEMMA DealType ==
  ASSUME NEW S, NEW s \in Seq(S), NEW from \in Nat, NEW stride \in Nat \ {0}
  PROVE  Deal(s, from, stride) \in Seq(S)
<1> DEFINE n == (Len(s) - from + stride - 1) \div stride
<1>1. n \in Int
  OBVIOUS
<1>2. n * stride <= Len(s) - from + stride - 1
  OBVIOUS
<1>3. ASSUME NEW i \in 1 .. n
      PROVE  from + 1 + (i - 1) * stride \in 1 .. Len(s)
  <2>1. (i - 1) * stride <= (n - 1) * stride /\ (i - 1) * stride >= 0
    BY <1>1
  <2>2. (n - 1) * stride = n * stride - stride
    BY <1>1
  <2>3. (i - 1) * stride \in Int /\ (n - 1) * stride \in Int /\ n * stride \in Int
    BY <1>1
  <2> HIDE DEF n
  <2> QED BY <1>1, <1>2, <2>1, <2>2, <2>3
<1>4. \A i \in 1 .. n : s[from + 1 + (i - 1) * stride] \in S
  BY <1>3
<1>5. \E m \in Nat : 1 .. n = 1 .. m
  <2> HIDE DEF n
  <2>1. CASE n >= 0
    BY <1>1, <2>1
  <2>2. CASE n < 0
    <3>1. 1 .. n = 1 .. 0
      BY <1>1, <2>2
    <3> QED BY <3>1
  <2> QED BY <1>1, <2>1, <2>2
<1> HIDE DEF n
<1>6. [i \in 1 .. n |-> s[from + 1 + (i - 1) * stride]] \in Seq(S)
  <2> DEFINE card(i) == s[from + 1 + (i - 1) * stride]
  <2>1. PICK m \in Nat : 1 .. n = 1 .. m
    BY <1>5
  <2>2. \A i \in 1 .. m : card(i) \in S
    BY <1>4, <2>1
  <2> HIDE DEF card
  <2>3. [i \in 1 .. m |-> card(i)] \in Seq(S)
    BY <2>2
  <2> QED BY <2>1, <2>3 DEF card
<1> QED BY <1>6 DEF Deal, n

\* giveInterleaved() makes two stacks.
LEMMA KeptType ==
  ASSUME NEW S, NEW s \in Seq(S)
  PROVE  Kept(s) \in Seq(S) /\ Given(s) \in Seq(S)
BY DealType DEF Kept, Given

\* giveInterleaved() neither loses nor doubles a state, whatever the length of the
\* stack: the elements that stay are those at the odd positions of the sequence,
\* the elements that are given those at the even ones, in their order.
THEOREM GiveInterleavedSplits ==
  ASSUME NEW S, NEW s \in Seq(S)
  PROVE  /\ Len(Kept(s)) + Len(Given(s)) = Len(s)
         /\ \A i \in 1 .. Len(Kept(s)) : Kept(s)[i] = s[2 * i - 1]
         /\ \A i \in 1 .. Len(Given(s)) : Given(s)[i] = s[2 * i]
<1> DEFINE kept == (Len(s) + 1) \div 2
           given == Len(s) \div 2
<1>1. kept \in Nat /\ given \in Nat /\ kept + given = Len(s)
  OBVIOUS
<1>2. Kept(s) = [i \in 1 .. kept |-> s[2 * i - 1]]
  <2>1. Len(s) - 0 + 2 - 1 = Len(s) + 1
    OBVIOUS
  <2>2. \A i \in 1 .. kept : 0 + 1 + (i - 1) * 2 = 2 * i - 1
    OBVIOUS
  <2> QED BY <2>1, <2>2 DEF Kept, Deal
<1>3. Given(s) = [i \in 1 .. given |-> s[2 * i]]
  <2>1. Len(s) - 1 + 2 - 1 = Len(s)
    OBVIOUS
  <2>2. \A i \in 1 .. given : 1 + 1 + (i - 1) * 2 = 2 * i
    OBVIOUS
  <2> QED BY <2>1, <2>2 DEF Given, Deal
<1> HIDE DEF kept, given
<1>4. Len(Kept(s)) = kept /\ Len(Given(s)) = given
  BY <1>1, <1>2, <1>3
<1> QED BY <1>1, <1>2, <1>3, <1>4

\* Products with a stride are ordered like their other factors.
LEMMA Strides ==
  ASSUME NEW a \in Int, NEW b \in Int, NEW t \in Nat \ {0}
  PROVE  /\ a * t \in Int
         /\ a <= b => a * t <= b * t
         /\ a < b => a * t + t <= b * t
         /\ (a + 1) * t = a * t + t /\ (a - 1) * t = a * t - t
         /\ a * (2 * t) = 2 * (a * t) /\ (2 * a) * t = 2 * (a * t)
<1>1. a * t \in Int /\ b * t \in Int
  OBVIOUS
<1>2. a <= b => a * t <= b * t
  OBVIOUS
<1>3. (a + 1) * t = a * t + t /\ (a - 1) * t = a * t - t
  OBVIOUS
<1>4. a < b => (a + 1) * t <= b * t
  OBVIOUS
<1>5. a * (2 * t) = 2 * (a * t) /\ (2 * a) * t = 2 * (a * t)
  OBVIOUS
<1> QED BY <1>1, <1>2, <1>3, <1>4, <1>5

LEMMA Quotient ==
  ASSUME NEW a \in Int, NEW t \in Nat \ {0}
  PROVE  /\ a \div t \in Int
         /\ (a \div t) * t <= a
         /\ a < (a \div t) * t + t
<1>1. a \div t \in Int
  OBVIOUS
<1>2. (a \div t) * t <= a
  OBVIOUS
<1>3. a < (a \div t) * t + t
  OBVIOUS
<1> QED BY <1>1, <1>2, <1>3

\* The n first cards of a hand, and how many it has.
Hand(s, from, stride, n) == [i \in 1 .. n |-> s[from + 1 + (i - 1) * stride]]

IsHandSize(s, from, stride, n) ==
  /\ n > 0 => from + (n - 1) * stride < Len(s)
  /\ Len(s) <= from + n * stride

\* A hand has n cards when there is an n-th but no further one.
LEMMA DealOf ==
  ASSUME NEW s, Len(s) \in Nat, NEW from \in Nat, NEW stride \in Nat \ {0}, NEW n \in Nat,
         IsHandSize(s, from, stride, n)
  PROVE  Deal(s, from, stride) = Hand(s, from, stride, n)
<1> USE DEF IsHandSize
<1> DEFINE a == Len(s) - from + stride - 1
           q == a \div stride
<1>1. a \in Int
  OBVIOUS
<1>2. q \in Int /\ q * stride <= a /\ a < q * stride + stride
  <2> HIDE DEF a
  <2> QED BY <1>1, Quotient
<1>3. n * stride \in Int /\ q * stride \in Int /\ (n - 1) * stride = n * stride - stride
  <2> HIDE DEF q
  <2> QED BY <1>2, Strides
<1>4. q <= n
  <2> SUFFICES ASSUME n < q PROVE FALSE
    <3> HIDE DEF q
    <3> QED BY <1>2
  <2>1. n * stride + stride <= q * stride
    <3> HIDE DEF q
    <3> QED BY <1>2, Strides
  <2> HIDE DEF q
  <2> QED BY <1>2, <1>3, <2>1
<1>5. n > 0 => n <= q
  <2> SUFFICES ASSUME n > 0, q < n PROVE FALSE
    <3> HIDE DEF q
    <3> QED BY <1>2
  <2>1. q * stride + stride <= n * stride
    <3> HIDE DEF q
    <3> QED BY <1>2, Strides
  <2> HIDE DEF q
  <2> QED BY <1>2, <1>3, <2>1
<1>6. 1 .. q = 1 .. n
  <2> HIDE DEF q
  <2> QED BY <1>2, <1>4, <1>5
<1>7. Deal(s, from, stride) = Hand(s, from, stride, q)
  BY DEF Deal, Hand
<1> HIDE DEF q
<1>8. Hand(s, from, stride, q) = Hand(s, from, stride, n)
  BY <1>6 DEF Hand
<1> QED BY <1>7, <1>8

LEMMA DealIs ==
  ASSUME NEW s, Len(s) \in Nat, NEW from \in Nat, NEW stride \in Nat \ {0}
  PROVE  \E n \in Nat :
           Deal(s, from, stride) = Hand(s, from, stride, n) /\ IsHandSize(s, from, stride, n)
<1> DEFINE a == Len(s) - from + stride - 1
           q == a \div stride
           n == IF q > 0 THEN q ELSE 0
<1>1. a \in Int
  OBVIOUS
<1>2. q \in Int /\ q * stride <= a /\ a < q * stride + stride
  <2> HIDE DEF a
  <2> QED BY <1>1, Quotient
<1>3. q * stride \in Int /\ (q - 1) * stride = q * stride - stride /\ 0 * stride = 0
  <2> HIDE DEF q
  <2> QED BY <1>2, Strides
<1>4. q <= 0 => q * stride <= 0
  <2> HIDE DEF q
  <2> QED BY <1>2, <1>3, Strides
<1> HIDE DEF q
<1>5. n \in Nat /\ (n > 0 => from + (n - 1) * stride < Len(s))
  BY <1>2, <1>3
<1>6. Len(s) <= from + n * stride
  BY <1>2, <1>3, <1>4
<1> HIDE DEF n
<1>7. IsHandSize(s, from, stride, n)
  BY <1>5, <1>6 DEF IsHandSize
<1>8. Deal(s, from, stride) = Hand(s, from, stride, n)
  BY <1>5, <1>7, DealOf
<1> QED BY <1>5, <1>7, <1>8

\* Halving a hand doubles its stride: giveInterleaved() keeps every second card
\* and gives those between them.
LEMMA HalvedHand ==
  ASSUME NEW s, Len(s) \in Nat, NEW from \in Nat, NEW stride \in Nat \ {0}
  PROVE  /\ Kept(Deal(s, from, stride)) = Deal(s, from, 2 * stride)
         /\ Given(Deal(s, from, stride)) = Deal(s, from + stride, 2 * stride)
<1> DEFINE hand == Deal(s, from, stride)
           card(i) == s[from + 1 + (i - 1) * stride]
<1>0. PICK n \in Nat : hand = Hand(s, from, stride, n) /\ IsHandSize(s, from, stride, n)
  BY DealIs
<1>1. /\ hand = [i \in 1 .. n |-> card(i)]
      /\ n > 0 => from + (n - 1) * stride < Len(s)
      /\ Len(s) <= from + n * stride
  BY <1>0 DEF Hand, IsHandSize
<1>2. Len(hand) = n /\ \A i \in 1 .. n : hand[i] = card(i)
  <2> HIDE DEF hand, card
  <2> QED BY <1>1
<1> HIDE DEF hand
<1> DEFINE k == (n + 1) \div 2
           g == n \div 2
<1>3. k \in Nat /\ g \in Nat /\ 2 * k - 1 <= n /\ n <= 2 * k /\ 2 * g <= n /\ n <= 2 * g + 1
  OBVIOUS
<1> HIDE DEF k, g
<1>4. \A i \in Int : /\ i * (2 * stride) = 2 * (i * stride) /\ (2 * i) * stride = 2 * (i * stride)
                     /\ i * stride \in Int
                     /\ (i - 1) * stride = i * stride - stride
  BY Strides
<1>5. Kept(hand) = Deal(s, from, 2 * stride)
  <2>1. Kept(hand) = Hand(hand, 0, 2, k)
    <3>1. IsHandSize(hand, 0, 2, k)
      BY <1>2, <1>3 DEF IsHandSize
    <3> QED BY <1>2, <1>3, <3>1, DealOf DEF Kept
  <2>2. ASSUME NEW i \in 1 .. k
        PROVE  hand[0 + 1 + (i - 1) * 2] = s[from + 1 + (i - 1) * (2 * stride)]
    <3>1. 0 + 1 + (i - 1) * 2 = 2 * i - 1 /\ 2 * i - 1 \in 1 .. n
      BY <1>3
    <3>2. hand[2 * i - 1] = card(2 * i - 1)
      BY <1>2, <3>1
    <3>3. (2 * i - 1 - 1) * stride = (i - 1) * (2 * stride)
      <4>1. 2 * i - 1 - 1 = 2 * (i - 1) /\ i - 1 \in Int
        BY <1>3
      <4> QED BY <1>4, <4>1
    <3> QED BY <3>1, <3>2, <3>3
  <2>3. Deal(s, from, 2 * stride) = Hand(s, from, 2 * stride, k)
    <3>1. n * stride <= (2 * k) * stride /\ (2 * k - 2) * stride <= (n - 1) * stride
      BY <1>3, Strides
    <3>2. (2 * k) * stride = k * (2 * stride) /\ (2 * k - 2) * stride = (k - 1) * (2 * stride)
      <4>1. 2 * k - 2 = 2 * (k - 1) /\ k - 1 \in Int
        BY <1>3
      <4> QED BY <1>3, <1>4, <4>1
    <3>3. n * stride \in Int /\ k * (2 * stride) \in Int /\ (k - 1) * (2 * stride) \in Int
          /\ (n - 1) * stride \in Int
      <4>1. k - 1 \in Int /\ n - 1 \in Int
        BY <1>3
      <4>2. \A i \in Int : i * (2 * stride) \in Int
        BY <1>4
      <4> QED BY <1>3, <1>4, <4>1, <4>2
    <3>4. k > 0 => n > 0
      BY <1>3
    <3>5. k > 0 => from + (k - 1) * (2 * stride) < Len(s)
      BY <1>1, <3>1, <3>2, <3>3, <3>4
    <3>6. Len(s) <= from + k * (2 * stride)
      BY <1>1, <3>1, <3>2, <3>3
    <3>7. 2 * stride \in Nat \ {0}
      OBVIOUS
    <3>8. IsHandSize(s, from, 2 * stride, k)
      BY <3>5, <3>6 DEF IsHandSize
    <3> QED BY <1>3, <3>7, <3>8, DealOf
  <2>4. Hand(hand, 0, 2, k) = Hand(s, from, 2 * stride, k)
    BY <2>2 DEF Hand
  <2> QED BY <2>1, <2>3, <2>4
<1>6. Given(hand) = Deal(s, from + stride, 2 * stride)
  <2>1. Given(hand) = Hand(hand, 1, 2, g)
    <3>1. IsHandSize(hand, 1, 2, g)
      BY <1>2, <1>3 DEF IsHandSize
    <3> QED BY <1>2, <1>3, <3>1, DealOf DEF Given
  <2>2. ASSUME NEW i \in 1 .. g
        PROVE  hand[1 + 1 + (i - 1) * 2] = s[from + stride + 1 + (i - 1) * (2 * stride)]
    <3>1. 1 + 1 + (i - 1) * 2 = 2 * i /\ 2 * i \in 1 .. n
      BY <1>3
    <3>2. hand[2 * i] = card(2 * i)
      BY <1>2, <3>1
    <3>3. (2 * i - 1) * stride = stride + (i - 1) * (2 * stride)
      <4>1. (2 * i - 1) * stride = (2 * i) * stride - stride
        BY <1>4
      <4>2. (2 * i) * stride = 2 * (i * stride) /\ i * stride \in Int
        BY <1>4
      <4>3. (i - 1) * (2 * stride) = 2 * ((i - 1) * stride) /\ (i - 1) * stride = i * stride - stride
        BY <1>4
      <4> QED BY <4>1, <4>2, <4>3
    <3>4. (i - 1) * (2 * stride) \in Int
      OBVIOUS
    <3>5. from + 1 + (2 * i - 1) * stride = from + stride + 1 + (i - 1) * (2 * stride)
      BY <3>3, <3>4
    <3> QED BY <3>1, <3>2, <3>5
  <2>3. Deal(s, from + stride, 2 * stride) = Hand(s, from + stride, 2 * stride, g)
    <3>1. n * stride <= (2 * g + 1) * stride /\ (2 * g - 1) * stride <= (n - 1) * stride
      BY <1>3, Strides
    <3>2. /\ (2 * g + 1) * stride = g * (2 * stride) + stride
          /\ (2 * g - 1) * stride = (g - 1) * (2 * stride) + stride
      <4>1. (2 * g + 1) * stride = (2 * g) * stride + stride /\ (2 * g) * stride = g * (2 * stride)
        BY <1>3, Strides
      <4>2. (2 * g - 1) * stride = (2 * g) * stride - stride
        BY <1>3, <1>4
      <4>3. (g - 1) * (2 * stride) = g * (2 * stride) - 2 * stride /\ g * (2 * stride) \in Int
        BY <1>3, Strides
      <4> QED BY <4>1, <4>2, <4>3
    <3>3. n * stride \in Int /\ g * (2 * stride) \in Int /\ (g - 1) * (2 * stride) \in Int
          /\ (n - 1) * stride \in Int
      <4>1. g - 1 \in Int /\ n - 1 \in Int
        BY <1>3
      <4>2. \A i \in Int : i * (2 * stride) \in Int
        BY <1>4
      <4> QED BY <1>3, <1>4, <4>1, <4>2
    <3>4. g > 0 => n > 0
      BY <1>3
    <3>5. g > 0 => from + stride + (g - 1) * (2 * stride) < Len(s)
      BY <1>1, <3>1, <3>2, <3>3, <3>4
    <3>6. Len(s) <= from + stride + g * (2 * stride)
      BY <1>1, <3>1, <3>2, <3>3
    <3>7. 2 * stride \in Nat \ {0} /\ from + stride \in Nat
      OBVIOUS
    <3>8. IsHandSize(s, from + stride, 2 * stride, g)
      BY <3>5, <3>6 DEF IsHandSize
    <3> QED BY <1>3, <3>7, <3>8, DealOf
  <2>4. Hand(hand, 1, 2, g) = Hand(s, from + stride, 2 * stride, g)
    BY <2>2 DEF Hand
  <2> QED BY <2>1, <2>3, <2>4
<1> QED BY <1>5, <1>6 DEF hand

-----------------------------------------------------------------------------
(* The rounds of GetParallelStacks() *)

\* The powers of two: one, and every double of one of them...
LEMMA PowersOfTwo ==
  /\ IsPowerOfTwo(1)
  /\ \A r \in Nat \ {0} : IsPowerOfTwo(r) => IsPowerOfTwo(2 * r)
<1>1. IsPowerOfTwo(1)
  BY DEF IsPowerOfTwo
<1>2. ASSUME NEW r \in Nat \ {0}, IsPowerOfTwo(r),
             NEW D \in SUBSET (1 .. 2 * r), 1 \in D, \A x \in D : 2 * x <= 2 * r => 2 * x \in D
      PROVE  2 * r \in D
  <2> DEFINE C == D \cap (1 .. r)
  <2>1. C \in SUBSET (1 .. r) /\ 1 \in C
    BY <1>2
  <2>2. \A x \in C : 2 * x <= r => 2 * x \in C
    BY <1>2
  <2>3. r \in C
    <3> HIDE DEF C
    <3> QED BY <1>2, <2>1, <2>2 DEF IsPowerOfTwo
  <2> QED BY <1>2, <2>3
<1>3. ASSUME NEW r \in Nat \ {0}, IsPowerOfTwo(r)
      PROVE  IsPowerOfTwo(2 * r)
  BY <1>2, <1>3 DEF IsPowerOfTwo
<1> QED BY <1>1, <1>3

\* ... and nothing else.
LEMMA PowerIsDouble ==
  ASSUME NEW r \in Nat \ {0}, IsPowerOfTwo(r), r # 1
  PROVE  \E y \in Nat \ {0} : r = 2 * y /\ IsPowerOfTwo(y)
<1> DEFINE Doubles == {x \in 1 .. r : x = 1 \/ \E y \in Nat \ {0} : x = 2 * y /\ IsPowerOfTwo(y)}
<1>1. Doubles \in SUBSET (1 .. r) /\ 1 \in Doubles
  OBVIOUS
<1>2. ASSUME NEW x \in Doubles, 2 * x <= r
      PROVE  2 * x \in Doubles
  <2>1. x \in Nat \ {0} /\ IsPowerOfTwo(x)
    BY PowersOfTwo
  <2> QED BY <1>2, <2>1
<1>3. r \in Doubles
  <2> HIDE DEF Doubles
  <2> QED BY <1>1, <1>2 DEF IsPowerOfTwo
<1> QED BY <1>3

\* There is no power of two between one of them and its double.
LEMMA NoPowerBetween ==
  ASSUME NEW r \in Nat \ {0}, IsPowerOfTwo(r), NEW q \in Nat \ {0}, IsPowerOfTwo(q)
  PROVE  q <= r \/ 2 * r <= q
<1> DEFINE Apart == {x \in 1 .. r : \A p \in Nat \ {0} : IsPowerOfTwo(p) => p <= x \/ 2 * x <= p}
<1>1. Apart \in SUBSET (1 .. r) /\ 1 \in Apart
  OBVIOUS
<1>2. ASSUME NEW x \in Apart, 2 * x <= r
      PROVE  2 * x \in Apart
  <2> SUFFICES ASSUME NEW p \in Nat \ {0}, IsPowerOfTwo(p)
               PROVE  p <= 2 * x \/ 2 * (2 * x) <= p
    BY <1>2
  <2>1. CASE p = 1
    BY <2>1
  <2>2. CASE p # 1
    <3>1. PICK y \in Nat \ {0} : p = 2 * y /\ IsPowerOfTwo(y)
      BY <2>2, PowerIsDouble
    <3>2. y <= x \/ 2 * x <= y
      BY <3>1
    <3> QED BY <3>1, <3>2
  <2> QED BY <2>1, <2>2
<1>3. r \in Apart
  <2> HIDE DEF Apart
  <2> QED BY <1>1, <1>2 DEF IsPowerOfTwo
<1> QED BY <1>3

\* In the last round of GetParallelStacks() there are fewer stacks than are wanted,
\* and after it there would be enough.
LEMMA LastRoundBounds ==
  ASSUME NEW count \in Nat
  PROVE  /\ LastRound(count) \in Nat \ {0} /\ IsPowerOfTwo(LastRound(count))
         /\ count > 1 => LastRound(count) < count /\ count <= 2 * LastRound(count)
         /\ count <= 1 => LastRound(count) = 1
<1> DEFINE Rounds == {1} \cup {r \in 1 .. count - 1 : IsPowerOfTwo(r)}
           last == LastRound(count)
<1>1. last \in Rounds /\ \A r \in Rounds : r <= last
  <2>1. Rounds \subseteq 1 .. count + 1 /\ 1 \in Rounds
    OBVIOUS
  <2>2. IsFiniteSet(Rounds)
    <3>1. IsFiniteSet(1 .. count + 1)
      BY FS_Interval
    <3> HIDE DEF Rounds
    <3> QED BY <2>1, <3>1, FS_Subset
  <2>3. LastRound(count) = Max(Rounds)
    BY DEF LastRound
  <2> HIDE DEF Rounds
  <2>4. Rounds \subseteq Int /\ Rounds # {}
    BY <2>1
  <2>5. PICK x \in Rounds : \A y \in Rounds : y <= x
    BY <2>2, <2>4, HasGreatest
  <2>6. \E z \in Rounds : \A y \in Rounds : z >= y
    BY <2>4, <2>5
  <2>7. Max(Rounds) \in Rounds /\ \A y \in Rounds : Max(Rounds) >= y
    BY <2>6 DEF Max
  <2> QED BY <2>3, <2>4, <2>7
<1>2. last \in Nat \ {0} /\ IsPowerOfTwo(last)
  BY <1>1, PowersOfTwo
<1>3. ASSUME count > 1
      PROVE  last < count /\ count <= 2 * last
  <2>1. last < count
    BY <1>1, <1>3
  <2>2. ASSUME 2 * last < count
        PROVE  FALSE
    <3>1. 2 * last \in 1 .. count - 1 /\ IsPowerOfTwo(2 * last)
      BY <1>2, <2>2, PowersOfTwo
    <3>2. 2 * last \in Rounds
      BY <3>1
    <3> HIDE DEF last, Rounds
    <3> QED BY <1>1, <1>2, <3>2
  <2> HIDE DEF last
  <2> QED BY <1>2, <2>1, <2>2
<1>4. count <= 1 => last = 1
  BY <1>1
<1> QED BY <1>2, <1>3, <1>4

\* The last round is the only one of that kind.
LEMMA LastRoundOf ==
  ASSUME NEW count \in Nat, NEW r \in Nat \ {0}, IsPowerOfTwo(r), r < count, count <= 2 * r
  PROVE  LastRound(count) = r
<1> DEFINE last == LastRound(count)
<1>1. last \in Nat \ {0} /\ IsPowerOfTwo(last) /\ last < count /\ count <= 2 * last
  <2>1. count > 1
    OBVIOUS
  <2> QED BY <2>1, LastRoundBounds
<1> HIDE DEF last
<1>2. (r <= last \/ 2 * last <= r) /\ (last <= r \/ 2 * r <= last)
  BY <1>1, NoPowerBetween
<1> QED BY <1>1, <1>2 DEF last

\* A number is divided in one way only.
LEMMA DivisionUnique ==
  ASSUME NEW t \in Nat \ {0}, NEW r1 \in 0 .. t - 1, NEW r2 \in 0 .. t - 1,
         NEW q1 \in Int, NEW q2 \in Int, r1 + q1 * t = r2 + q2 * t
  PROVE  q1 = q2 /\ r1 = r2
<1>1. q1 * t \in Int /\ q2 * t \in Int
  BY Strides
<1>2. ~ (q1 < q2)
  <2> SUFFICES ASSUME q1 < q2 PROVE FALSE
    OBVIOUS
  <2>1. q1 * t + t <= q2 * t
    BY Strides
  <2> QED BY <1>1, <2>1
<1>3. ~ (q2 < q1)
  <2> SUFFICES ASSUME q2 < q1 PROVE FALSE
    OBVIOUS
  <2>1. q2 * t + t <= q1 * t
    BY Strides
  <2> QED BY <1>1, <2>1
<1>4. q1 = q2
  BY <1>2, <1>3
<1> QED BY <1>1, <1>4

-----------------------------------------------------------------------------
(* Dividing a stack between several *)

\* The places in a tuple of stacks; every place holds one of the elements of s, and
\* every element of s is at one place.
Places(pars) == UNION {{j} \X DOMAIN pars[j] : j \in DOMAIN pars}

IsDivision(s, pars) ==
  \E at \in [Places(pars) -> DOMAIN s] :
    /\ \A p \in Places(pars) : pars[p[1]][p[2]] = s[at[p]]
    /\ \A p, q \in Places(pars) : at[p] = at[q] => p = q
    /\ \A x \in DOMAIN s : \E p \in Places(pars) : at[p] = x

\* The stacks that GetParallelStacks() has made in the middle of a round: those
\* before index have given half of what they had to those after round.
StrideAt(j, round, index) == IF j < index \/ j > round THEN 2 * round ELSE round

StacksAt(s, round, index) ==
  [j \in 1 .. round + index - 1 |-> Deal(s, j - 1, StrideAt(j, round, index))]

LEMMA StacksAtDivide ==
  ASSUME NEW S, NEW s \in Seq(S), NEW round \in Nat \ {0}, NEW index \in 1 .. round + 1
  PROVE  IsDivision(s, StacksAt(s, round, index))
<1> DEFINE stacks == StacksAt(s, round, index)
           t(j) == StrideAt(j, round, index)
           size == [j \in 1 .. round + index - 1 |->
                      CHOOSE n \in Nat : /\ Deal(s, j - 1, t(j)) = Hand(s, j - 1, t(j), n)
                                         /\ IsHandSize(s, j - 1, t(j), n)]
           pos(j, i) == j + (i - 1) * t(j)
<1>1. Len(s) \in Nat /\ DOMAIN s = 1 .. Len(s)
  OBVIOUS
<1>2. \A j \in 1 .. round + index - 1 : t(j) \in Nat \ {0}
  BY DEF StrideAt
<1>3. ASSUME NEW j \in 1 .. round + index - 1
      PROVE  /\ size[j] \in Nat
             /\ stacks[j] = Hand(s, j - 1, t(j), size[j])
             /\ IsHandSize(s, j - 1, t(j), size[j])
  <2>1. \E n \in Nat : Deal(s, j - 1, t(j)) = Hand(s, j - 1, t(j), n) /\ IsHandSize(s, j - 1, t(j), n)
    <3>1. j - 1 \in Nat
      OBVIOUS
    <3> QED BY <1>1, <1>2, <3>1, DealIs
  <2>2. stacks[j] = Deal(s, j - 1, t(j))
    BY DEF StacksAt
  <2> HIDE DEF t, stacks
  <2> QED BY <2>1, <2>2
<1> HIDE DEF t, size
<1>4. DOMAIN stacks = 1 .. round + index - 1
  BY DEF StacksAt
<1> HIDE DEF stacks
<1>5. ASSUME NEW j \in 1 .. round + index - 1
      PROVE  /\ DOMAIN stacks[j] = 1 .. size[j]
             /\ \A i \in 1 .. size[j] : stacks[j][i] = s[pos(j, i)]
  <2>1. stacks[j] = [i \in 1 .. size[j] |-> s[j - 1 + 1 + (i - 1) * t(j)]]
    BY <1>3 DEF Hand
  <2>2. j - 1 + 1 = j
    OBVIOUS
  <2> QED BY <2>1, <2>2
<1>6. ASSUME NEW j \in 1 .. round + index - 1, NEW i \in 1 .. size[j]
      PROVE  pos(j, i) \in 1 .. Len(s)
  <2>1. size[j] \in Nat /\ t(j) \in Nat \ {0} /\ size[j] > 0
    BY <1>2, <1>3
  <2>2. j - 1 + (size[j] - 1) * t(j) < Len(s)
    BY <1>3, <2>1 DEF IsHandSize
  <2>3. (i - 1) * t(j) <= (size[j] - 1) * t(j) /\ 0 * t(j) <= (i - 1) * t(j)
    <3>1. i - 1 \in Int /\ size[j] - 1 \in Int /\ i - 1 <= size[j] - 1 /\ 0 <= i - 1
      BY <2>1
    <3> QED BY <2>1, <3>1, Strides
  <2>4. (i - 1) * t(j) \in Int /\ (size[j] - 1) * t(j) \in Int /\ 0 * t(j) = 0
    <3>1. i - 1 \in Int /\ size[j] - 1 \in Int
      BY <2>1
    <3> QED BY <2>1, <3>1, Strides
  <2> QED BY <1>1, <2>2, <2>3, <2>4
\* Where a position is: its remainder and its quotient by round tell the place.
<1> DEFINE rest(j) == IF j <= round THEN j - 1 ELSE j - 1 - round
           turn(j, i) == IF j > round THEN 2 * (i - 1) + 1
                         ELSE IF j < index THEN 2 * (i - 1) ELSE i - 1
<1>7. ASSUME NEW j \in 1 .. round + index - 1, NEW i \in Nat \ {0}
      PROVE  /\ pos(j, i) - 1 = rest(j) + turn(j, i) * round
             /\ rest(j) \in 0 .. round - 1 /\ turn(j, i) \in Nat
  <2>1. (i - 1) * (2 * round) = (2 * (i - 1)) * round /\ (i - 1) * round \in Int
        /\ (2 * (i - 1) + 1) * round = (2 * (i - 1)) * round + round
        /\ (2 * (i - 1)) * round \in Int
    <3>1. i - 1 \in Int /\ 2 * (i - 1) \in Int
      OBVIOUS
    <3> QED BY <3>1, Strides
  <2>2. CASE j > round
    <3>1. t(j) = 2 * round
      BY <2>2 DEF t, StrideAt
    <3> QED BY <2>1, <2>2, <3>1
  <2>3. CASE j <= round /\ j < index
    <3>1. t(j) = 2 * round
      BY <2>3 DEF t, StrideAt
    <3> QED BY <2>1, <2>3, <3>1
  <2>4. CASE j <= round /\ ~ (j < index)
    <3>1. t(j) = round
      BY <2>4 DEF t, StrideAt
    <3> QED BY <2>1, <2>4, <3>1
  <2> QED BY <2>2, <2>3, <2>4
<1>8. ASSUME NEW j \in 1 .. round + index - 1, NEW i \in 1 .. size[j],
             NEW k \in 1 .. round + index - 1, NEW h \in 1 .. size[k], pos(j, i) = pos(k, h)
      PROVE  j = k /\ i = h
  <2>1. i \in Nat \ {0} /\ h \in Nat \ {0}
    BY <1>3
  <2>2. /\ rest(j) + turn(j, i) * round = rest(k) + turn(k, h) * round
        /\ rest(j) \in 0 .. round - 1 /\ rest(k) \in 0 .. round - 1
        /\ turn(j, i) \in Int /\ turn(k, h) \in Int
    <3> HIDE DEF pos, rest, turn
    <3> QED BY <1>7, <1>8, <2>1
  <2>3. rest(j) = rest(k) /\ turn(j, i) = turn(k, h)
    <3> HIDE DEF pos, rest, turn
    <3> QED BY <2>2, DivisionUnique
  <2> QED BY <2>1, <2>3
<1>9. ASSUME NEW x \in 1 .. Len(s)
      PROVE  \E j \in 1 .. round + index - 1 : \E i \in 1 .. size[j] : pos(j, i) = x
  <2> DEFINE q == (x - 1) \div round
             r == x - 1 - q * round
  <2>1. q \in Int /\ q * round <= x - 1 /\ x - 1 < q * round + round
    <3>1. x - 1 \in Int
      OBVIOUS
    <3> QED BY <3>1, Quotient
  <2>2. r \in 0 .. round - 1 /\ x - 1 = r + q * round
    <3>1. q * round \in Int
      BY <2>1, Strides
    <3> HIDE DEF q
    <3> QED BY <2>1, <3>1
  <2> HIDE DEF r
  <2>3. q >= 0
    <3> SUFFICES ASSUME q < 0 PROVE FALSE
      <4> HIDE DEF q
      <4> QED BY <2>1
    <3>1. q * round + round <= 0 * round /\ 0 * round = 0
      <4> HIDE DEF q
      <4> QED BY <2>1, Strides
    <3> HIDE DEF q
    <3> QED BY <2>1, <3>1
  <2> HIDE DEF q
  <2> DEFINE half == q \div 2
             j == IF r + 1 < index THEN (IF q = 2 * half THEN r + 1 ELSE r + 1 + round) ELSE r + 1
             i == IF r + 1 < index THEN half + 1 ELSE q + 1
  <2>4. half \in Nat /\ (q = 2 * half \/ q = 2 * half + 1)
    BY <2>1, <2>3
  <2> HIDE DEF half
  <2>5. j \in 1 .. round + index - 1 /\ i \in Nat \ {0}
    BY <2>1, <2>2, <2>3, <2>4
  <2>6. rest(j) = r /\ turn(j, i) = q
    BY <2>1, <2>2, <2>3, <2>4
  <2> HIDE DEF i, j
  <2>7. pos(j, i) = x
    <3>1. pos(j, i) - 1 = r + q * round
      <4> HIDE DEF pos, rest, turn
      <4> QED BY <1>7, <2>5, <2>6
    <3>2. pos(j, i) \in Int
      <4>1. i - 1 \in Int /\ t(j) \in Nat \ {0}
        BY <1>2, <2>5
      <4>2. (i - 1) * t(j) \in Int
        BY <4>1, Strides
      <4> QED BY <2>5, <4>2
    <3> HIDE DEF pos
    <3> QED BY <2>2, <3>1, <3>2
  <2>8. i <= size[j]
    <3> SUFFICES ASSUME size[j] < i PROVE FALSE
      BY <1>3, <2>5
    <3>1. size[j] \in Nat /\ t(j) \in Nat \ {0} /\ Len(s) <= j - 1 + size[j] * t(j)
      BY <1>2, <1>3, <2>5 DEF IsHandSize
    <3>2. size[j] * t(j) <= (i - 1) * t(j)
      <4>1. i - 1 \in Int /\ size[j] <= i - 1
        BY <2>5, <3>1
      <4> QED BY <3>1, <4>1, Strides
    <3>3. size[j] * t(j) \in Int /\ (i - 1) * t(j) \in Int
      <4>1. i - 1 \in Int
        BY <2>5
      <4> QED BY <3>1, <4>1, Strides
    <3> QED BY <1>1, <2>5, <2>7, <3>1, <3>2, <3>3
  <2> QED BY <1>3, <2>5, <2>7, <2>8
<1>10. \A p \in Places(stacks) : /\ p[1] \in 1 .. round + index - 1 /\ p[2] \in 1 .. size[p[1]]
                                 /\ p = <<p[1], p[2]>>
  <2> TAKE p \in Places(stacks)
  <2>1. PICK j \in DOMAIN stacks : p \in {j} \X DOMAIN stacks[j]
    BY DEF Places
  <2>2. j \in 1 .. round + index - 1 /\ DOMAIN stacks[j] = 1 .. size[j]
    BY <1>4, <1>5
  <2> QED BY <2>1, <2>2
<1>11. \A j \in 1 .. round + index - 1 : \A i \in 1 .. size[j] : <<j, i>> \in Places(stacks)
  <2> TAKE j \in 1 .. round + index - 1
  <2> TAKE i \in 1 .. size[j]
  <2>1. <<j, i>> \in {j} \X DOMAIN stacks[j] /\ j \in DOMAIN stacks
    BY <1>4, <1>5
  <2> QED BY <2>1 DEF Places
<1> DEFINE at == [p \in Places(stacks) |-> pos(p[1], p[2])]
<1> HIDE DEF pos, rest, turn
<1>12. at \in [Places(stacks) -> DOMAIN s]
  BY <1>1, <1>6, <1>10
<1>13. \A p \in Places(stacks) : stacks[p[1]][p[2]] = s[at[p]]
  BY <1>5, <1>10
<1>14. \A p, q \in Places(stacks) : at[p] = at[q] => p = q
  BY <1>8, <1>10
<1>15. \A x \in DOMAIN s : \E p \in Places(stacks) : at[p] = x
  BY <1>1, <1>9, <1>11
<1> HIDE DEF at
<1>16. IsDivision(s, stacks)
  BY <1>12, <1>13, <1>14, <1>15 DEF IsDivision
<1> QED BY <1>16 DEF stacks

\* What GetParallelStacks() returns are the stacks it has made in its last round,
\* when there are enough of them.
LEMMA GetParallelStacksIsRound ==
  ASSUME NEW s, NEW count \in Nat \ {0}
  PROVE  \E index \in 1 .. LastRound(count) + 1 :
           /\ count = LastRound(count) + index - 1
           /\ GetParallelStacks(s, count) = StacksAt(s, LastRound(count), index)
<1> DEFINE round == LastRound(count)
           index == IF count > 1 THEN count - round + 1 ELSE 1
           stride(j) == IF count > 1 /\ (j + round < count \/ j >= round)
                        THEN 2 * round
                        ELSE round
<1>1. /\ round \in Nat \ {0}
      /\ count > 1 => round < count /\ count <= 2 * round
      /\ count <= 1 => round = 1
  BY LastRoundBounds
<1>2. GetParallelStacks(s, count) = [j \in 1 .. count |-> Deal(s, j - 1, stride(j - 1))]
  BY DEF GetParallelStacks
<1> HIDE DEF round
<1>3. index \in 1 .. round + 1 /\ count = round + index - 1
  BY <1>1
<1>4. ASSUME NEW j \in 1 .. count
      PROVE  stride(j - 1) = StrideAt(j, round, index)
  BY <1>1 DEF StrideAt
<1> HIDE DEF stride, index
<1>5. [j \in 1 .. count |-> Deal(s, j - 1, stride(j - 1))] = StacksAt(s, round, index)
  BY <1>3, <1>4 DEF StacksAt
<1>6. GetParallelStacks(s, count) = StacksAt(s, round, index)
  BY <1>2, <1>5
<1> QED BY <1>3, <1>6 DEF round

\* Dividing never loses or doubles a state: each element of the stack is at exactly
\* one place of the stacks that GetParallelStacks() returns, whatever the length of
\* the stack and the number of clients.
THEOREM GetParallelStacksDivides ==
  ASSUME NEW S, NEW s \in Seq(S), NEW count \in Nat \ {0}
  PROVE  IsDivision(s, GetParallelStacks(s, count))
<1>1. LastRound(count) \in Nat \ {0}
  BY LastRoundBounds
<1>2. PICK index \in 1 .. LastRound(count) + 1 :
        GetParallelStacks(s, count) = StacksAt(s, LastRound(count), index)
  BY GetParallelStacksIsRound
<1> QED BY <1>1, <1>2, StacksAtDivide

\* No share is more than twice another one, and one state.
LEMMA StacksAtAreFair ==
  ASSUME NEW S, NEW s \in Seq(S), NEW round \in Nat \ {0}, NEW index \in 1 .. round + 1,
         NEW i \in 1 .. round + index - 1, NEW j \in 1 .. round + index - 1
  PROVE  LET stacks == StacksAt(s, round, index)
         IN  Len(stacks[i]) <= 2 * Len(stacks[j]) + 1
<1> DEFINE stacks == StacksAt(s, round, index)
           ti == StrideAt(i, round, index)
           tj == StrideAt(j, round, index)
<1>1. Len(s) \in Nat
  OBVIOUS
<1>2. ti \in {round, 2 * round} /\ tj \in {round, 2 * round} /\ ti \in Nat \ {0} /\ tj \in Nat \ {0}
  BY DEF StrideAt
<1>3. stacks[i] = Deal(s, i - 1, ti) /\ stacks[j] = Deal(s, j - 1, tj)
  BY DEF StacksAt
<1> HIDE DEF stacks, ti, tj
<1>4. PICK n \in Nat : stacks[i] = Hand(s, i - 1, ti, n) /\ IsHandSize(s, i - 1, ti, n)
  <2>1. i - 1 \in Nat
    OBVIOUS
  <2> QED BY <1>1, <1>2, <1>3, <2>1, DealIs
<1>5. PICK m \in Nat : stacks[j] = Hand(s, j - 1, tj, m) /\ IsHandSize(s, j - 1, tj, m)
  <2>1. j - 1 \in Nat
    OBVIOUS
  <2> QED BY <1>1, <1>2, <1>3, <2>1, DealIs
<1>6. Len(stacks[i]) = n /\ Len(stacks[j]) = m
  BY <1>4, <1>5 DEF Hand
<1>7. CASE n = 0
  BY <1>6, <1>7 DEF stacks
<1>8. CASE n > 0
  <2> DEFINE a == (n - 1) * round
             b == m * round
  <2>1. a \in Int /\ b \in Int /\ (n - 1) * (2 * round) = 2 * a /\ m * (2 * round) = 2 * b
    <3>1. n - 1 \in Int /\ m \in Int
      OBVIOUS
    <3> QED BY <3>1, Strides
  <2>2. i - 1 + (n - 1) * ti < j - 1 + m * tj
    <3>1. i - 1 + (n - 1) * ti < Len(s) /\ Len(s) <= j - 1 + m * tj
      BY <1>4, <1>5, <1>8 DEF IsHandSize
    <3>2. (n - 1) * ti \in Int /\ m * tj \in Int
      <4>1. n - 1 \in Int /\ m \in Int
        OBVIOUS
      <4> QED BY <1>2, <4>1, Strides
    <3> QED BY <1>1, <3>1, <3>2
  <2>3. n - 1 > 2 * m => 2 * b + round <= a
    <3>1. n - 1 > 2 * m => (2 * m) * round + round <= a
      <4>1. n - 1 \in Int /\ 2 * m \in Int
        OBVIOUS
      <4> QED BY <4>1, Strides
    <3>2. (2 * m) * round = 2 * b
      BY Strides
    <3> QED BY <3>1, <3>2
  <2>4. 0 <= b /\ (0 <= a)
    <3>1. 0 <= m /\ 0 <= n - 1 /\ 0 * round = 0 /\ m \in Int /\ n - 1 \in Int
      BY <1>8
    <3> QED BY <3>1, Strides
  <2> HIDE DEF a, b
  <2>5. SUFFICES ASSUME n - 1 > 2 * m PROVE FALSE
    BY <1>6 DEF stacks
  <2>6. 2 * b + round <= a
    BY <2>3, <2>5
  <2>7. CASE ti = round /\ tj = round
    <3>1. i - 1 + a < j - 1 + b /\ j <= round
      BY <2>2, <2>7 DEF a, b, tj, StrideAt
    <3> QED BY <2>1, <2>4, <2>6, <3>1
  <2>8. CASE ti = 2 * round /\ tj = round
    <3>1. i - 1 + 2 * a < j - 1 + b /\ j <= round
      BY <2>1, <2>2, <2>8 DEF a, b, tj, StrideAt
    <3> QED BY <2>1, <2>4, <2>6, <3>1
  <2>9. CASE ti = round /\ tj = 2 * round
    <3>1. i - 1 + a < j - 1 + 2 * b
      BY <2>1, <2>2, <2>9 DEF a, b
    <3>2. index <= i
      BY <2>9 DEF ti, StrideAt
    <3>3. j - 1 < i - 1 + round
      BY <3>2
    <3> QED BY <2>1, <2>4, <2>6, <3>1, <3>3
  <2>10. CASE ti = 2 * round /\ tj = 2 * round
    <3>1. i - 1 + 2 * a < j - 1 + 2 * b
      BY <2>1, <2>2, <2>10 DEF a, b
    <3>2. j - 1 < 2 * round
      OBVIOUS
    <3> QED BY <2>1, <2>4, <2>6, <3>1, <3>2
  <2> QED BY <1>2, <2>7, <2>8, <2>9, <2>10
<1> QED BY <1>7, <1>8

\* GetParallelStacks() returns a stack for each of the clients it is asked for.
LEMMA GetParallelStacksType ==
  ASSUME NEW S, NEW s \in Seq(S), NEW count \in Nat
  PROVE  GetParallelStacks(s, count) \in [1 .. count -> Seq(S)]
<1> DEFINE round == LastRound(count)
           stride(j) == IF count > 1 /\ (j + round < count \/ j >= round)
                        THEN 2 * round
                        ELSE round
<1>1. round \in Nat \ {0}
  BY LastRoundBounds
<1>2. \A j : stride(j) \in Nat \ {0}
  <2> HIDE DEF round
  <2> QED BY <1>1
<1>3. \A j \in 1 .. count : Deal(s, j - 1, stride(j - 1)) \in Seq(S)
  <2> HIDE DEF stride
  <2> QED BY <1>2, DealType
<1>4. GetParallelStacks(s, count) = [j \in 1 .. count |-> Deal(s, j - 1, stride(j - 1))]
  BY DEF GetParallelStacks
<1> HIDE DEF stride
<1> QED BY <1>3, <1>4

\* GetParallelStacks() leaves nobody without work when the stack has a state for each
\* client: no share of the deal is empty.
THEOREM SharesForAll ==
  ASSUME NEW S, NEW s \in Seq(S), NEW count \in Nat \ {0}, count <= Len(s), NEW j \in 1 .. count
  PROVE  GetParallelStacks(s, count)[j] # <<>>
<1> DEFINE round == LastRound(count)
           stride == IF count > 1 /\ (j - 1 + round < count \/ j - 1 >= round) THEN 2 * round ELSE round
<1>1. round \in Nat \ {0}
  BY LastRoundBounds
<1>2. GetParallelStacks(s, count)[j] = Deal(s, j - 1, stride)
  BY DEF GetParallelStacks
<1> HIDE DEF round
<1>3. stride \in Nat \ {0} /\ j - 1 \in Nat /\ Len(s) \in Nat
  BY <1>1
<1> HIDE DEF stride
<1>4. PICK n \in Nat : Deal(s, j - 1, stride) = Hand(s, j - 1, stride, n) /\ IsHandSize(s, j - 1, stride, n)
  BY <1>3, DealIs
<1>5. n # 0
  <2> SUFFICES ASSUME n = 0
               PROVE  FALSE
    OBVIOUS
  <2>1. Len(s) <= j - 1 + n * stride
    BY <1>4 DEF IsHandSize
  <2>2. n * stride = 0
    BY <1>3
  <2> QED BY <1>3, <2>1, <2>2
<1>6. 1 \in DOMAIN Hand(s, j - 1, stride, n)
  BY <1>5 DEF Hand
<1>7. Hand(s, j - 1, stride, n) # <<>>
  BY <1>6
<1> QED BY <1>2, <1>4, <1>7

=============================================================================
