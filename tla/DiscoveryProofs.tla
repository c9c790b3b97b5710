--------------------------- MODULE DiscoveryProofs ---------------------------
(***************************************************************************)
(* Proofs about module Discovery, for any processes on any computers.      *)
(***************************************************************************)
EXTENDS Discovery, FiniteSetTheorems, TLAPS

\* A nonempty finite set of numbers has a least element: what Min chooses. The elements
\* that are not above it are a smallest set of that kind.
LEMMA HasLeast ==
  ASSUME NEW S, S \subseteq Int, IsFiniteSet(S), S # {}
  PROVE  \E x \in S : \A y \in S : x <= y
<1> DEFINE Beyond(x) == {y \in S : y <= x}
           Tails == {Beyond(x) : x \in S}
<1>1. Tails \subseteq FiniteSubsetsOf(S) /\ Tails # {}
  <2>1. FiniteSubsetsOf(S) = SUBSET S
    BY FS_FiniteSubsetsOfFinite
  <2>2. PICK x \in S : TRUE
    OBVIOUS
  <2>3. Tails \subseteq SUBSET S /\ Beyond(x) \in Tails
    BY <2>2
  <2> HIDE DEF Tails
  <2> QED BY <2>1, <2>3
<1>2. PICK U \in Tails : \A V \in Tails : <<V, U>> \notin StrictSubsetOrdering(S)
  <2> HIDE DEF Tails
  <2>1. IsWellFoundedOn(StrictSubsetOrdering(S), FiniteSubsetsOf(S))
    BY FS_StrictSubsetOrderingWellFounded
  <2> QED BY <1>1, <2>1, WFMin
<1>3. PICK x \in S : U = Beyond(x)
  BY <1>2
<1>4. ASSUME NEW y \in S, y < x
      PROVE  FALSE
  <2>1. \A z \in S : z \in Int
    OBVIOUS
  <2>2. ~ (x <= y) /\ x <= x /\ \A z \in S : z <= y => z <= x
    BY <1>4, <2>1
  <2>3. Beyond(y) \subseteq Beyond(x) /\ x \in Beyond(x) /\ x \notin Beyond(y)
    BY <2>2
  <2>4. Beyond(y) \in Tails /\ Beyond(y) \in SUBSET S /\ Beyond(x) \in SUBSET S
    OBVIOUS
  <2> HIDE DEF Beyond, Tails
  <2> QED BY <1>2, <1>3, <2>3, <2>4 DEF StrictSubsetOrdering
<1>5. \A y \in S : y \in Int /\ x \in Int
  OBVIOUS
<1> QED BY <1>4, <1>5

-----------------------------------------------------------------------------
(* Types *)

\* Counting addresses wraps around.
LEMMA AddressesWrap ==
  ASSUME NEW a \in Int
  PROVE  a % AddrSpace \in Addr
BY SubnetAssumption DEF Addr

\* The iterator starts at an address of the subnet.
LEMMA FirstIsAddress == FirstAddr \in Addr /\ Prefix(FirstAddr) = Prefix(Network)
<1> DEFINE q == Network \div SubnetSize
<1>1. Network \in Nat /\ SubnetSize \in Nat \ {0}
  BY SubnetAssumption, NetworkAssumption DEF Addr
<1>2. q \in Nat /\ q * SubnetSize <= Network
  BY <1>1
<1>3. (q * SubnetSize) \div SubnetSize = q
  BY <1>1, <1>2
<1>4. FirstAddr = q * SubnetSize
  BY DEF FirstAddr, Prefix
<1>5. FirstAddr \in Nat
  BY <1>1, <1>2, <1>4
<1> HIDE DEF q
<1>6. FirstAddr \in Addr
  BY <1>2, <1>4, <1>5, SubnetAssumption, NetworkAssumption DEF Addr
<1> QED BY <1>3, <1>4, <1>6 DEF Prefix, q

\* The subnet ends within the addresses.
LEMMA LastIsAddress == MaxAddr \in Addr
<1> DEFINE q == Network \div SubnetSize
           k == AddrSpace \div SubnetSize
<1>1. /\ Network \in Nat /\ Network < AddrSpace
      /\ SubnetSize \in Nat \ {0} /\ AddrSpace \in Nat
  BY SubnetAssumption, NetworkAssumption DEF Addr
<1>2. q \in Nat /\ k \in Nat /\ q * SubnetSize <= Network
  BY <1>1
<1>3. AddrSpace = k * SubnetSize
  BY <1>1, SubnetAssumption
<1>4. FirstAddr = q * SubnetSize
  BY DEF FirstAddr, Prefix
<1> HIDE DEF q, k
<1>5. q < k
  BY <1>1, <1>2, <1>3
<1>6. (q + 1) * SubnetSize <= k * SubnetSize
  BY <1>1, <1>2, <1>5
<1>7. (q + 1) * SubnetSize = q * SubnetSize + SubnetSize
  BY <1>1, <1>2
<1>8. FirstAddr \in Nat
  BY FirstIsAddress DEF Addr
<1> QED BY <1>1, <1>3, <1>4, <1>6, <1>7, <1>8 DEF MaxAddr, Addr

\* The addresses of the subnet are those from the first to the last one.
LEMMA SubnetIsRange == Subnet = FirstAddr .. MaxAddr
<1> DEFINE q == Network \div SubnetSize
<1>1. Network \in Nat /\ SubnetSize \in Nat \ {0} /\ AddrSpace \in Nat
  BY SubnetAssumption, NetworkAssumption DEF Addr
<1>2. q \in Nat
  BY <1>1
<1>3. FirstAddr = q * SubnetSize /\ FirstAddr \in Nat
  BY FirstIsAddress DEF FirstAddr, Prefix, Addr
<1>4. MaxAddr \in Nat /\ MaxAddr < AddrSpace
  BY LastIsAddress, <1>1 DEF Addr
<1> HIDE DEF q
<1>5. ASSUME NEW a \in Nat
      PROVE  a \div SubnetSize = q <=> q * SubnetSize <= a /\ a < q * SubnetSize + SubnetSize
  <2> DEFINE d == a \div SubnetSize
  <2>1. /\ d \in Nat /\ d * SubnetSize <= a /\ a < d * SubnetSize + SubnetSize
        /\ (d + 1) * SubnetSize = d * SubnetSize + SubnetSize
        /\ (q + 1) * SubnetSize = q * SubnetSize + SubnetSize
    BY <1>1, <1>2
  <2> HIDE DEF d
  <2>2. CASE d = q
    BY <2>1, <2>2 DEF d
  <2>3. CASE d < q
    <3>1. (d + 1) * SubnetSize <= q * SubnetSize
      BY <2>1, <2>3, <1>1, <1>2
    <3> QED BY <2>1, <2>3, <3>1, <1>1, <1>2 DEF d
  <2>4. CASE q < d
    <3>1. (q + 1) * SubnetSize <= d * SubnetSize
      BY <2>1, <2>4, <1>1, <1>2
    <3> QED BY <2>1, <2>4, <3>1, <1>1, <1>2 DEF d
  <2> QED BY <2>1, <2>2, <2>3, <2>4, <1>2
<1>6. Prefix(Network) = q
  BY DEF Prefix, q
<1>7. ASSUME NEW a \in Nat, a < AddrSpace
      PROVE  a \in Subnet <=> FirstAddr <= a /\ a <= MaxAddr
  BY <1>1, <1>3, <1>5, <1>6, <1>7 DEF Subnet, Addr, Prefix, MaxAddr
<1> QED BY <1>1, <1>3, <1>4, <1>7 DEF Subnet, Addr

\* So an address is scanned if it is one of the first MaxTries + 1 of these.
LEMMA ScannedIsRange ==
  ASSUME NEW a \in Addr
  PROVE  Scanned(a) <=> a \in FirstAddr .. MaxAddr /\ a - FirstAddr <= MaxTries
<1>1. FirstAddr \in Nat /\ MaxAddr \in Nat /\ a \in Nat
  BY FirstIsAddress, LastIsAddress, SubnetAssumption DEF Addr
<1>2. ASSUME a \in FirstAddr .. MaxAddr
      PROVE  Cardinality({b \in Subnet : b < a}) = a - FirstAddr
  <2>1. {b \in Subnet : b < a} = FirstAddr .. a - 1
    BY <1>1, <1>2, SubnetIsRange
  <2>2. FirstAddr <= a /\ a - 1 \in Int
    BY <1>1, <1>2
  <2>3. Cardinality(FirstAddr .. a - 1) = IF FirstAddr > a - 1 THEN 0 ELSE a - 1 - FirstAddr + 1
    BY <1>1, <2>2, FS_Interval
  <2>4. Cardinality(FirstAddr .. a - 1) = a - FirstAddr
    BY <1>1, <2>2, <2>3
  <2> QED BY <2>1, <2>4
<1> QED BY <1>2, SubnetIsRange DEF Scanned

-----------------------------------------------------------------------------
(* The inductive invariant *)

\* The scan ends before the iterator has passed the last of all addresses.
NoWrap == MaxTries < SubnetSize \/ MaxAddr < AddrSpace - 1

\* The first so many addresses of the subnet.
Block(k) == FirstAddr .. FirstAddr + k - 1

\* What a node has probed before, between two addresses, between two ports, and after.
BeforeScan(n) == tries[n] = 0 /\ probed[n] = {}
BetweenAddresses(n) ==
  /\ tries[n] <= SubnetSize
  /\ next[n] = (FirstAddr + tries[n]) % AddrSpace
  /\ probed[n] = Block(tries[n]) \X ScannedPorts
BetweenPorts(n) ==
  /\ tries[n] \in 1 .. SubnetSize
  /\ next[n] = (FirstAddr + tries[n]) % AddrSpace
  /\ scanPort[n] \in ScannedPorts
  /\ probed[n] = (Block(tries[n] - 1) \X ScannedPorts)
                  \cup ({FirstAddr + tries[n] - 1} \X (DefaultPort .. scanPort[n] - 1))
AfterScan(n) == probed[n] = {a \in Addr : Scanned(a)} \X ScannedPorts

ScanInv == \A n \in Node :
  /\ ~Listening(n) \/ pc[n] = "serve" => BeforeScan(n)
  /\ pc[n] = "addresses" => BetweenAddresses(n)
  /\ pc[n] = "ports" => BetweenPorts(n)
  /\ pc[n] \in {"add", "wait", "computing"} => AfterScan(n)

\* A port of a computer has at most one process that listens on it.
PortsAreDistinct ==
  \A n, m \in Node : /\ n # m /\ HostOf[n] = HostOf[m]
                     /\ Listening(n) /\ Listening(m)
                     => port[n] # port[m]

IInv == TypeOK /\ ScanInv /\ PortsAreDistinct /\ PairsMeet

LEMMA IInvInit == Init => IInv
<1> SUFFICES ASSUME Init
             PROVE  IInv
  OBVIOUS
<1>1. DefaultPort \in Port /\ DefaultPort \in DefaultPort .. DefaultPort + ScanPorts
  BY PortAssumption DEF Port
<1>2. TypeOK
  BY <1>1, FirstIsAddress, NetworkAssumption DEF Init, TypeOK, Place
<1>3. ScanInv
  BY DEF Init, ScanInv, BeforeScan, Listening
<1>4. PortsAreDistinct /\ PairsMeet
  BY DEF Init, PortsAreDistinct, PairsMeet, HasProbed, Listening
<1> QED BY <1>2, <1>3, <1>4 DEF IInv

\* What is known of a node that does not move holds of it as long as its part of the
\* scan stays as it is.
LEMMA ScanInvOfOthers ==
  ASSUME ScanInv, NEW n \in Node,
         \A m \in Node : m # n => /\ pc'[m] = pc[m] /\ next'[m] = next[m] /\ tries'[m] = tries[m]
                                 /\ scanPort'[m] = scanPort[m] /\ probed'[m] = probed[m],
         /\ ~Listening(n)' \/ pc'[n] = "serve" => BeforeScan(n)'
         /\ pc'[n] = "addresses" => BetweenAddresses(n)'
         /\ pc'[n] = "ports" => BetweenPorts(n)'
         /\ pc'[n] \in {"add", "wait", "computing"} => AfterScan(n)'
  PROVE  ScanInv'
BY DEF ScanInv, Listening, BeforeScan, BetweenAddresses, BetweenPorts, AfterScan

\* The iterator gives the addresses one after the other and ends in time.
LEMMA NextAddrScans ==
  ASSUME NoWrap, IInv, NEW n \in Node, NextAddr(n)
  PROVE  TypeOK' /\ ScanInv'
<1>1. /\ pc[n] = "addresses" /\ BetweenAddresses(n)
      /\ tries[n] \in 0 .. MaxTries + 1 /\ next[n] \in Addr
  BY DEF IInv, ScanInv, TypeOK, NextAddr
<1>2. /\ FirstAddr \in Nat /\ MaxAddr \in Nat /\ MaxAddr < AddrSpace
      /\ SubnetSize \in Nat \ {0} /\ AddrSpace \in Nat /\ MaxTries \in Nat
      /\ MaxAddr = FirstAddr + SubnetSize - 1
      /\ tries[n] \in Nat /\ tries[n] <= SubnetSize
      /\ next[n] = (FirstAddr + tries[n]) % AddrSpace
  BY <1>1, FirstIsAddress, LastIsAddress, SubnetAssumption, NetworkAssumption
     DEF Addr, MaxAddr, BetweenAddresses
<1>3. tries[n] < SubnetSize => next[n] = FirstAddr + tries[n]
  BY <1>2
<1>4. CASE tries[n] <= MaxTries /\ next[n] <= MaxAddr
  <2>1. /\ Goto(n, "ports")
        /\ tries' = [tries EXCEPT ![n] = @ + 1]
        /\ next' = [next EXCEPT ![n] = (@ + 1) % AddrSpace]
        /\ scanPort' = [scanPort EXCEPT ![n] = DefaultPort]
        /\ UNCHANGED <<port, found, missed, probed, clients>>
    BY <1>4 DEF NextAddr
  <2>2. tries[n] < SubnetSize
    <3>1. CASE MaxTries < SubnetSize
      BY <1>2, <1>4, <3>1
    <3>2. CASE MaxAddr < AddrSpace - 1
      BY <1>2, <1>4, <3>2
    <3> QED BY <3>1, <3>2 DEF NoWrap
  <2>3. TypeOK'
    <3>1. (next[n] + 1) % AddrSpace \in Addr
      BY <1>2, <1>3, <2>2, AddressesWrap
    <3>2. DefaultPort \in DefaultPort .. DefaultPort + ScanPorts
      BY PortAssumption
    <3>3. tries[n] + 1 \in 0 .. MaxTries + 1
      BY <1>2, <1>4
    <3> QED BY <2>1, <3>1, <3>2, <3>3 DEF IInv, TypeOK, Goto, Place
  <2>4. BetweenPorts(n)'
    <3>1. tries'[n] = tries[n] + 1 /\ tries'[n] \in 1 .. SubnetSize
      BY <1>2, <2>1, <2>2 DEF IInv, TypeOK
    <3>2. next'[n] = (FirstAddr + tries'[n]) % AddrSpace
      BY <1>2, <1>3, <2>1, <2>2, <3>1 DEF IInv, TypeOK
    <3>3. scanPort'[n] = DefaultPort /\ DefaultPort \in ScannedPorts
      BY <2>1, PortAssumption DEF IInv, TypeOK, ScannedPorts
    <3>4. /\ probed'[n] = Block(tries[n]) \X ScannedPorts
          /\ tries'[n] - 1 = tries[n]
          /\ DefaultPort .. scanPort'[n] - 1 = {}
      BY <1>1, <1>2, <2>1, <3>1, <3>3, PortAssumption DEF BetweenAddresses
    <3> QED BY <3>1, <3>2, <3>3, <3>4 DEF BetweenPorts, Block, ScannedPorts
  <2>5. pc'[n] = "ports"
    BY <2>1 DEF IInv, TypeOK, Goto
  <2>6. ScanInv'
    BY <2>1, <2>4, <2>5, ScanInvOfOthers DEF IInv, TypeOK, Goto, Listening
  <2> QED BY <2>3, <2>6
<1>5. CASE ~(tries[n] <= MaxTries /\ next[n] <= MaxAddr)
  <2>1. Goto(n, "add") /\ UNCHANGED <<next, tries, scanPort, port, found, missed, probed, clients>>
    BY <1>5 DEF NextAddr
  <2>2. TypeOK'
    BY <2>1 DEF IInv, TypeOK, Goto, Place
  <2>3. tries[n] = MaxTries + 1 \/ tries[n] = SubnetSize
    BY <1>1, <1>2, <1>3, <1>5
  <2>4. ASSUME NEW a \in Addr
        PROVE  Scanned(a) <=> a \in Block(tries[n])
    <3>1. a \in Nat /\ a < AddrSpace
      BY SubnetAssumption DEF Addr
    <3>2. tries[n] <= MaxTries + 1
      BY <1>1, <1>2
    <3> QED BY <1>2, <2>3, <3>1, <3>2, ScannedIsRange DEF Block
  <2>5. Block(tries[n]) \subseteq Addr
    BY <1>2, SubnetAssumption DEF Block, Addr
  <2>6. Block(tries[n]) = {a \in Addr : Scanned(a)}
    BY <2>4, <2>5
  <2>7. AfterScan(n)'
    BY <1>1, <2>1, <2>6 DEF AfterScan, BetweenAddresses
  <2>8. pc'[n] = "add"
    BY <2>1 DEF IInv, TypeOK, Goto
  <2>9. ScanInv'
    BY <2>1, <2>7, <2>8, ScanInvOfOthers DEF IInv, TypeOK, Goto, Listening
  <2> QED BY <2>2, <2>9
<1> QED BY <1>4, <1>5

\* The residue of the number before zero, with which _stateAddr wraps around.
LEMMA BeforeZero ==
  ASSUME NEW a \in Nat \ {0}
  PROVE  (0 - 1) % a = a - 1
<1> DEFINE d == (0 - 1) \div a
           m == (0 - 1) % a
<1>1. d \in Int /\ m \in 0 .. a - 1 /\ a * d + m = 0 - 1
  OBVIOUS
<1> HIDE DEF d, m
<1>2. CASE d >= 0
  <2>1. a * d >= 0
    BY <1>1, <1>2
  <2> QED BY <1>1, <2>1
<1>3. CASE d <= 0 - 2
  <2>1. a * d <= a * (0 - 2)
    BY <1>1, <1>3
  <2> QED BY <1>1, <2>1
<1>4. CASE d = 0 - 1
  BY <1>1, <1>4 DEF m
<1> QED BY <1>1, <1>2, <1>3, <1>4 DEF m

\* The main thread of a node between two ports of an address.
LEMMA ProbingNode ==
  ASSUME IInv, NEW n \in Node, pc[n] = "ports"
  PROVE  /\ BetweenPorts(n) /\ Listening(n)
         /\ scanPort[n] \in ScannedPorts /\ scanPort[n] \in Int
         /\ Current(n) = FirstAddr + tries[n] - 1
         /\ Current(n) \in Addr /\ Prefix(Current(n)) = Prefix(Network)
<1>1. BetweenPorts(n) /\ Listening(n)
  BY DEF IInv, ScanInv, Listening
<1>2. /\ FirstAddr \in Nat /\ MaxAddr \in Nat /\ MaxAddr < AddrSpace
      /\ SubnetSize \in Nat \ {0} /\ AddrSpace \in Nat
      /\ MaxAddr = FirstAddr + SubnetSize - 1
      /\ tries[n] \in 1 .. SubnetSize
      /\ next[n] = (FirstAddr + tries[n]) % AddrSpace
  BY <1>1, FirstIsAddress, LastIsAddress, SubnetAssumption DEF Addr, MaxAddr, BetweenPorts
<1>3. Current(n) = FirstAddr + tries[n] - 1
  <2>1. CASE FirstAddr + tries[n] < AddrSpace
    <3>1. next[n] = FirstAddr + tries[n]
      BY <1>2, <2>1
    <3>2. \A x \in 0 .. AddrSpace - 1 : x % AddrSpace = x
      BY <1>2
    <3>3. next[n] - 1 \in 0 .. AddrSpace - 1
      BY <1>2, <2>1, <3>1
    <3> QED BY <1>2, <3>1, <3>2, <3>3 DEF Current
  <2>2. CASE FirstAddr + tries[n] >= AddrSpace
    <3>1. FirstAddr + tries[n] = AddrSpace
      BY <1>2, <2>2
    <3>2. next[n] = 0
      BY <1>2, <3>1
    <3>3. (0 - 1) % AddrSpace = AddrSpace - 1
      BY <1>2, <3>1, <3>2, BeforeZero
    <3> QED BY <1>2, <3>1, <3>2, <3>3 DEF Current
  <2> QED BY <1>2, <2>1, <2>2
<1>4. Current(n) \in FirstAddr .. MaxAddr
  BY <1>2, <1>3
<1>5. Current(n) \in Addr /\ Prefix(Current(n)) = Prefix(Network)
  BY <1>4, SubnetIsRange DEF Subnet
<1>6. scanPort[n] \in ScannedPorts /\ scanPort[n] \in Int
  BY <1>1, PortAssumption DEF BetweenPorts, ScannedPorts
<1> QED BY <1>1, <1>3, <1>5, <1>6

\* The ports of an address are probed one after the other.
LEMMA ProbeScans ==
  ASSUME IInv, NEW n \in Node, Probe(n)
  PROVE  TypeOK' /\ ScanInv'
<1> DEFINE a == Current(n)
           p == scanPort[n]
<1>1. /\ pc[n] = "ports"
      /\ UNCHANGED <<port, next, tries, clients>>
      /\ probed' = [probed EXCEPT ![n] = @ \cup {<<a, p>>}]
      /\ scanPort' = [scanPort EXCEPT ![n] = @ + 1]
      /\ Goto(n, IF p + 1 < DefaultPort + ScanPorts THEN "ports" ELSE "addresses")
      /\ found' \in [Node -> SUBSET Node] /\ missed' \in [Node -> SUBSET Node]
  BY DEF IInv, TypeOK, Probe, Servers
<1>2. /\ BetweenPorts(n) /\ p \in ScannedPorts /\ p \in Int
      /\ a = FirstAddr + tries[n] - 1 /\ a \in Addr
  BY <1>1, ProbingNode
<1>3. p + 1 \in DefaultPort .. DefaultPort + ScanPorts
  BY <1>2, PortAssumption DEF ScannedPorts
<1>4. TypeOK'
  BY <1>1, <1>2, <1>3 DEF IInv, TypeOK, Goto, Place
<1>5. probed'[n] = (Block(tries[n] - 1) \X ScannedPorts) \cup ({a} \X (DefaultPort .. p))
  <2>1. probed[n] = (Block(tries[n] - 1) \X ScannedPorts) \cup ({a} \X (DefaultPort .. p - 1))
    BY <1>2 DEF BetweenPorts
  <2>2. DefaultPort .. p = (DefaultPort .. p - 1) \cup {p}
    BY <1>2, PortAssumption DEF ScannedPorts
  <2>3. probed'[n] = probed[n] \cup {<<a, p>>}
    BY <1>1 DEF IInv, TypeOK
  <2> HIDE DEF a, p
  <2> QED BY <2>1, <2>2, <2>3
<1>6. CASE p + 1 < DefaultPort + ScanPorts
  <2>1. pc'[n] = "ports"
    BY <1>1, <1>6 DEF IInv, TypeOK, Goto
  <2>2. scanPort'[n] = p + 1 /\ p + 1 \in ScannedPorts /\ scanPort'[n] - 1 = p
    BY <1>1, <1>2, <1>6, PortAssumption DEF IInv, TypeOK, ScannedPorts
  <2>3. BetweenPorts(n)'
    BY <1>1, <1>2, <1>5, <2>2 DEF BetweenPorts, Block, ScannedPorts
  <2> QED BY <1>1, <1>4, <2>1, <2>3, ScanInvOfOthers DEF IInv, TypeOK, Goto, Listening
<1>7. CASE ~(p + 1 < DefaultPort + ScanPorts)
  <2>1. pc'[n] = "addresses"
    BY <1>1, <1>7 DEF IInv, TypeOK, Goto
  <2>2. DefaultPort .. p = ScannedPorts
    <3>1. p = DefaultPort + ScanPorts - 1
      BY <1>2, <1>7, PortAssumption DEF ScannedPorts
    <3> QED BY <3>1 DEF ScannedPorts
  <2>3. Block(tries[n]) = Block(tries[n] - 1) \cup {a}
    <3>1. FirstAddr \in Nat /\ tries[n] \in Nat /\ tries[n] >= 1
      BY <1>2, FirstIsAddress, SubnetAssumption DEF BetweenPorts, Addr
    <3> QED BY <1>2, <3>1 DEF Block
  <2>4. probed'[n] = Block(tries[n]) \X ScannedPorts
    <3> HIDE DEF a, p
    <3> QED BY <1>5, <2>2, <2>3
  <2>5. BetweenAddresses(n)'
    BY <1>1, <1>2, <2>4, SubnetAssumption DEF BetweenAddresses, BetweenPorts, Block, ScannedPorts
  <2> QED BY <1>1, <1>4, <2>1, <2>5, ScanInvOfOthers DEF IInv, TypeOK, Goto, Listening
<1> QED BY <1>6, <1>7

\* A probe comes to those that listen at that place: the one that is not found has not
\* been there yet, and will look for the prober, which listens.
LEMMA ProbeMeets ==
  ASSUME IInv, NEW n \in Node, Probe(n), TypeOK'
  PROVE  PortsAreDistinct' /\ PairsMeet'
<1> DEFINE a == Current(n)
           p == scanPort[n]
           s == Servers(a, p)
<1>1. /\ UNCHANGED port
      /\ probed' = [probed EXCEPT ![n] = @ \cup {<<a, p>>}]
      /\ Goto(n, IF p + 1 < DefaultPort + ScanPorts THEN "ports" ELSE "addresses")
      /\ \A m \in Node : found[m] \subseteq found'[m] /\ missed[m] \subseteq missed'[m]
      /\ pc[n] = "ports"
  BY DEF IInv, TypeOK, Probe
<1>2. a \in Addr /\ Prefix(a) = Prefix(Network) /\ Listening(n)
  BY <1>1, ProbingNode
<1>3. \A m \in Node : Listening(m)' <=> Listening(m)
  BY <1>1, <1>2 DEF IInv, TypeOK, Goto, Listening
<1>4. PortsAreDistinct'
  BY <1>1, <1>3 DEF IInv, PortsAreDistinct
<1>5. ASSUME NEW m \in Node, HasProbed(n, m)', ~HasProbed(n, m)
      PROVE  m \in found'[n] \cup missed'[n]
  <2>1. PICK b \in AddressesOf(m) : <<b, port[m]>> \in probed'[n]
    BY <1>1, <1>5 DEF HasProbed, AddressesOf
  <2>2. Listening(m) /\ <<b, port[m]>> \notin probed[n]
    BY <1>3, <1>5, <2>1 DEF HasProbed
  <2>3. b = a /\ port[m] = p
    BY <1>1, <2>1, <2>2 DEF IInv, TypeOK
  <2>4. m \in s
    BY <2>1, <2>2, <2>3 DEF Servers
  <2>5. ASSUME NEW k \in s
        PROVE  k = m
    <3>1. k \in Node /\ Listening(k) /\ port[k] = p /\ a \in AddressesOf(k)
      BY <2>5 DEF Servers
    <3>2. HostOf[k] = HostOf[m]
      BY <1>2, <2>1, <2>3, <3>1, HostAssumption, AddressAssumption DEF AddressesOf
    <3> QED BY <2>2, <2>3, <3>1, <3>2 DEF IInv, PortsAreDistinct
  <2> HIDE DEF s
  <2>6. \/ found' = [found EXCEPT ![n] = @ \cup {m}]
        \/ missed' = [missed EXCEPT ![n] = @ \cup {m}]
    BY <2>4, <2>5 DEF Probe, s
  <2> QED BY <2>6 DEF IInv, TypeOK
<1>6. ASSUME NEW i \in Node, NEW j \in Node, HasProbed(i, j)', HasProbed(j, i)'
      PROVE  j \in found'[i] \cup missed'[i] \/ i \in found'[j] \cup missed'[j]
  <2>1. i # n => HasProbed(i, j)
    BY <1>1, <1>3, <1>6 DEF HasProbed, AddressesOf, IInv, TypeOK
  <2>2. j # n => HasProbed(j, i)
    BY <1>1, <1>3, <1>6 DEF HasProbed, AddressesOf, IInv, TypeOK
  <2>3. CASE HasProbed(i, j) /\ HasProbed(j, i)
    BY <1>1, <2>3 DEF IInv, PairsMeet
  <2> QED BY <1>5, <1>6, <2>1, <2>2, <2>3
<1>7. PairsMeet'
  BY <1>6 DEF PairsMeet
<1> QED BY <1>4, <1>7

\* InitServer() goes on, without a server, or with none for ever.
LEMMA NextPortStep ==
  ASSUME IInv, NEW n \in Node, pc[n] \in {"bind", "listen"}, NextPort(n), UNCHANGED <<clients, scan>>
  PROVE  IInv'
<1>1. TypeOK'
  BY PortAssumption DEF IInv, TypeOK, NextPort, Goto, Place, Port, scan
<1>2. \A m \in Node : Listening(m)' <=> Listening(m)
  BY DEF IInv, TypeOK, NextPort, Goto, Listening
<1>3. \A m \in Node : Listening(m) => port'[m] = port[m] /\ pc'[m] = pc[m]
  BY DEF IInv, TypeOK, NextPort, Goto, Listening
<1>4. BeforeScan(n)' /\ pc'[n] \in {"bind", "fatal"}
  BY DEF IInv, TypeOK, ScanInv, Listening, BeforeScan, NextPort, Goto, scan
<1>5. ScanInv'
  BY <1>4, ScanInvOfOthers DEF IInv, TypeOK, NextPort, Goto, scan
<1>6. PortsAreDistinct' /\ PairsMeet'
  BY <1>2, <1>3 DEF IInv, PortsAreDistinct, PairsMeet, HasProbed, AddressesOf, scan
<1> QED BY <1>1, <1>5, <1>6 DEF IInv

\* The steps after which the same nodes listen at the same places, and nothing more has
\* been probed.
LEMMA QuietStep ==
  ASSUME IInv, UNCHANGED <<port, found, missed, probed>>,
         \A m \in Node : Listening(m)' <=> Listening(m)
  PROVE  PortsAreDistinct' /\ PairsMeet'
BY DEF IInv, PortsAreDistinct, PairsMeet, HasProbed, AddressesOf

\* A node that begins to listen has not probed anything.
LEMMA ListenStep ==
  ASSUME IInv, NEW n \in Node, pc[n] = "listen", ~PortTaken(n), Goto(n, "serve"),
         UNCHANGED <<port, clients, scan>>
  PROVE  IInv'
<1>1. TypeOK'
  BY DEF IInv, TypeOK, Goto, Place, scan
<1>2. /\ \A m \in Node : m # n => (Listening(m)' <=> Listening(m))
      /\ ~Listening(n) /\ pc'[n] = "serve"
  BY DEF IInv, TypeOK, Goto, Listening
<1>3. BeforeScan(n) /\ BeforeScan(n)'
  BY <1>2 DEF IInv, ScanInv, BeforeScan, scan
<1>4. ScanInv'
  BY <1>2, <1>3, ScanInvOfOthers DEF IInv, TypeOK, Goto, scan
<1>5. PortsAreDistinct'
  BY <1>2 DEF IInv, PortsAreDistinct, PortTaken
<1>6. ASSUME NEW i \in Node, NEW j \in Node, HasProbed(i, j)', HasProbed(j, i)'
      PROVE  j \in found'[i] \cup missed'[i] \/ i \in found'[j] \cup missed'[j]
  <2>1. i # n /\ j # n
    BY <1>3, <1>6 DEF HasProbed, BeforeScan
  <2>2. HasProbed(i, j) /\ HasProbed(j, i)
    BY <1>2, <1>6, <2>1 DEF HasProbed, AddressesOf, scan
  <2> QED BY <2>2 DEF IInv, PairsMeet, scan
<1>7. PairsMeet'
  BY <1>6 DEF PairsMeet
<1> QED BY <1>1, <1>4, <1>5, <1>7 DEF IInv

LEMMA IInvStep ==
  ASSUME NoWrap, IInv, [Next]_vars
  PROVE  IInv'
<1>1. ASSUME NEW n \in Node, Start(n)
      PROVE  IInv'
  <2>1. TypeOK'
    BY <1>1 DEF IInv, TypeOK, Start, Goto, Place, scan
  <2>2. \A m \in Node : Listening(m)' <=> Listening(m)
    BY <1>1 DEF IInv, TypeOK, Start, Goto, Listening
  <2>3. BeforeScan(n)' /\ pc'[n] = "bind"
    BY <1>1 DEF IInv, TypeOK, ScanInv, BeforeScan, Listening, Start, Goto, scan
  <2>4. ScanInv'
    BY <1>1, <2>3, ScanInvOfOthers DEF IInv, TypeOK, Start, Goto, scan
  <2> QED BY <1>1, <2>1, <2>2, <2>4, QuietStep DEF IInv, Start, scan
<1>2. ASSUME NEW n \in Node, Bind(n)
      PROVE  IInv'
  <2>1. CASE NextPort(n)
    BY <1>2, <2>1, NextPortStep DEF Bind
  <2>2. CASE Goto(n, "listen") /\ UNCHANGED <<port, clients, scan>>
    <3>1. TypeOK'
      BY <2>2 DEF IInv, TypeOK, Goto, Place, scan
    <3>2. \A m \in Node : Listening(m)' <=> Listening(m)
      BY <1>2, <2>2 DEF IInv, TypeOK, Bind, Goto, Listening
    <3>3. BeforeScan(n)' /\ pc'[n] = "listen"
      BY <1>2, <2>2 DEF IInv, TypeOK, ScanInv, BeforeScan, Listening, Bind, Goto, scan
    <3>4. ScanInv'
      BY <2>2, <3>3, ScanInvOfOthers DEF IInv, TypeOK, Goto, scan
    <3> QED BY <2>2, <3>1, <3>2, <3>4, QuietStep DEF IInv, scan
  <2> QED BY <1>2, <2>1, <2>2 DEF Bind
<1>3. ASSUME NEW n \in Node, Listen(n)
      PROVE  IInv'
  <2>1. CASE NextPort(n)
    BY <1>3, <2>1, NextPortStep DEF Listen
  <2>2. CASE ~PortTaken(n) /\ Goto(n, "serve") /\ UNCHANGED port
    BY <1>3, <2>2, ListenStep DEF Listen
  <2> QED BY <1>3, <2>1, <2>2 DEF Listen
<1>4. ASSUME NEW n \in Node, StartServer(n)
      PROVE  IInv'
  <2>1. TypeOK'
    BY <1>4, FirstIsAddress DEF IInv, TypeOK, StartServer, Goto, Place
  <2>2. \A m \in Node : Listening(m)' <=> Listening(m)
    BY <1>4 DEF IInv, TypeOK, StartServer, Goto, Listening
  <2>3. BeforeScan(n)
    BY <1>4 DEF IInv, ScanInv, StartServer
  <2>4. BetweenAddresses(n)'
    <3>1. FirstAddr \in Nat /\ FirstAddr < AddrSpace /\ SubnetSize \in Nat /\ AddrSpace \in Nat
      BY FirstIsAddress, SubnetAssumption DEF Addr
    <3>2. (FirstAddr + 0) % AddrSpace = FirstAddr
      BY <3>1
    <3>3. Block(0) = {}
      BY <3>1 DEF Block
    <3>4. tries'[n] = 0 /\ next'[n] = FirstAddr /\ probed'[n] = {}
      BY <1>4, <2>3 DEF IInv, TypeOK, StartServer, BeforeScan
    <3> QED BY <3>1, <3>2, <3>3, <3>4 DEF BetweenAddresses, Block, ScannedPorts
  <2>5. pc'[n] = "addresses"
    BY <1>4 DEF IInv, TypeOK, StartServer, Goto
  <2>6. ScanInv'
    BY <1>4, <2>4, <2>5, ScanInvOfOthers DEF IInv, TypeOK, StartServer, Goto, Listening
  <2> QED BY <1>4, <2>1, <2>2, <2>6, QuietStep DEF IInv, StartServer
<1>5. ASSUME NEW n \in Node, NextAddr(n)
      PROVE  IInv'
  <2>1. \A m \in Node : Listening(m)' <=> Listening(m)
    BY <1>5 DEF IInv, TypeOK, NextAddr, Goto, Listening
  <2>2. UNCHANGED <<port, found, missed, probed>>
    BY <1>5 DEF NextAddr
  <2> QED BY <1>5, <2>1, <2>2, NextAddrScans, QuietStep DEF IInv
<1>6. ASSUME NEW n \in Node, Probe(n)
      PROVE  IInv'
  BY <1>6, ProbeScans, ProbeMeets DEF IInv
<1>7. ASSUME NEW n \in Node, AddFoundServers(n) \/ StartComputation(n)
      PROVE  IInv'
  <2>1. /\ UNCHANGED <<port, clients, scan>>
        /\ pc[n] \in {"add", "wait"}
        /\ Goto(n, "wait") \/ Goto(n, "computing")
    BY <1>7 DEF AddFoundServers, StartComputation
  <2>2. TypeOK'
    BY <2>1 DEF IInv, TypeOK, Goto, Place, scan
  <2>3. \A m \in Node : Listening(m)' <=> Listening(m)
    BY <2>1 DEF IInv, TypeOK, Goto, Listening
  <2>4. AfterScan(n)' /\ pc'[n] \in {"wait", "computing"}
    BY <2>1 DEF IInv, TypeOK, ScanInv, AfterScan, Goto, scan
  <2>5. ScanInv'
    BY <2>1, <2>4, ScanInvOfOthers DEF IInv, TypeOK, Goto, Listening, scan
  <2> QED BY <2>1, <2>2, <2>3, <2>5, QuietStep DEF IInv, scan
<1>8. ASSUME NEW n \in Node, NEW m \in Node, Connect(n, m)
      PROVE  IInv'
  <2>1. UNCHANGED <<pc, port, scan>>
    BY <1>8 DEF Connect
  <2>2. TypeOK'
    BY <1>8, <2>1 DEF IInv, TypeOK, Connect, scan
  <2>3. ScanInv' /\ \A k \in Node : Listening(k)' <=> Listening(k)
    BY <2>1 DEF IInv, ScanInv, Listening, BeforeScan, BetweenAddresses, BetweenPorts, AfterScan, scan
  <2> QED BY <2>1, <2>2, <2>3, QuietStep DEF IInv, scan
<1>9. CASE UNCHANGED vars
  BY <1>9 DEF IInv, TypeOK, ScanInv, Listening, BeforeScan, BetweenAddresses, BetweenPorts,
              AfterScan, PortsAreDistinct, PairsMeet, HasProbed, AddressesOf, vars
<1> QED BY <1>1, <1>2, <1>3, <1>4, <1>5, <1>6, <1>7, <1>8, <1>9
        DEF Next, Run, Constructor, DiscoverAll

LEMMA Inductive == ASSUME NoWrap PROVE Spec => []IInv
BY IInvInit, IInvStep, PTL DEF Spec

-----------------------------------------------------------------------------
(* Theorems *)

\* The address in the name of a node is one of its host's, within the subnet.
LEMMA LocalAddrIsLocal ==
  ASSUME NEW n \in Node, LocalAddr(n) # NoAddr
  PROVE  LocalAddr(n) \in AddressesOf(n) /\ LocalAddr(n) \in Addr
         /\ Prefix(LocalAddr(n)) = Prefix(Network)
<1> DEFINE a == Addresses[HostOf[n]]
           S == LocalIndices(n)
<1>1. a \in Seq(Addr)
  BY HostAssumption
<1>2. S \subseteq 1 .. Len(a) /\ Len(a) \in Nat /\ DOMAIN a = 1 .. Len(a)
  BY <1>1 DEF LocalIndices
<1>3. S # {} /\ LocalAddr(n) = a[Min(S)]
  BY DEF LocalAddr
<1>4. IsFiniteSet(S) /\ S \subseteq Int
  <2>1. IsFiniteSet(1 .. Len(a))
    BY <1>2, FS_Interval
  <2> QED BY <1>2, <2>1, FS_Subset
<1>5. Min(S) \in S
  <2> HIDE DEF S
  <2>1. \E i \in S : \A j \in S : i <= j
    BY <1>3, <1>4, HasLeast
  <2> QED BY <2>1 DEF Min
<1>6. Min(S) \in DOMAIN a /\ Prefix(a[Min(S)]) = Prefix(Network)
  BY <1>5 DEF LocalIndices
<1> QED BY <1>1, <1>2, <1>3, <1>6 DEF AddressesOf, ToSet

\* Types, of all reachable states.
THEOREM Typed == ASSUME NoWrap PROVE Spec => []TypeOK
BY Inductive, PTL DEF IInv

\* Two nodes that have both probed the place where the other one listens have met, since
\* each of them listens before it probes: for any number of nodes, computers, addresses
\* and ports.
THEOREM NodesMeet == ASSUME NoWrap PROVE Spec => []PairsMeet
BY Inductive, PTL DEF IInv

\* The names of nodes on hosts that are in the subnet differ.
THEOREM NamesTellApart == ASSUME NoWrap PROVE Spec => []NamesAreDistinct
<1>1. IInv => NamesAreDistinct
  <2> SUFFICES ASSUME IInv, NEW n \in Node, NEW m \in Node, n # m,
                      Listening(n), Listening(m),
                      LocalAddr(n) # NoAddr, LocalAddr(m) # NoAddr,
                      NetworkId(n) = NetworkId(m)
               PROVE  FALSE
    BY DEF NamesAreDistinct
  <2>1. LocalAddr(n) = LocalAddr(m) /\ port[n] = port[m]
    BY DEF NetworkId
  <2>2. HostOf[n] = HostOf[m]
    BY <2>1, LocalAddrIsLocal, HostAssumption, AddressAssumption DEF AddressesOf
  <2> QED BY <2>1, <2>2 DEF IInv, PortsAreDistinct
<1> QED BY <1>1, Inductive, PTL

\* A scan that is over has probed all ports of all addresses of the subnet, if there are
\* no more of these than tries, and never anything outside of it.
THEOREM ScanIsComplete == ASSUME NoWrap PROVE Spec => []ScansSubnet
<1>1. ASSUME IInv, NEW n \in Node, pc[n] \in {"add", "wait", "computing"}
      PROVE  /\ probed[n] \subseteq Subnet \X ScannedPorts
             /\ SubnetSize <= MaxTries + 1 => Subnet \X ScannedPorts \subseteq probed[n]
  <2>1. probed[n] = {a \in Addr : Scanned(a)} \X ScannedPorts
    BY <1>1 DEF IInv, ScanInv, AfterScan
  <2>2. \A a \in Addr : Scanned(a) => a \in Subnet
    BY DEF Scanned
  <2>3. ASSUME SubnetSize <= MaxTries + 1, NEW a \in Subnet
        PROVE  a \in Addr /\ Scanned(a)
    <3>1. a \in Addr /\ a \in FirstAddr .. MaxAddr
      BY SubnetIsRange DEF Subnet
    <3>2. a - FirstAddr <= MaxTries
      <4>1. FirstAddr \in Nat /\ SubnetSize \in Nat /\ MaxTries \in Nat /\ a \in Int
        BY <3>1, FirstIsAddress, SubnetAssumption, NetworkAssumption DEF Addr
      <4> QED BY <2>3, <3>1, <4>1 DEF MaxAddr
    <3> QED BY <3>1, <3>2, ScannedIsRange
  <2> QED BY <2>1, <2>2, <2>3
<1>2. IInv => ScansSubnet
  BY <1>1 DEF ScansSubnet
<1> QED BY <1>2, Inductive, PTL

=============================================================================
