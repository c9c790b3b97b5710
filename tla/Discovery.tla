------------------------------ MODULE Discovery ------------------------------
(***************************************************************************)
(* How the nodes find each other: the constructor of class NetworkManager  *)
(* opens a server on the first free port of its host, and DiscoverAll()    *)
(* then tries a range of ports at the first addresses of the subnet.  A    *)
(* server answers with one byte, for which a probe waits 5 ms only.        *)
(*                                                                         *)
(* Nothing is repeated: two nodes meet because each of them listens before *)
(* it probes.  main() waits until a node has another one.                  *)
(*                                                                         *)
(* This is the Linux build; the Windows build has no limit of tries.       *)
(***************************************************************************)
EXTENDS Integers, SequencesExt

CONSTANTS Node,         \* the processes
          Host,         \* the computers they run on
          HostOf,       \* the computer of each process
          Addresses,    \* the list of the addresses of each computer
          AddrSpace,    \* the number of addresses, 2^32 in the code
          SubnetSize,   \* the number of those in the subnet, 2^_maskBits in the code
          Network,      \* an address of the subnet
          MaxTries,     \* 16 in the code
          DefaultPort,  \* 1337 in the code
          ScanPorts,    \* the number of ports tried at an address, 8 in the code
          PortLimit,    \* 65536 in the code
          Foreign,      \* the ports of the computers that other programs listen on
          Missable      \* nodes that a probe may miss although they listen

Addr == 0 .. AddrSpace - 1
Port == DefaultPort .. PortLimit - 1

ASSUME HostAssumption == HostOf \in [Node -> Host] /\ Addresses \in [Host -> Seq(Addr)]
ASSUME SubnetAssumption ==
  /\ AddrSpace \in Nat /\ SubnetSize \in Nat \ {0}
  /\ AddrSpace % SubnetSize = 0 /\ SubnetSize < AddrSpace
ASSUME NetworkAssumption == Network \in Addr /\ MaxTries \in Nat
ASSUME PortAssumption ==
  /\ DefaultPort \in Nat /\ ScanPorts \in Nat \ {0} /\ PortLimit \in Nat
  /\ DefaultPort + ScanPorts <= PortLimit
ASSUME OthersAssumption == Foreign \subseteq Host \X Port /\ Missable \subseteq Node

\* The bits that the addresses of a subnet share.
Prefix(a) == a \div SubnetSize

\* No two computers share an address of the subnet.
ASSUME AddressAssumption ==
  \A h, k \in Host, a \in Addr : /\ Prefix(a) = Prefix(Network)
                                 /\ a \in ToSet(Addresses[h]) /\ a \in ToSet(Addresses[k])
                                 => h = k

VARIABLES pc,        \* where the main thread of a node is
          port,      \* the port that InitServer() tries, or has got
          next,      \* _stateAddr of the iterator of addresses
          tries,     \* how many addresses have been asked of it
          scanPort,  \* the port to be probed
          found,     \* the nodes whose answer has been received
          missed,    \* those that it has missed; not in the code
          probed,    \* all that has been probed; not in the code
          clients    \* the nodes in _clientConnections

vars == <<pc, port, next, tries, scanPort, found, missed, probed, clients>>
scan == <<next, tries, scanPort, found, missed, probed>>

\* In their order: not started; bind() and listen() of a port; before StartServer();
\* the loops of DiscoverAll() over addresses and ports; before AddFoundServers();
\* waiting in main(), and past it.  When there is no free port the process ends.
Place == {"off", "bind", "listen", "serve", "addresses", "ports", "add", "wait",
          "computing", "fatal"}

TypeOK ==
  /\ pc \in [Node -> Place]
  /\ port \in [Node -> Port]
  /\ next \in [Node -> Addr]
  /\ tries \in [Node -> 0 .. MaxTries + 1]
  /\ scanPort \in [Node -> DefaultPort .. DefaultPort + ScanPorts]
  /\ found \in [Node -> SUBSET Node] /\ missed \in [Node -> SUBSET Node]
  /\ probed \in [Node -> SUBSET (Addr \X Int)]
  /\ clients \in [Node -> SUBSET Node]

Goto(n, place) == pc' = [pc EXCEPT ![n] = place]

AddressesOf(n) == ToSet(Addresses[HostOf[n]])
Listening(n) == pc[n] \notin {"off", "bind", "listen", "fatal"}

\* Sockets that are bound but do not listen do not keep others from binding, with
\* SO_REUSEADDR.
PortTaken(n) ==
  \/ <<HostOf[n], port[n]>> \in Foreign
  \/ \E m \in Node : HostOf[m] = HostOf[n] /\ Listening(m) /\ port[m] = port[n]

-----------------------------------------------------------------------------
(* The server of a node *)

Start(n) ==
  /\ pc[n] = "off"
  /\ Goto(n, "bind")
  /\ UNCHANGED <<port, clients, scan>>

NextPort(n) ==
  IF port[n] + 1 < PortLimit
  THEN Goto(n, "bind") /\ port' = [port EXCEPT ![n] = @ + 1]
  ELSE Goto(n, "fatal") /\ UNCHANGED port

Bind(n) ==
  /\ pc[n] = "bind"
  /\ \/ ~PortTaken(n) /\ Goto(n, "listen") /\ UNCHANGED port
     \/ PortTaken(n) /\ NextPort(n)
  /\ UNCHANGED <<clients, scan>>

ListenUnchecked(n) ==  \* mutant: the result of listen() is ignored
  /\ pc[n] = "listen"
  /\ Goto(n, "serve")
  /\ UNCHANGED <<port, clients, scan>>

\* Another process may have begun to listen since bind().
Listen(n) ==
  /\ pc[n] = "listen"
  /\ \/ ~PortTaken(n) /\ Goto(n, "serve") /\ UNCHANGED port
     \/ PortTaken(n) /\ NextPort(n)
  /\ UNCHANGED <<clients, scan>>

\* The name of a node: the first address of its host within the subnet, which is
\* empty when there is none, and its port.
NoAddr == -1
LocalIndices(n) == {i \in DOMAIN Addresses[HostOf[n]] :
                      Prefix(Addresses[HostOf[n]][i]) = Prefix(Network)}
LocalAddr(n) == IF LocalIndices(n) = {} THEN NoAddr
                ELSE Addresses[HostOf[n]][Min(LocalIndices(n))]
NetworkId(n) == <<LocalAddr(n), port[n]>>

-----------------------------------------------------------------------------
(* Discovery *)

\* The iterator goes from here to the last address inclusive.
FirstAddr == Prefix(Network) * SubnetSize
MaxAddr == FirstAddr + (SubnetSize - 1)

StartServer(n) ==
  /\ pc[n] = "serve"
  /\ Goto(n, "addresses")
  /\ next' = [next EXCEPT ![n] = FirstAddr]
  /\ UNCHANGED <<port, tries, scanPort, found, missed, probed, clients>>

NextAddrButLast(n) ==  \* mutant: _stateAddr >= _maxAddr
  /\ pc[n] = "addresses"
  /\ IF tries[n] <= MaxTries /\ next[n] < MaxAddr
     THEN /\ Goto(n, "ports")
          /\ tries' = [tries EXCEPT ![n] = @ + 1]
          /\ next' = [next EXCEPT ![n] = (@ + 1) % AddrSpace]
          /\ scanPort' = [scanPort EXCEPT ![n] = DefaultPort]
     ELSE Goto(n, "add") /\ UNCHANGED <<next, tries, scanPort>>
  /\ UNCHANGED <<port, found, missed, probed, clients>>

NextAddrForgetting(n) ==  \* mutant: foundSockets is declared within the loop
  /\ pc[n] = "addresses"
  /\ IF tries[n] <= MaxTries /\ next[n] <= MaxAddr
     THEN /\ Goto(n, "ports")
          /\ tries' = [tries EXCEPT ![n] = @ + 1]
          /\ next' = [next EXCEPT ![n] = (@ + 1) % AddrSpace]
          /\ scanPort' = [scanPort EXCEPT ![n] = DefaultPort]
          /\ found' = [found EXCEPT ![n] = {}]
     ELSE Goto(n, "add") /\ UNCHANGED <<next, tries, scanPort, found>>
  /\ UNCHANGED <<port, missed, probed, clients>>

\* _stateAddr is incremented as an unsigned number.
NextAddr(n) ==
  /\ pc[n] = "addresses"
  /\ IF tries[n] <= MaxTries /\ next[n] <= MaxAddr
     THEN /\ Goto(n, "ports")
          /\ tries' = [tries EXCEPT ![n] = @ + 1]
          /\ next' = [next EXCEPT ![n] = (@ + 1) % AddrSpace]
          /\ scanPort' = [scanPort EXCEPT ![n] = DefaultPort]
     ELSE Goto(n, "add") /\ UNCHANGED <<next, tries, scanPort>>
  /\ UNCHANGED <<port, found, missed, probed, clients>>

\* The address that NextAddr() has returned, and the servers that listen on a port of it.
Current(n) == (next[n] - 1) % AddrSpace
Servers(a, p) == {m \in Node : Listening(m) /\ port[m] = p /\ a \in AddressesOf(m)}

\* connect() to a port and CheckForServer().  A server that is there is missed when it
\* answers too late, and when connect() succeeds at once, which it may do even though
\* the socket does not block: the code then closes the socket.
Probe(n) ==
  LET s == Servers(Current(n), scanPort[n]) IN
  /\ pc[n] = "ports"
  /\ probed' = [probed EXCEPT ![n] = @ \cup {<<Current(n), scanPort[n]>>}]
  /\ \/ s = {} /\ UNCHANGED <<found, missed>>
     \/ \E m \in s : found' = [found EXCEPT ![n] = @ \cup {m}] /\ UNCHANGED missed
     \/ \E m \in s \cap Missable : missed' = [missed EXCEPT ![n] = @ \cup {m}] /\ UNCHANGED found
  /\ scanPort' = [scanPort EXCEPT ![n] = @ + 1]
  /\ Goto(n, IF scanPort[n] + 1 < DefaultPort + ScanPorts THEN "ports" ELSE "addresses")
  /\ UNCHANGED <<port, next, tries, clients>>

AddFoundServers(n) ==
  /\ pc[n] = "add"
  /\ Goto(n, "wait")
  /\ UNCHANGED <<port, clients, scan>>

\* The outcome of a connection (module Connections): both ends know each other, unless
\* they have the same name.
Connect(n, m) ==
  /\ pc[n] \in {"wait", "computing"} /\ m \in found[n] \ clients[n]
  /\ NetworkId(n) # NetworkId(m)
  /\ clients' = [clients EXCEPT ![n] = @ \cup {m}, ![m] = @ \cup {n}]
  /\ UNCHANGED <<pc, port, scan>>

StartComputationWithTwo(n) ==  \* mutant: waits for two other nodes
  /\ pc[n] = "wait" /\ Cardinality(clients[n]) > 1
  /\ Goto(n, "computing")
  /\ UNCHANGED <<port, clients, scan>>

StartComputation(n) ==
  /\ pc[n] = "wait" /\ clients[n] # {}
  /\ Goto(n, "computing")
  /\ UNCHANGED <<port, clients, scan>>

-----------------------------------------------------------------------------
Init ==
  /\ pc = [n \in Node |-> "off"]
  /\ port = [n \in Node |-> DefaultPort]
  /\ next = [n \in Node |-> FirstAddr]
  /\ tries = [n \in Node |-> 0]
  /\ scanPort = [n \in Node |-> DefaultPort]
  /\ found = [n \in Node |-> {}]
  /\ missed = [n \in Node |-> {}]
  /\ probed = [n \in Node |-> {}]
  /\ clients = [n \in Node |-> {}]

Constructor(n) == Bind(n) \/ Listen(n) \/ StartServer(n)
DiscoverAll(n) == NextAddr(n) \/ Probe(n) \/ AddFoundServers(n)

\* What a process that has been started goes on to do.
Run(n) ==
  \/ Constructor(n)
  \/ DiscoverAll(n)
  \/ StartComputation(n)

Next ==
  \/ \E n \in Node : Start(n)
  \/ \E n \in Node : Run(n)
  \/ \E n, m \in Node : Connect(n, m)

\* The main thread of a process runs, and its connections are made.
Fairness ==
  /\ \A n \in Node : WF_vars(Run(n))
  /\ \A n, m \in Node : WF_vars(Connect(n, m))

Spec == Init /\ [][Next]_vars /\ Fairness

-----------------------------------------------------------------------------
(* Properties *)

Subnet == {a \in Addr : Prefix(a) = Prefix(Network)}
Scanned(a) == a \in Subnet /\ Cardinality({b \in Subnet : b < a}) <= MaxTries

ScannedPorts == DefaultPort .. DefaultPort + ScanPorts - 1

\* A server is where others look for it.
HasProbed(n, m) ==
  Listening(m) /\ \E a \in AddressesOf(m) : <<a, port[m]>> \in probed[n]

MayBeFound(n) ==
  /\ \E a \in AddressesOf(n) : Scanned(a)
  /\ \E p \in ScannedPorts : <<HostOf[n], p>> \notin Foreign

\* Two nodes that have both looked where the other one listens have met: at least one
\* of them has found the other, unless a probe missed it.  They may have looked in any
\* order, and before the other one was there: InitServer() comes before DiscoverAll().
PairsMeet ==
  \A n, m \in Node : HasProbed(n, m) /\ HasProbed(m, n) =>
    m \in found[n] \cup missed[n] \/ n \in found[m] \cup missed[m]

\* The names of the nodes differ, by which they are told apart everywhere else, if
\* their hosts have addresses in the subnet.  Two processes that bind the same port at
\* once must not both keep it.
NamesAreDistinct ==
  \A n, m \in Node : /\ n # m /\ Listening(n) /\ Listening(m)
                     /\ LocalAddr(n) # NoAddr /\ LocalAddr(m) # NoAddr
                     => NetworkId(n) # NetworkId(m)

\* All hosts of the subnet are scanned, as DiscoverAll() logs that they will be, the
\* first and the last address of it included: all of its ports at each of them, and
\* nothing outside of the subnet.  This is so only of a subnet that the number of tries
\* suffices for; of a larger one the log promises more than the code does.
ScansSubnet ==
  \A n \in Node : pc[n] \in {"add", "wait", "computing"} =>
    /\ probed[n] \subseteq Subnet \X ScannedPorts
    /\ SubnetSize <= MaxTries + 1 => Subnet \X ScannedPorts \subseteq probed[n]

\* Of two nodes on hosts that are scanned, each gets out of main()'s loop "Waiting for
\* at least 1 other clients", unless a probe missed a node, or other programs hold all
\* the ports that are scanned.  This includes a node that comes when those ports are taken:
\* nobody finds it, but it finds others.
NobodyIsLeftWaiting ==
  \A n \in Node : \A m \in Node \ {n} :
    Listening(n) /\ MayBeFound(n) /\ Listening(m) /\ MayBeFound(m)
    ~> pc[n] = "computing" \/ \E k \in Node : missed[k] # {}

=============================================================================
