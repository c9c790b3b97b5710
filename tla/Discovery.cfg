CONSTANTS
  Node = {1, 2, 3}
  Host = {"a", "b"}
  HostOf <- MCHostOf
  Addresses <- MCAddresses
  AddrSpace = 16
  SubnetSize = 2
  Network = 7
  MaxTries = 1
  DefaultPort = 1
  ScanPorts = 2
  PortLimit = 4
  Missable = {3}
  Foreign <- MCForeign

SPECIFICATION Spec

INVARIANT PairsMeet
INVARIANT NamesAreDistinct
INVARIANT ScansSubnet
PROPERTY NobodyIsLeftWaiting

CHECK_DEADLOCK FALSE
