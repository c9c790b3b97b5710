CONSTANTS
  Node = {1, 2, 3, 4}
  Late = {}
  Crashable = {}
  MaxInFlight = 3
  NoNode = NoNode

SPECIFICATION Spec

INVARIANT OnlyHighestLeads
INVARIANT FollowsALeader
PROPERTY Agreement
PROPERTY ImplementsLeadership

CHECK_DEADLOCK FALSE
