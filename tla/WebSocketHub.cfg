SPECIFICATION MCSpec
CONSTANTS
  Sockets <- SocketIds
  Kinds <- AllKinds
  MaxSockets = 3
  MaxAttempts = 1
  MaxNews = 1
  MaxVisits = 3
  MaxFaults = 2
  None = None
INVARIANT RoomsFollowPages
INVARIANT OneSocket
INVARIANT EndIsKept
PROPERTY GhostsGo
PROPERTY OverlaySettles
CHECK_DEADLOCK FALSE
