CONSTANTS
  u1 = u1
  e1 = e1
  x1 = x1
  Users = {u1}
  Accounts = {a1}
  Episodes = {e1}
  Subs = {s1, s2}
  States = {x1, x2, x3}
  StreamerOf <- OneStreamer
  Types = {"cheer"}
  Defs <- TwoDefs
  Amounts = {1, 2}
  Requests = {r1}
  Hooks = {h1}
  Callbacks = {c1, c2}
  Keys = {k1}
  NoKey = NoKey
  MaxStates = 2
  MaxFaults = 2
  MaxDeliveries = 2
  Null = Null
SPECIFICATION MCSpec
SYMMETRY Symmetry
INVARIANTS SecretsComplete OrphansNeedFaults StateUsedOnce FiredPerDelivery
