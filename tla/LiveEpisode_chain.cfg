CONSTANTS
  Users = {u1, u2, u3}
  Events = {e1}
  Manual = {}
  Squares = {1}
  Lines <- OneLine
  MaxCards = 1
  Viewers = {v1, v2}
  Consoles = {c1}
  Hooks = {h1}
  ChainConfigured = TRUE
  BatchSize = 2
  MaxFires = 1
  MaxFaults = 1
  Null = Null
SPECIFICATION Spec
SYMMETRY Symmetry
INVARIANTS Accounting OversellBound
PROPERTIES FruitedStays
