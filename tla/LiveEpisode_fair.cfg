CONSTANTS
  Users = {u1, u2}
  Events = {e1}
  Manual = {}
  Squares = {1}
  Lines <- OneLine
  MaxCards = 0
  Viewers = {v1}
  Consoles = {c1}
  Hooks = {h1}
  ChainConfigured = TRUE
  BatchSize = 1
  MaxFires = 2
  MaxFaults = 0
  Null = Null
SPECIFICATION FairSpec
INVARIANTS StragglerBound
PROPERTIES EndFruitsAll
