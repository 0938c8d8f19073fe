CONSTANTS
  Users = {u1, u2, u3}
  Events = {e1, e2, e3}
  Manual = {e1}
  Squares = {1, 2}
  Lines <- OneLine
  MaxCards = 2
  Viewers = {w1}
  Consoles = {w1}
  Hooks = {w1}
  ChainConfigured = TRUE
  BatchSize = 1
  MaxFires = 2
  MaxFaults = 0
  Null = Null
SPECIFICATION Spec
PROPERTIES KeepsPromise
