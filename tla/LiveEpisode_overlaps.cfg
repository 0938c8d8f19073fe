CONSTANTS
  Users = {u1}
  Events = {e1, e2}
  Manual = {e1}
  Squares = {1, 2}
  Lines <- OneLine
  MaxCards = 0
  Viewers = {v1}
  Consoles = {c1, c2}
  Hooks = {h1}
  ChainConfigured = TRUE
  BatchSize = 1
  MaxFires = 1
  MaxFaults = 0
  Null = Null
SPECIFICATION Spec
SYMMETRY Symmetry
INVARIANTS BranchUnderRoot MarkedWasFired FiresLogged
PROPERTIES MarksStay EndedFreezes StatusForward
