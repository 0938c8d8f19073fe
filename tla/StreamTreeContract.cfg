CONSTANTS
  Addresses = {o, a}
  Owner = o
  Zero = Zero
  Episodes = {ep1, ep2, ep3}
  CardIds = {k1, k2}
  Supplies = {0, 1}
  NoKey = NoKey
  BranchBase = 3
  FruitBase = 5
  MaxId = 6
  MaxBatch = 2
SPECIFICATION Spec
SYMMETRY Symmetry
INVARIANTS TreeIntact
PROPERTIES KeepsLedger
