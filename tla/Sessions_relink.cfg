CONSTANTS
  Tabs = {w1, w2}
  Tokens = {t1, t2, t3}
  Jwt = 1
  Hour = 2
  Life = 3
  Absolute = 2
  MaxTime = 5
  MaxFaults = 1
  Null = Null
  Clients = {c1, c2}
  Ids = {i1, i2, i3}
  Wallets = {a1, a2}
  b1 = b1
  Bases = {b1}
  Keys <- AllKeys
  ShortAddress <- OnePrefix
  TypedNames <- OneName
  MaxAsks = 5
SPECIFICATION AccountsSpec
SYMMETRY Symmetry
INVARIANTS FindOrCreate
