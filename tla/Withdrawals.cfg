CONSTANTS
  r1 = r1
  Rows = {r1, r2, r3}
  Amounts = {50, 5056}
  MaxCards = 2
  FeePercent = 8
  Tabs = {p1, p2}
  a1 = a1
  Accounts = {a1, a2}
  MaxChanges = 2
  NoAccount = NoAccount
  MaxFaults = 1
  Null = Null
SPECIFICATION MCSpec
SYMMETRY Symmetry
INVARIANTS PayoutsCovered GrossAgrees FlagIsOfAccount
