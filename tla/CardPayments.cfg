CONSTANTS
  Users = {u1, u2}
  Intents = {i1, i2, i3}
  Price = 50
  MaxCards = 2
  Shoppers = {s1}
  Copies = {1}
  MaxFaults = 1
  Null = Null
SPECIFICATION FairSpec
INVARIANTS RevenueAgrees OneOutcome
PROPERTIES PayerServed
