CONSTANTS
  e1 = e1
  e2 = e2
  d1 = d1
  d2 = d2
  c1 = c1
  x1 = x1
  v1 = v1
  Requests = {r1, r2}
  Episodes = {e1, e2}
  Cards = {c1}
  EpisodeOf <- CardOfFirst
  Defs = {d1, d2}
  Templates = {t1}
  Texts = {x1}
  Settings = {v1, v2}
  Valid = {v1, v2}
  MaxOrder = 1
  MaxStarts = 4
  MaxRetries = 1
  MaxFaults = 1
  MaxImages = 2
  Streamer = streamer
  Null = Null
SPECIFICATION MCSpec
CHECK_DEADLOCK FALSE
INVARIANTS ImageIsStored ColumnsAreTokens LostTokensHaveACause
PROPERTIES LaunchFreezes CallsReturn KeepsChainPromise
