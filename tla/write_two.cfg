SPECIFICATION Spec
CONSTANTS
  s1 = s1
  s2 = s2
  w1 = w1
  w2 = w2
  Server = {s1, s2}
  Worker = {w1, w2}
  Home <- TwoServers
  NoWorker = NoWorker
  Byte <- Bytes2
  Value <- Values
  Block = 2
  IntMax = 100
  Faults = {}
  MaxCalls = 2
  MaxBatch = 2
  MaxOpens = 2
INVARIANT UniqueKeys
