SPECIFICATION StoreSpec
CONSTANTS
  s1 = s1
  w1 = w1
  Server = {s1}
  Worker = {w1}
  Home <- OneServer
  NoWorker = NoWorker
  Byte <- Bytes2
  Value <- TwoValues
  Block = 2
  IntMax = 100
  Faults = {"crash", "ftello", "fwrite", "fprintf"}
  MaxCalls = 3
  MaxBatch = 1
  MaxOpens = 2
  MaxLoads = 2
INVARIANT AckedServed
INVARIANT AckedTraversed
INVARIANT AnswersAgree
INVARIANT ReadersInv
