SPECIFICATION FairSpec
CONSTANTS
  c1 = c1
  c2 = c2
  Client = {c1, c2}
  NoClient = NoClient
  Recs <- Table
  KeyLen <- Lengths
  Byte <- Bytes
  File <- TornFile
  Null = Null
  Faults = {}
  MaxFailures = 0
PROPERTY TraversalEnds
