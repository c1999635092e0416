SPECIFICATION FairSpec
CONSTANTS
  c1 = c1
  c2 = c2
  Client = {c1, c2}
  NoClient = NoClient
  Recs <- Table
  KeyLen <- Lengths
  Byte <- Bytes
  File <- WholeFile
  Null = Null
  Faults = {"fseeko", "realloc", "fread"}
  MaxFailures = 2
INVARIANT TypeOK
INVARIANT GotInOrder
INVARIANT EndIsComplete
INVARIANT BuffersFit
INVARIANT TravInv
PROPERTY TraversalEnds
