SPECIFICATION FairSpec
CONSTANTS
  a = a
  b = b
  t1 = t1
  t2 = t2
  Nul = Nul
  Garbage = Garbage
  Thread = {t1, t2}
  Key <- Keys
  Recs <- Table
  Byte <- Bytes
  File <- Dat
  Faults = {"malloc", "fseeko", "fread"}
  MaxKeys = 2
  MaxCalls = 2
INVARIANT TypeOK
INVARIANT UndisturbedRight
INVARIANT PresenceRight
INVARIANT ReadInv
PROPERTY Answered
