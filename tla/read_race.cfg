SPECIFICATION Spec
CONSTANTS
  a = a
  b = b
  t1 = t1
  t2 = t2
  Nul = Nul
  Garbage = Garbage
  Thread = {t1, t2}
  Key <- Keys
  Recs <- Table
  Byte <- Bytes
  File <- Plain
  Faults = {"malloc"}
  MaxKeys = 2
  MaxCalls = 2
INVARIANT AnswersRight
