SPECIFICATION TableSpec
CONSTANTS
  Key = {1, 2, 3, 4, 5, 6, 7, 8}
  Tilde = 8
  NullKey = 0
  Offset = {0, 1}
  PerLine = 2
  MaxSplits = 4
  MaxLines = 5
  FileKey = {1, 2}
  MaxRecs = 8
  Faults = {"fopen", "print", "collide"}
INVARIANT SortTypeOK
INVARIANT SortedRight
INVARIANT LookupRight
INVARIANT SearchCorrect
INVARIANT TableInv
PROPERTY LookupEnds
