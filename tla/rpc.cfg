SPECIFICATION FairSpec
CONSTANTS
  py = py
  cpp = cpp
  Client = {py, cpp}
  Lang <- Langs
  Workers = 1
  Odd <- OddCalls
  MaxCalls <- Bounds
  MaxFaults = 1
INVARIANT TypeOK
INVARIANT AtMostOnce
INVARIANT ResultsTrue
INVARIANT StopWaits
INVARIANT RpcInv
INVARIANT ResultsInv
PROPERTY Answered
PROPERTY Stops
CHECK_DEADLOCK FALSE
