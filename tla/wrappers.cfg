CONSTANTS
  main = main
  worker = worker
  b1 = b1
  b2 = b2
  Nothing = Nothing
  Threads = {main, worker}
  Calls <- MCCalls
  IntMax = 4
  ByteMax = 2
  StackLimit = 2
  Blocks = {b1, b2}
  Errnos = {0, 1}
SPECIFICATION WFairSpec
INVARIANT WTypeOK
INVARIANT CopiesArePrivate
INVARIANT ErrnoSurvives
PROPERTY OnlyRefusedCallsLeak
PROPERTY ImplementsForeignCall
PROPERTY NobodyWaitsForC
