CONSTANTS
  main = main
  worker = worker
  h1 = h1
  h2 = h2
  NoHandle = NoHandle
  Main = main
  Threads = {main, worker}
  Daemons = {}
  Handles = {h1, h2}
  Holders <- SharedHolders
  LateUse = FALSE
SPECIFICATION HDSpec
SYMMETRY NodeSymmetry
CHECK_DEADLOCK FALSE
INVARIANT HDTypeOK
INVARIANT PublishedIsComplete
INVARIANT NothingStranded
PROPERTY ImplementsHandle
PROPERTY PublishedNeverChanges
PROPERTY FailureFreesFirst
