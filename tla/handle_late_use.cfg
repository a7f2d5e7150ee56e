CONSTANTS
  main = main
  worker = worker
  daemon = daemon
  h1 = h1
  h2 = h2
  h3 = h3
  NoHandle = NoHandle
  Main = main
  Threads = {main}
  Daemons = {}
  Handles = {h1}
  Holders <- SharedHolders
  LateUse = TRUE
SPECIFICATION Spec
CHECK_DEADLOCK FALSE
PROPERTY CheckCatchesRelease
