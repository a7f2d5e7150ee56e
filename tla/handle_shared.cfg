CONSTANTS
  main = main
  worker = worker
  daemon = daemon
  h1 = h1
  h2 = h2
  h3 = h3
  NoHandle = NoHandle
  Main = main
  Threads = {main, worker}
  Daemons = {}
  Handles = {h1, h2}
  Holders <- SharedHolders
  LateUse = FALSE
SPECIFICATION FairSpec
CHECK_DEADLOCK FALSE
INVARIANT ExitFreesAll
PROPERTY QuietReleaseIsCaught
PROPERTY ForgottenIsFreed
