CONSTANTS
  main = main
  worker = worker
  daemon = daemon
  h1 = h1
  h2 = h2
  h3 = h3
  NoHandle = NoHandle
  Main = main
  Threads = {main, daemon}
  Daemons = {daemon}
  Handles = {h1, h2, h3}
  Holders <- MixedHolders
  LateUse = FALSE
SPECIFICATION Spec
SYMMETRY OwnSymmetry
CHECK_DEADLOCK FALSE
INVARIANT TypeOK
INVARIANT FreedOnce
INVARIANT FinalizerOwns
INVARIANT NoUseAfterFree
PROPERTY Promise
