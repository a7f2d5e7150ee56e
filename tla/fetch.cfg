CONSTANTS
  amd64 = amd64
  win = win
  arm = arm
  lib = lib
  api = api
  Hosts = {amd64, win, arm}
  Native = amd64
  Cpu <- CpuOf
  Lib = lib
  Headers = {api}
  Release <- Releases
  Requests <- Mixed
SPECIFICATION Spec
INVARIANT FetchTypeOK
INVARIANT ReadyIsInstalled
INVARIANT ReadyIsVerified
INVARIANT ErrKeepsInstall
