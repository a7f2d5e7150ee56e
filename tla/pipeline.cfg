CONSTANTS
  amd64 = amd64
  lib = lib
  api = api
  address = address
  hdnode = hdnode
  ex = ex
  Hosts = {amd64}
  Native = amd64
  Cpu <- CpuOf
  Lib = lib
  Headers = {api}
  Header = api
  None = None
  Release <- TwoTags
  Requests <- Fetches
  Damaged = {"cut"}
  Functions = {address, hdnode, ex}
  Declares <- DeclaredBy
  Exports <- ExportedBy
  Unparsed = {}
  Skipped = {hdnode}
  Matched = {}
  Allowed = {}
  Preamble = {hdnode}
  CommittedCdef = {address, hdnode}
  CommittedManifest = {address}
SPECIFICATION TreeSpec
INVARIANT ReadyBuilds
PROPERTY FetchesForBuilds
