CONSTANTS
  address = address
  hdnode = hdnode
  spv = spv
  tpm = tpm
  ex = ex
  raw = raw
  internal = internal
  None = None
  Fetched = {"v0.1.4", "v0.1.4.1"}
  Releases = {"v0.1.4", "v0.1.4.1"}
  Damaged = {}
  Functions <- AllFunctions
  Declares <- DeclaredBy
  Exports <- ExportedBy
  Unparsed = {raw}
  Skipped = {hdnode, tpm}
  Matched = {spv}
  Allowed = {}
  Preamble = {hdnode}
  CommittedCdef <- Cdef
  CommittedManifest = {address}
SPECIFICATION Spec
INVARIANT LinksFetched
