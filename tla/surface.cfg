CONSTANTS
  address = address
  hdnode = hdnode
  spv = spv
  tpm = tpm
  ex = ex
  raw = raw
  internal = internal
  None = None
  Fetched = {"v0.1.4", "v0.1.5", "v0.1.6"}
  Releases = {"v0.1.4", "v0.1.5", "v0.1.6"}
  Damaged = {"late"}
  Functions <- AllFunctions
  Declares <- DeclaredBy
  Exports <- ExportedBy
  Unparsed = {raw}
  Skipped = {hdnode, tpm}
  Matched = {spv}
  Allowed = {}
  Preamble = {hdnode}
  CommittedCdef <- Cdef
  CommittedManifest = {address}
SPECIFICATION Spec
INVARIANT SurfaceTypeOK
INVARIANT AvailableIsBound
INVARIANT TracksHeader
INVARIANT BuildsAndLoads
