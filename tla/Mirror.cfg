SPECIFICATION MirrorSpec
CONSTANTS
  image = image
  chart = chart
  d1 = d1
  d2 = d2
  icr = icr
  harbor = harbor
  Mirrors = {icr, harbor}
  Icr = icr
  Private = {harbor}
  Manifests = {"v1", "v2"}
  Artifacts = {image, chart}
  Bom <- MCBom
  Classic = {chart}
  Files = {}
  Digests = {d1, d2}
  Pool = 2
INVARIANTS
  UpFindsArtifacts
PROPERTIES
  ReplicatedVerifies
  NothingForgotten
SYMMETRY MCSymmetry
