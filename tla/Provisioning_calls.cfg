SPECIFICATION FairSpec
CONSTANTS
  VectorType = {halfvec, vector}
  Dimensions = {1024}
  Schema = {s1}
  Creator = {c1}
  Initer = {i1}
  Opener = {o1}
  Dropper = {d1}
  NoShape = NoShape
  Nobody = Nobody
INVARIANTS
  NeverInstalledTwice
PROPERTIES
  HandleMatchesIndex
  SchemasAreSafe
  EveryCallEnds
