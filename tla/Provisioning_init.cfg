SPECIFICATION Spec
CONSTANTS
  VectorType = {halfvec, vector}
  Dimensions = {1024}
  Schema = {s1}
  Creator = {c1}
  Initer = {i1}
  Opener = {}
  Dropper = {}
  NoShape = NoShape
  Nobody = Nobody
PROPERTIES
  InitAcceptsExisting
