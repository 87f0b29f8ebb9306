SPECIFICATION SomeSpec
CONSTANTS
  Id = {i1, i2}
  Label = {a}
  Depth = 2
  Shallow = 1
  Width = 2
  Name = {n}
  Content = {x, y}
  Client = {c1, c2}
  NoName = NoName
  NoVector = NoVector
  NoRecord = NoRecord
SYMMETRY Alike
INVARIANTS
  NamesAreUnique
  VectorDescribesContent
PROPERTIES
  PatchOverwritesWhatWasRead
  OnlyWhatWasAddressed
