SPECIFICATION SomeSpec
CONSTANTS
  Id = {i1}
  Label = {a}
  Depth = 1
  Shallow = 1
  Width = 1
  Name = {n}
  Content = {x, y}
  Client = {c1, c2}
  NoName = NoName
  NoVector = NoVector
  NoRecord = NoRecord
SYMMETRY Alike
PROPERTIES
  StaleMeansChanged
