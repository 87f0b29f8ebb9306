SPECIFICATION ClientSpec
CONSTANTS
  Id = {i1, i2, i3}
  Label = {a, b}
  Depth = 2
  MaxLimit = 3
  Absent = Absent
  Nowhere = Nowhere
  Unlimited = Unlimited
  Indexable = {"tree", "meta"}
  MaxDepth = 3
  MaxNodes = 6
  Height = 3
  TextNodes = 5
  Tall = 4
  MaxHit = 3
  MaxScore = 2
  MaxResults = 3
  Scale = 12
  MaxK = 1
  MaxWeight = 2
  MaxText = 4
  MaxCut = 6
  MaxId = 5
  PageSize = 2
  MaxExport = 4
  MaxWrites = 3
  MaxRow = 4
  Text = {"x", "y"}
  BatchSize = 2
  MaxEntries = 3
  MaxOthers = 1
INVARIANTS
  TreeCountsAddUp
  GuardsAgree
  NotIsComplement
  FilterSaysWhatIsWritten
  HybridIsExact
  TruncationIsTight
  ExportIsExact
  ImportIsTrue
  RetryIsExact
PROPERTIES
  TraversalsEnd
CHECK_DEADLOCK FALSE
