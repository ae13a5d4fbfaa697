\* A dataset that ignores errors calls GetNextExampleBatch again after a failed read
CONSTANTS
  Files <- MCFiles
  MaxGroups = 3
  MaxGroupRows = 2
  Selections <- MCFeatureAndLabel
  Schema <- MCSchema
  Reserved <- MCReserved
  Stripped <- MCStripped
  LineIdFields <- MCLineIdFields
  Modes = {"batch"}
  BatchSizes = {1, 2}
  MaxFailures = 1
  MaxCalls = 8
  Retry = TRUE
SPECIFICATION Spec
INVARIANT RowsInOrderAligned
CHECK_DEADLOCK FALSE
