\* GetNextExample, and GetNextExampleBatch with every batch size up to the whole file
CONSTANTS
  Files <- MCFiles
  MaxGroups = 3
  MaxGroupRows = 2
  Selections <- MCSelections
  Schema <- MCSchema
  Reserved <- MCReserved
  Stripped <- MCStripped
  LineIdFields <- MCLineIdFields
  Modes = {"example", "batch"}
  BatchSizes = {1, 2, 3, 4}
  MaxFailures = 1
  MaxCalls = 8
  Retry = FALSE
SPECIFICATION Spec
INVARIANT TypeOK
INVARIANT RowsInOrderAligned
INVARIANT ExampleRoutedAsSpecified

PROPERTY ImplementsRowStream
\* The dataset stops after OutOfRange or an error
CHECK_DEADLOCK FALSE
