\* GetNextExampleBatch over a feature column and the __LABEL__ column
CONSTANTS
  Files <- MCFiles
  MaxGroups = 3
  MaxGroupRows = 2
  Selections <- MCFeatureAndLabel
  Schema <- MCSchema
  Reserved <- MCReserved
  Stripped <- MCStripped
  LineIdFields <- MCLineIdFields
  Modes = {"batch"}
  BatchSizes = {1, 2}
  MaxFailures = 1
  MaxCalls = 8
  Retry = FALSE
SPECIFICATION Spec
INVARIANT LabelNeverNamedFeature

\* The dataset stops after OutOfRange or an error
CHECK_DEADLOCK FALSE
