CONSTANTS
  MaxEntries = 2
  Metadatas <- MCMetadatas
  PbTypes <- MCPbTypes
  StringToDataFormat <- MCStringToDataFormat
SPECIFICATION Spec
INVARIANT EverySettingApplied
CHECK_DEADLOCK FALSE
