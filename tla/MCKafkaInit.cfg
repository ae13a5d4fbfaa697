CONSTANTS
  MaxEntries = 2
  Metadatas <- MCMetadatas
  PbTypes <- MCPbTypes
  StringToDataFormat <- MCStringToDataFormat
SPECIFICATION Spec
INVARIANT EveryRecordOutput
CHECK_DEADLOCK FALSE
