CONSTANTS
  MaxEntries = 2
  Metadatas <- MCMetadatas
  PbTypes <- MCPbTypes
  StringToDataFormat <- MCStringToDataFormat
SPECIFICATION Spec
INVARIANT MessagesReachOutput
CHECK_DEADLOCK FALSE
