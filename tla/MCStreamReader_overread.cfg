\* A payload-length field of all ones (2^64 - 1 in the code).
CONSTANTS
  ByteMod = 2
  SizeBytes = 8
  DeadBeef = 3
  NoKey = NoKey
  MaxSeeks = 1
  PbTypes = {1}
  Keys = {0, 6}
  Highs = {1}
  Freshes = {0, 5}
  SortIds <- MCSortIds
  Dumps = {4}
  Payloads <- MCPayloads
  MaxFrames = 1
  CorruptSizes = {255}
  Inputs <- MCInputs
SPECIFICATION Spec
INVARIANT NoOverread
CHECK_DEADLOCK FALSE
