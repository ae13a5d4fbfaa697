\* Every option combination; streams of up to two frames, all truncations,
\* and a payload-length field overwritten by the poison value or by a length
\* past the end of the content.
CONSTANTS
  ByteMod = 2
  SizeBytes = 8
  DeadBeef = 3
  NoKey = NoKey
  MaxSeeks = 1
  PbTypes = {1}
  Keys = {0, 6}
  Highs = {1}
  Freshes = {0, 5}
  SortIds <- MCSortIds
  Dumps = {4}
  Payloads <- MCPayloads
  MaxFrames = 2
  CorruptSizes = {3, 100}
  Inputs <- MCInputs
SPECIFICATION Spec
INVARIANT TypeOK
INVARIANT ReadsOnlyWrittenFrames
INVARIANT DeliversEveryFrame
CHECK_DEADLOCK FALSE
