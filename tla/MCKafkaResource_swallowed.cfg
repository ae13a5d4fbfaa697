\* One resource, version 2: a message of two records and a message whose
\* first record is empty (ByteSize 0, refused by HandleReaderNextStauts)
CONSTANTS
  Resources = {r1}
  Partitions = {p1, p2}
  Version = 2
  Content <- MCContent
  MaxOffset = 1
  BatchNumMessages = 2
  StreamTimeout = 2
  PollTimeout = 1
  MaxRebalances = 0
  MaxEvents = 0
SPECIFICATION Spec
PROPERTY ConsumedRecordsHandedOn
CHECK_DEADLOCK FALSE
