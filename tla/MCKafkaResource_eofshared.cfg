\* Two resources, no messages at all: each partition reports EOF once per
\* assignment, so only the shared statics can make the break premature
CONSTANTS
  Resources = {r1, r2}
  Partitions = {p1, p2, p3}
  Version = 1
  Content <- MCContent
  MaxOffset = 0
  BatchNumMessages = 1
  StreamTimeout = 1
  PollTimeout = 1
  MaxRebalances = 0
  MaxEvents = 0
SPECIFICATION Spec
PROPERTY EofBreakMeansAllAtEnd
CHECK_DEADLOCK FALSE
