\* One resource and two error events: a fatal one, then a non-fatal one
\* delivered while the same consume() call is in progress
CONSTANTS
  Resources = {r1}
  Partitions = {p1}
  Version = 1
  Content <- MCContent
  MaxOffset = 1
  BatchNumMessages = 2
  StreamTimeout = 2
  PollTimeout = 1
  MaxRebalances = 0
  MaxEvents = 2
SPECIFICATION Spec
PROPERTY FatalStopsConsuming
CHECK_DEADLOCK FALSE
