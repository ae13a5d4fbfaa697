\* One resource, version 2 (records decoded from each message), two
\* messages per partition, error events, stream_timeout of two polls
CONSTANTS
  Resources = {r1}
  Partitions = {p1, p2}
  Version = 2
  Content <- MCContent
  MaxOffset = 2
  BatchNumMessages = 2
  StreamTimeout = 2
  PollTimeout = 1
  MaxRebalances = 1
  MaxEvents = 1
SPECIFICATION Spec
INVARIANT TypeOK
INVARIANT StopsOnlyAfterStreamTimeout
PROPERTY StreamEnds
\* The dataset ends once continue_fetch is 0: no step is left then
CHECK_DEADLOCK FALSE
