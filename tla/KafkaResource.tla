--------------------------- MODULE KafkaResource ---------------------------
(***************************************************************************)
(* KafkaGroupReadableResource of kafka_kernels.cc: Next's poll loop and     *)
(* the decoding of the consumed messages, the librdkafka callbacks it       *)
(* installs (KafkaEventCb::event_cb, KafkaRebalanceCb::rebalance_cb), and   *)
(* the process-wide statics partition_count / eof_count that every         *)
(* resource of the process shares.                                         *)
(*                                                                         *)
(* Each resource runs Next under its own mu_, so two resources run Next    *)
(* concurrently; librdkafka serves the callbacks inside consume(), on the  *)
(* thread of the resource that polls.  The statics are read and written by *)
(* all of them without a lock.  The broker side (a consumer group over a   *)
(* set of partitions, eager rebalancing: every member revokes before any   *)
(* member is assigned) is the environment.                                 *)
(***************************************************************************)
EXTENDS Integers, Sequences, FiniteSets, SequencesExt

CONSTANTS
  Resources,         \* KafkaGroupReadableResource objects of one process
  Partitions,        \* partitions of the subscribed topics
  Version,           \* version_: 1 hands messages on, 2 decodes records
  Content,           \* record kinds framed in each message (version 2)
  MaxOffset,         \* messages produced per partition
  BatchNumMessages,  \* batch_num_messages_
  StreamTimeout,     \* stream_timeout input of Next
  PollTimeout,       \* message_poll_timeout input of Next
  MaxRebalances,     \* group rebalances after the first join
  MaxEvents          \* EVENT_ERROR events delivered to event_cb

ASSUME Version \in {1, 2}
ASSUME PollTimeout \in Nat \ {0} /\ StreamTimeout \in Nat

\* max_stream_timeout_polls_ = stream_timeout / message_poll_timeout
MaxStreamTimeoutPolls == StreamTimeout \div PollTimeout

\* The history of timed-out polls only needs to count up to a whole timeout
Saturated(n) == IF n > MaxStreamTimeoutPolls THEN MaxStreamTimeoutPolls ELSE n

\* A message is <<partition, offset>>; a record is <<partition, offset, k>>
MsgIds == Partitions \X (1 .. MaxOffset)

VARIABLES
  produced,        \* broker: messages written to each partition
  pos,             \* broker: consumed position of each partition
  eofSent,         \* broker: PARTITION_EOF already reported at this position
  reb,             \* broker: rebalance in progress [phase, target, todo]
  rebalances,      \* rebalances started
  events,          \* error events delivered: <<resource, fatal>> in order
  assigned,        \* partitions the consumer of each resource has assigned
  partition_count, \* static int64 partition_count
  eof_count,       \* static int64 eof_count
  run,             \* kafka_event_cb_.run_
  pc,              \* where each resource's Next is
  num,             \* num_messages of the Next call in progress
  buf,             \* message_value of the Next call in progress
  tmp,             \* eof_count + 1 loaded by ++eof_count, not yet stored
  polls,           \* stream_timeout_polls_
  cf,              \* continue_fetch returned by the last Next
  delivered,       \* records handed to TensorFlow by each resource
  dropped,         \* messages consumed by a Next call that failed
  quiet            \* history: timed-out polls since the last message, capped

brokerVars == <<produced, pos, eofSent, reb, rebalances, events>>
nextVars == <<run, pc, num, buf, tmp, polls, cf, delivered, dropped, quiet>>
vars == <<brokerVars, assigned, partition_count, eof_count, nextVars>>

Phases == {"none", "revoke", "assign"}
Pcs == {"idle", "top", "consume", "eof", "finish", "failed"}

\* The records of message m that reach the output: version 1 hands the
\* message on whole; version 2 stops at the first record HandleReaderNextStauts
\* refuses (empty or unparsable), as the GetNext loop breaks on any error.
Usable(m) ==
  IF Version = 1 THEN 1
  ELSE LET bad == SelectInSeq(Content[m], LAMBDA k : k # "rec")
       IN  IF bad = 0 THEN Len(Content[m]) ELSE bad - 1

RecordsOf(m) == [k \in 1 .. Usable(m) |-> <<m[1], m[2], k>>]

\* The output lists filled from message_value, in message order
Decode(ms) == FlattenSeq([i \in 1 .. Len(ms) |-> RecordsOf(ms[i])])

-----------------------------------------------------------------------------
(* The broker and the consumer group (environment).                        *)

Produce(p) ==
  /\ produced[p] < MaxOffset
  /\ produced' = [produced EXCEPT ![p] = @ + 1]
  /\ UNCHANGED <<pos, eofSent, reb, rebalances, events, assigned,
                 partition_count, eof_count, nextVars>>

\* A member joins or leaves: every member revokes, then each is assigned
\* its share of target
StartRebalance(target) ==
  /\ reb.phase = "none"
  /\ rebalances < MaxRebalances
  /\ LET holders == {r \in Resources : assigned[r] # {}}
     IN  reb' = IF holders = {}
                  THEN [phase |-> "assign", target |-> target, todo |-> Resources]
                  ELSE [phase |-> "revoke", target |-> target, todo |-> holders]
  /\ rebalances' = rebalances + 1
  /\ UNCHANGED <<produced, pos, eofSent, events, assigned, partition_count,
                 eof_count, nextVars>>

-----------------------------------------------------------------------------
(* Callbacks, served inside consume() of the resource that polls.          *)

\* rebalance_cb with an error other than ERR__ASSIGN_PARTITIONS: unassign
RevokeCb(r) ==
  /\ pc[r] = "consume"
  /\ reb.phase = "revoke" /\ r \in reb.todo
  /\ assigned' = [assigned EXCEPT ![r] = {}]
  /\ partition_count' = 0
  /\ eof_count' = 0
  /\ reb' = IF reb.todo = {r}
              THEN [reb EXCEPT !.phase = "assign", !.todo = Resources]
              ELSE [reb EXCEPT !.todo = @ \ {r}]
  /\ UNCHANGED <<produced, pos, eofSent, rebalances, events, nextVars>>

\* rebalance_cb with ERR__ASSIGN_PARTITIONS: assign, count the partitions
AssignCb(r) ==
  /\ pc[r] = "consume"
  /\ reb.phase = "assign" /\ r \in reb.todo
  /\ LET mine == {p \in Partitions : reb.target[p] = r}
     IN  /\ assigned' = [assigned EXCEPT ![r] = mine]
         /\ partition_count' = Cardinality(mine)
         /\ eofSent' = [p \in Partitions |-> eofSent[p] /\ p \notin mine]
  /\ eof_count' = 0
  /\ reb' = IF reb.todo = {r} THEN [reb EXCEPT !.phase = "none", !.todo = {}]
                              ELSE [reb EXCEPT !.todo = @ \ {r}]
  /\ UNCHANGED <<produced, pos, rebalances, events, nextVars>>

\* event_cb on EVENT_ERROR: run_ = !event.fatal()
ErrorEventCb(r, fatal) ==
  /\ pc[r] = "consume"
  /\ Len(events) < MaxEvents
  /\ run' = [run EXCEPT ![r] = ~fatal]
  /\ events' = Append(events, <<r, fatal>>)
  /\ UNCHANGED <<produced, pos, eofSent, reb, rebalances, assigned,
                 partition_count, eof_count, pc, num, buf, tmp, polls, cf,
                 delivered, dropped, quiet>>

-----------------------------------------------------------------------------
(* KafkaGroupReadableResource::Next, one step per consume() result.        *)

\* The caller (the dataset's take-while on continue_fetch) calls Next again
NextCall(r) ==
  /\ pc[r] = "idle" /\ cf[r] = 1
  /\ pc' = [pc EXCEPT ![r] = "top"]
  /\ num' = [num EXCEPT ![r] = 0]
  /\ buf' = [buf EXCEPT ![r] = <<>>]
  /\ UNCHANGED <<brokerVars, assigned, partition_count, eof_count, run, tmp,
                 polls, cf, delivered, dropped, quiet>>

\* Mutation: the loop condition is num_messages <= batch_num_messages_
LoopTopOffByOne(r) ==
  /\ pc[r] = "top"
  /\ \/ /\ num[r] > BatchNumMessages
        /\ pc' = [pc EXCEPT ![r] = "finish"]
        /\ UNCHANGED <<buf, dropped>>
     \/ /\ num[r] <= BatchNumMessages /\ ~run[r]
        /\ pc' = [pc EXCEPT ![r] = "failed"]
        /\ dropped' = dropped \cup Range(buf[r])
        /\ buf' = [buf EXCEPT ![r] = <<>>]
     \/ /\ num[r] <= BatchNumMessages /\ run[r]
        /\ pc' = [pc EXCEPT ![r] = "consume"]
        /\ UNCHANGED <<buf, dropped>>
  /\ UNCHANGED <<brokerVars, assigned, partition_count, eof_count, run, num,
                 tmp, polls, cf, delivered, quiet>>

\* Loop head: batch full, broker issue (messages of this call are lost), or
\* call consume()
LoopTop(r) ==
  /\ pc[r] = "top"
  /\ \/ /\ num[r] >= BatchNumMessages
        /\ pc' = [pc EXCEPT ![r] = "finish"]
        /\ UNCHANGED <<buf, dropped>>
     \/ /\ num[r] < BatchNumMessages /\ ~run[r]
        /\ pc' = [pc EXCEPT ![r] = "failed"]
        /\ dropped' = dropped \cup Range(buf[r])
        /\ buf' = [buf EXCEPT ![r] = <<>>]
     \/ /\ num[r] < BatchNumMessages /\ run[r]
        /\ pc' = [pc EXCEPT ![r] = "consume"]
        /\ UNCHANGED <<buf, dropped>>
  /\ UNCHANGED <<brokerVars, assigned, partition_count, eof_count, run, num,
                 tmp, polls, cf, delivered, quiet>>

\* Mutation: stream_timeout_polls_ is not reset by a message
ConsumeMessageNoReset(r, p) ==
  /\ pc[r] = "consume"
  /\ p \in assigned[r] /\ pos[p] < produced[p]
  /\ pos' = [pos EXCEPT ![p] = @ + 1]
  /\ eofSent' = [eofSent EXCEPT ![p] = FALSE]
  /\ buf' = [buf EXCEPT ![r] = Append(@, <<p, pos[p] + 1>>)]
  /\ num' = [num EXCEPT ![r] = @ + 1]
  /\ quiet' = [quiet EXCEPT ![r] = 0]
  /\ pc' = [pc EXCEPT ![r] = "top"]
  /\ UNCHANGED <<produced, reb, rebalances, events, assigned, partition_count,
                 eof_count, run, tmp, polls, cf, delivered, dropped>>

\* ERR_NO_ERROR: keep the message, reset stream_timeout_polls_
ConsumeMessage(r, p) ==
  /\ pc[r] = "consume"
  /\ p \in assigned[r] /\ pos[p] < produced[p]
  /\ pos' = [pos EXCEPT ![p] = @ + 1]
  /\ eofSent' = [eofSent EXCEPT ![p] = FALSE]
  /\ buf' = [buf EXCEPT ![r] = Append(@, <<p, pos[p] + 1>>)]
  /\ num' = [num EXCEPT ![r] = @ + 1]
  /\ polls' = [polls EXCEPT ![r] = 0]
  /\ quiet' = [quiet EXCEPT ![r] = 0]
  /\ pc' = [pc EXCEPT ![r] = "top"]
  /\ UNCHANGED <<produced, reb, rebalances, events, assigned, partition_count,
                 eof_count, run, tmp, cf, delivered, dropped>>

\* ERR__PARTITION_EOF: ++eof_count loads the shared counter ...
ConsumeEof(r, p) ==
  /\ pc[r] = "consume"
  /\ p \in assigned[r] /\ pos[p] = produced[p] /\ ~eofSent[p]
  /\ eofSent' = [eofSent EXCEPT ![p] = TRUE]
  /\ tmp' = [tmp EXCEPT ![r] = eof_count + 1]
  /\ pc' = [pc EXCEPT ![r] = "eof"]
  /\ UNCHANGED <<produced, pos, reb, rebalances, events, assigned,
                 partition_count, eof_count, run, num, buf, polls, cf,
                 delivered, dropped, quiet>>

\* ... stores it and compares it with partition_count: break when equal
EofStore(r) ==
  /\ pc[r] = "eof"
  /\ eof_count' = tmp[r]
  /\ pc' = [pc EXCEPT ![r] = IF tmp[r] = partition_count THEN "finish"
                                                        ELSE "top"]
  /\ UNCHANGED <<brokerVars, assigned, partition_count, run, num, buf, tmp,
                 polls, cf, delivered, dropped, quiet>>

\* Mutation: a timed-out poll is not counted
ConsumeTimedOutUncounted(r) ==
  /\ pc[r] = "consume"
  /\ quiet' = [quiet EXCEPT ![r] = Saturated(@ + 1)]
  /\ pc' = [pc EXCEPT ![r] = "finish"]
  /\ UNCHANGED <<brokerVars, assigned, partition_count, eof_count, run, num,
                 buf, tmp, polls, cf, delivered, dropped>>

\* ERR__TIMED_OUT: count the poll towards the stream timeout and break
ConsumeTimedOut(r) ==
  /\ pc[r] = "consume"
  /\ polls' = [polls EXCEPT ![r] = @ + 1]
  /\ quiet' = [quiet EXCEPT ![r] = Saturated(@ + 1)]
  /\ pc' = [pc EXCEPT ![r] = "finish"]
  /\ UNCHANGED <<brokerVars, assigned, partition_count, eof_count, run, num,
                 buf, tmp, cf, delivered, dropped>>

\* After the loop: decode message_value into the output tensor and set
\* continue_fetch from the timeout count
Finish(r) ==
  /\ pc[r] = "finish"
  /\ delivered' = [delivered EXCEPT ![r] = @ \o Decode(buf[r])]
  /\ cf' = [cf EXCEPT ![r] = IF polls[r] < MaxStreamTimeoutPolls THEN 1 ELSE 0]
  /\ buf' = [buf EXCEPT ![r] = <<>>]
  /\ pc' = [pc EXCEPT ![r] = "idle"]
  /\ UNCHANGED <<brokerVars, assigned, partition_count, eof_count, run, num,
                 tmp, polls, dropped, quiet>>

-----------------------------------------------------------------------------

Init ==
  /\ produced = [p \in Partitions |-> 0]
  /\ pos = [p \in Partitions |-> 0]
  /\ eofSent = [p \in Partitions |-> FALSE]
  /\ \E target \in [Partitions -> Resources] :
       reb = [phase |-> "assign", target |-> target, todo |-> Resources]
  /\ rebalances = 0
  /\ events = <<>>
  /\ assigned = [r \in Resources |-> {}]
  /\ partition_count = 0
  /\ eof_count = 0
  /\ run = [r \in Resources |-> TRUE]
  /\ pc = [r \in Resources |-> "idle"]
  /\ num = [r \in Resources |-> 0]
  /\ buf = [r \in Resources |-> <<>>]
  /\ tmp = [r \in Resources |-> 0]
  /\ polls = [r \in Resources |-> -1]
  /\ cf = [r \in Resources |-> 1]
  /\ delivered = [r \in Resources |-> <<>>]
  /\ dropped = {}
  /\ quiet = [r \in Resources |-> 0]

\* Steps of one resource's Next, consume() results and callbacks included
ResourceStep(r) ==
  \/ NextCall(r) \/ LoopTop(r) \/ EofStore(r) \/ ConsumeTimedOut(r)
  \/ Finish(r) \/ RevokeCb(r) \/ AssignCb(r)
  \/ \E p \in Partitions : ConsumeMessage(r, p) \/ ConsumeEof(r, p)

Next ==
  \/ \E p \in Partitions : Produce(p)
  \/ \E target \in [Partitions -> Resources] : StartRebalance(target)
  \/ \E r \in Resources, fatal \in BOOLEAN : ErrorEventCb(r, fatal)
  \/ \E r \in Resources : ResourceStep(r)

\* The caller keeps calling while continue_fetch is 1; each step of Next
\* that is enabled is eventually taken (consume() returns within its
\* timeout, a timeout being always possible).
Fairness == \A r \in Resources : WF_vars(ResourceStep(r))

Spec == Init /\ [][Next]_vars /\ Fairness

-----------------------------------------------------------------------------

TypeOK ==
  /\ produced \in [Partitions -> 0 .. MaxOffset]
  /\ pos \in [Partitions -> 0 .. MaxOffset]
  /\ eofSent \in [Partitions -> BOOLEAN]
  /\ reb.phase \in Phases /\ reb.todo \subseteq Resources
  /\ reb.target \in [Partitions -> Resources]
  /\ assigned \in [Resources -> SUBSET Partitions]
  /\ partition_count \in 0 .. Cardinality(Partitions)
  /\ eof_count \in Nat
  /\ run \in [Resources -> BOOLEAN]
  /\ pc \in [Resources -> Pcs]
  /\ num \in [Resources -> 0 .. BatchNumMessages]
  /\ buf \in [Resources -> Seq(MsgIds)]
  /\ polls \in [Resources -> Int]
  /\ cf \in [Resources -> {0, 1}]
  /\ delivered \in [Resources -> Seq(Partitions \X (1 .. MaxOffset) \X Nat)]
  /\ dropped \subseteq MsgIds

\* The records message m holds: version 1 hands the message on as one
RecordCount(m) == IF Version = 1 THEN 1 ELSE Len(Content[m])

(***************************************************************************)
(* spec.md 7: a record that does not decode is an error that is not        *)
(* retried internally; retry is the surrounding pipeline's (re-fetch from  *)
(* the message queue).  So a Next call that returns OK has handed on every *)
(* record of every message it took from the consumer.  The GetNext loop of *)
(* Next breaks on any status that is not OK and Next returns OK.           *)
(***************************************************************************)
ConsumedRecordsHandedOn ==
  [][\A r \in Resources :
       pc[r] = "finish" /\ pc'[r] = "idle" =>
         \A i \in DOMAIN buf[r] : Usable(buf[r][i]) = RecordCount(buf[r][i])]_vars

(***************************************************************************)
(* The comment at the reset of stream_timeout_polls_: a resource tells the *)
(* dataset to stop (continue_fetch = 0) only after a whole stream_timeout, *)
(* max_stream_timeout_polls_ timed-out polls, has passed since the last    *)
(* message it received.  The count runs across Next calls.                 *)
(***************************************************************************)
StopsOnlyAfterStreamTimeout ==
  \A r \in Resources : cf[r] = 0 => quiet[r] >= MaxStreamTimeoutPolls

(***************************************************************************)
(* The dataset ends: once the producers stop, every resource eventually    *)
(* returns continue_fetch = 0 or fails, given that consume() returns and   *)
(* the caller keeps calling Next while continue_fetch is 1.                *)
(***************************************************************************)
StreamEnds ==
  <>(\A r \in Resources : pc[r] = "failed" \/ (pc[r] = "idle" /\ cf[r] = 0))

\* r's consumer has reported a fatal error
FatalSeen(r) == \E i \in DOMAIN events : events[i] = <<r, TRUE>>

(***************************************************************************)
(* event_cb sets run_ = !event.fatal() so that Next stops consuming once    *)
(* librdkafka reports a fatal error: after a fatal EVENT_ERROR, the loop   *)
(* head never calls consume() again.  Every EVENT_ERROR overwrites run_.   *)
(***************************************************************************)
FatalStopsConsuming ==
  [][\A r \in Resources :
       FatalSeen(r) => ~(pc[r] = "top" /\ pc'[r] = "consume")]_vars

(***************************************************************************)
(* "EOF reached for all partition(s)": Next stops its batch on            *)
(* ++eof_count == partition_count only when every partition assigned to    *)
(* this resource has reported PARTITION_EOF at its current position.       *)
(***************************************************************************)
EofBreakMeansAllAtEnd ==
  [][\A r \in Resources :
       pc[r] = "eof" /\ pc'[r] = "finish" => \A p \in assigned[r] : eofSent[p]]_vars

====
