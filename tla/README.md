# TLA+ models of the monolith training-data ingestion layer

This directory holds TLA+ models of the C++ code under `src/monolith/native_training`:
how training records are cut out of a byte stream, how the Kafka and Parquet
readers feed them to TensorFlow, and what can go wrong on the way. Every module
is written from the source lines listed under `"map"` in `PROJECT.json`. Where a
function is only declared in this repository (its body lives elsewhere), the
model follows `spec.md` and is marked `spec_modelled`.

## 1. Inventory

### Components and their state

| Component | Source | State | Operations |
|---|---|---|---|
| **RecordFramer** `BaseStreamReaderTmpl<T>` | `data_reader.h:70-139` | `options_` (4 flags) | `ReadPBBytes` (header, 8-byte length, poison check, payload), `ReadDataHeader`, `ReadBinarySize` |
| **In-memory ByteSource** `StringStreamReader<T>` | `data_reader.h:226-256` | `content_`, `cur_` (int64) | `ReadNBytes`, `GetOffset`, `SetOffset` |
| Stdin / InputStream / File ByteSources | `data_reader.h:143-224` | `offset_`, buffers | declared only; `FileStreamReader::GetCompressType` is a pure option check |
| **PBIterator / ExampleBatchIterator** | `data_reader.h:258-304` | reader, `index_`, `batch_size_`, `cur_` batch | `next` for plain bytes, Instance, Example, ExampleBatch (bodies not here; spec.md 4.3-4.4) |
| **Format routing** `PBIteratorWithDataFormatTrans::GetNext` | `data_reader.h:328-390` | input/output type | picks one of six (input, output) paths, calls the handler |
| Transcoders `ExampleToInstance`, `InstanceToExample`, `ExampleBatchToExample` | `data_reader.h:54-68` | none | declared only (spec.md 4.5) |
| **Kafka resource** `KafkaGroupReadableResource` | `kafka_kernels.cc:146-516` | consumer, `stream_timeout_polls_`, `max_stream_timeout_polls_`, `batch_num_messages_`, version, pb types | `Init` (configure, subscribe), `Next` (poll loop, decode each message, fill tensors, `continue_fetch`) |
| Kafka callbacks `KafkaEventCb`, `KafkaRebalanceCb` | `kafka_kernels.cc:54-144` | `run_`; **process-wide statics** `partition_count`, `eof_count` | `event_cb` (fatal error stops the resource), `rebalance_cb` (assign / unassign, reset counters) |
| `CurPBIteratorHandler` | `kafka_kernels.cc:301-365` | output lists | `HandleReaderNextStauts` (error or empty record ends the message), `HandleResult` |
| **Parquet reader** `ParquetExampleReader` | `parquet_example_reader.h:48-640` | `iter_`, `row_group_id_`, `row_group_offset_`, column buffers, selected columns and types | `Init`, `SetSelectedCols`, `GetNextExample`, `GetNextExampleBatch`, `NextRowGroup`, `IsEOF`, `GetLineIdFieldByName` |
| Zstd stream, ClipByGlobalNorm, GpuMultiHashTable, FakeQuantRetriever | `zstd_inputbuffer.h`, `runtime/...` | — | declarations or a stateless float kernel |

### How they interact

Data flows pull-style: a caller (a TensorFlow dataset kernel) asks a
`PBIterator` for the next record; the iterator asks the framer, which asks the
ByteSource for bytes. The Kafka resource polls librdkafka for up to
`batch_num_messages_` messages under its mutex; librdkafka calls the rebalance
and event callbacks from inside `consume`. Each message is wrapped in its own
`StringStreamReader` and drained through `GetNext` until the first non-OK
status. The Parquet reader is separate: it walks row groups and column buffers
and builds `Example` / `ExampleBatch` records directly.

### What is hard

* **Framing** (`ReadDataHeader`): four option flags compose; a zero
  `kafka_dump_prefix` triggers an extra length read; length fields are 8-byte
  little-endian `size_t` and `cur_ + n` is computed in `size_t`, so it wraps.
* **End of data**: two error kinds (`FailedPrecondition`, `OutOfRange`) for
  running out of bytes; callers treat only `OutOfRange` as clean.
* **Kafka**: partition-EOF bookkeeping through two process-wide statics that
  are written by the rebalance callback of every resource and read in every
  `Next`; repeated EOFs for one partition; a stream timeout measured in counted
  poll timeouts across calls; messages consumed and then dropped when one
  record of a message is empty or fails to parse.
* **Parquet**: a batch that crosses row groups, empty row groups, the last
  short batch, and a column read failing half-way through a batch after other
  columns have already advanced.

### Properties that make each component correct

* Framer: it returns exactly the frames written, with their pb type and source
  key, for every option combination (soundness); it returns all of them and
  stops at the end of an intact stream (completeness); a damaged or poisoned
  length never yields a record or a read past the content; the end of data is
  reported as end of data.
* Kafka: every consumed message's records are delivered or the loss is
  reported; "EOF reached for all partitions" only when every assigned partition
  is at its end; `continue_fetch` turns 0 only after `stream_timeout` without
  messages; a fatal broker event stops the resource.
* Parquet: every row of the file is delivered exactly once and in order, by
  `GetNextExample` or by batches whose sizes sum to the row count; every column
  of a batch has `batch_size` features; the row of each column comes from the
  same file row.

## 2. Plan

Modules, in order (most important first):

1. `StreamReader` (done): framer over the in-memory source, plain iterator
   loop, `SetOffset`. `FrameWire`: the producer side from spec.md 6, used as the
   reference. `MCStreamReader`: inputs for TLC.
2. `KafkaResource` (done) and `KafkaInit` (done): `Next`'s poll loop with message / transport / EOF / timeout
   / other results as inputs, `rebalance_cb` and `event_cb` as environment
   actions, the static counters shared by two resources, `continue_fetch`;
   per message, `GetNext` with `HandleReaderNextStauts`, using an abstract
   record content per message (the framer itself is checked in 1).
3. `ParquetReader` and `ParquetSchema` (done, with the refinement of
   `RowStream`): row groups of given sizes, `NextRowGroup`, `GetNextExample`,
   `GetNextExampleBatch` with a nondeterministic column-read failure;
   `SetSelectedCols`, `GetLineIdFieldByName` and the label/line-id routing as
   operators over a small schema.
3a. `FormatTrans` (done): `GetNext`'s record path and Kafka's output list,
   composed with `KafkaInit`'s pb types.
4. `BatchIterator` (spec_modelled): `ExampleBatchIterator` row cursor over
   batches of 0..2 rows; and an abstract specification "the rows delivered are
   the concatenation of the batches' rows" shown by refinement
   (`INSTANCE ... WITH`).
5. `Transcode` (spec_modelled): Instance/Example/ExampleBatch-row records over
   small feature sets as operators; round-trip properties from spec.md 8.
6. (`GetCompressType` is left out: see section 4.)

Abstract specifications worth stating: an abstract "record stream" (a queue of
records a reader hands out in order) refined by the Parquet reader (done:
`RowStream`) and by the framer + iterator; an abstract Kafka consumer delivering message records in
partition order, refined by `KafkaResource`.

## 3. Modules and runs so far

### StreamReader (framer and in-memory source)

State: `input` (options and `content_`, fixed per reader), `cur` (`cur_`),
`status` (last status seen by the caller), `out` (history of records with the
offsets they were read from), `seeks`. Actions: `IteratorNext` (one
`PBIterator::next` = one `ReadPBBytes`), `SetOffset(o)` for an `o` the caller
earlier got from `GetOffset`. `ReadPBBytes`, `ReadDataHeader`,
`ReadBinarySize`, `ReadNBytes` are operators that follow the code step by step:
each read is a record `[st, cur, size, val]` and a failed step is passed
through unchanged, as `TF_RETURN_IF_ERROR` does. `ReadPBBytes` is the
recursive walk `ReadFrame` over the fields in code order: `ph` names the next
field (`lgx`, `prefix`, `fresh`, `sortLen`, `sortId`, `dump`, `length`,
`payload`), `DataHeaderStep` reads one header field, `PBBytesStep` the
payload length (with the 0xfefefefe check) and the payload.

Scaling: a byte has `ByteMod = 2` values and a length field keeps its
`SizeBytes = 8` bytes, so `size_t` wraps at 2^8 instead of 2^64, `uint32_t` at
2^4 and the pb type is the low byte. The poison `0xfefefefe` is `DeadBeef = 3`;
payloads are 0 or 2 bytes so a real payload never collides with it. Every
relation the code relies on (low byte / low half / whole word, wrap-around of
`cur_ + n`) is kept.

Inputs (`MCStreamReader`): all 16 option combinations; for each, every stream
of up to 2 frames that a producer can write (`FrameWire`: lagrangex header
with high bits set, zero and non-zero prefixes, empty and one-byte sort ids,
kafka_dump marker, empty and two-byte payloads), every truncation of it, and
the stream with one payload-length field overwritten by a value of
`CorruptSizes`.

| Run | Checks | Result |
|---|---|---|
| `framer` (`MCStreamReader.cfg`) | `TypeOK`, `ReadsOnlyWrittenFrames`, `DeliversEveryFrame` | pass, 82k states: every record is a written frame read from its own bytes with its header fields; an intact stream is read to its end |
| `framer_overread` | `NoOverread` with a length field of all ones | violation: `cur_ + n` wraps, the bound check passes, the copy runs past the buffer |

The run is deadlock-free only in the sense that the reader stops: after an error
and with no `SetOffset` left, nothing is enabled, so `CHECK_DEADLOCK FALSE`.

`FrameWire` writes the layout `ReadDataHeader` reads: after a zero
`kafka_dump_prefix`, a fresh length field and then the sort-id length. spec.md
sections 3 and 6 can be read as one fresh field that is itself the sort-id
length. Section 9 leaves that question open and asks to keep the code's
layout, so no run checks the other reading. Likewise, the end of content is
reported as `FailedPrecondition`, because `ReadNBytes` tests `cur_ + n > size`
first and its `OutOfRange` branch is unreachable. spec.md 4.1 records the two
error kinds as a known ambiguity, so this is a hazard with a note, not a run.

### KafkaResource (Kafka consumer resource)

State, per resource `r`: `pc[r]` (where `Next` is: `idle` between calls,
`top` at the loop head, `consume` inside `consume()`, `eof` between the load
and the store of `++eof_count`, `finish` after the loop, `failed` after an
error return), `num[r]`/`buf[r]` (`num_messages`, `message_value`),
`polls[r]` (`stream_timeout_polls_`, initially -1), `cf[r]` (the last
`continue_fetch`), `run[r]` (`kafka_event_cb_.run_`), `assigned[r]` (the
consumer's assignment), `tmp[r]` (the loaded `eof_count + 1`). Shared:
`partition_count`, `eof_count` (the statics). Broker: `produced`, `pos`
(one consumed position per partition), `eofSent` (EOF already reported at this
position), `reb` (the rebalance in progress). History: `delivered` (records
put in the output tensor), `dropped` (messages of failed calls), `quiet`
(timed-out polls since the last message, capped at the stream timeout).

Actions: `NextCall` (the dataset calls `Next` while `continue_fetch` is 1),
`LoopTop` (batch full / `run_` false: error return, messages lost /
`consume()`), the `consume()` results `ConsumeMessage`, `ConsumeEof` +
`EofStore` (`++eof_count == partition_count`, split at the unlocked
read-modify-write), `ConsumeTimedOut`, `Finish` (decode `message_value`,
fill the output, set `continue_fetch`), and the callbacks served inside
`consume()`: `RevokeCb`, `AssignCb` (`rebalance_cb`), `ErrorEventCb`
(`event_cb`). The environment produces messages and starts eager rebalances
(every holder revokes before anyone is assigned). Transport and other
`consume()` errors only log and loop, so they are stuttering steps and left
out. In version 2 a message is a sequence of record kinds (`rec`, `empty`);
the `GetNext` loop stops at the first refused one, so `Usable(m)` records of
it reach the output. The framing of the records is checked in `StreamReader`.

Fairness: weak fairness of each resource's steps. `consume()` returns within
its poll timeout (a timed-out poll is always possible), and the dataset pulls
the next element while `continue_fetch` is 1.

| Run | Checks | Result |
|---|---|---|
| `kafka_single` (`MCKafkaResource_single.cfg`) | `TypeOK`, `StopsOnlyAfterStreamTimeout`, `StreamEnds` | pass, 69k states: one resource, two partitions, version 2 records, a rebalance, an error event, stream timeout of two polls |
| `kafka_records_swallowed` (`MCKafkaResource_swallowed.cfg`) | `ConsumedRecordsHandedOn` | violation: a message whose first record is empty is taken from the consumer; the `GetNext` loop breaks at it, its second record is lost, and `Next` returns OK |
| `kafka_eof_shared` | `EofBreakMeansAllAtEnd` | violation: a second resource's assign callback overwrites the shared `partition_count` |
| `kafka_fatal_overwritten` (`MCKafkaResource_fatal.cfg`) | `FatalStopsConsuming` | violation: a fatal error event and then a non-fatal one in the same `consume()`; `event_cb` sets `run_` back to true and the loop consumes again |

`EofBreakMeansAllAtEnd` can also fail with one resource: a partition that
reports PARTITION_EOF, receives a message and reports it again counts twice
(`kafka_kernels.cc:407`). That is recorded under the same hazard, and no
second run is kept for it.

In version 1, `KafkaResource` hands every message on whole. That holds only
when `output_pb_type_` happens to select `string_list` (see
`kafka_init_uninit_output` below).

`FatalStopsConsuming` (an action property) says no resource re-enters
`consume()` after a fatal event for it. `events` records each error event as
`<<resource, fatal>>` in order.

`ConsumedRecordsHandedOn` (an action property) says a `Next` call that
returns OK has put every record of every message it took into the output.
spec.md 7 leaves retry of an undecodable record to the pipeline, which can
only retry what it is told failed. The loop at `kafka_kernels.cc:452` breaks
on any status that is not OK, and the normal end of a message is one too
(`FailedPrecondition`), so a refused record and the rest of its message
vanish without an error.

Two resources interleaving are checked only by `kafka_eof_shared`. A pass run
with two resources and the liveness property `StreamEnds` grew past 9.7M
states in ten minutes, and symmetry over resources cannot be used with
liveness checking, so the liveness and timeout properties are checked with
one resource.

### KafkaInit (configuration and subscription)

`KafkaInit` models `KafkaGroupReadableResource::Init` as the Init op
(`KafkaGroupReadableInitOp::Compute`) calls it: one step, `InitResource`.
A metadata string is abstracted to what `Init` tests of it:
* whether it starts with `conf.topic.`;
* whether `conf.` occurs anywhere in it;
* how many `=` it holds (0-2);
* whether librdkafka accepts the setting.

`ConfLoop` is either of the two loops: the entries it selects, in order, until
the first that fails. A split that does not give two parts returns
InvalidArgument; a refused `set` returns Internal. Consumer creation and
subscription may fail. `PbVersion` is the pb-type choice. `StringToDataFormat`
is not in this repository, so it is a constant: in `MCKafkaInit` the pb type
strings are `""`, the name of each `DataFormat` and `bogus`, and every string
that names no format, `""` included, gives `UNKNOW`. The defaults, callback registration and
`batch.num.messages` are `set` calls on keys librdkafka always knows, and are
left out.

State: `metadata`, `types`, `status`, `topicConf`/`globalConf` (the entries set
on each level), `subscribed`, `version` (`version_`, 1 until `Init` sets it,
as the member initializer at `kafka_kernels.cc:515` does), `pbTypes`
(`input_pb_type_`, `output_pb_type_`). These two members have no
initializer, and the resource is created with `new`. Their initial value is
therefore any `DataFormat` (a value outside the enum takes the branches of
`UNKNOW`). `Init` sets them only when a pb type is given. Init runs once per
resource and nothing follows it, so the runs say `CHECK_DEADLOCK FALSE`.

| Run | Checks | Result |
|---|---|---|
| `kafka_init` (`MCKafkaInit.cfg`) | `EveryRecordOutput` | pass, 691k states: every list of up to two abstract strings, every pair of the six pb-type strings, every initial value of the pb-type members |
| `kafka_init_uninit_output` (`MCKafkaInit_uninit.cfg`) | `MessagesReachOutput` | violation: Init without pb types leaves `output_pb_type_` uninitialized. If it holds INSTANCE, version-1 `Next` swaps the messages into `string_list` but sizes the tensor from `ins_pb_list`. Every batch is empty, and nothing is logged because `message_value` is empty after the swap. |
| `kafka_init_dropped_setting` | `EverySettingApplied` | violation: a well-formed global setting containing `conf.` (a value such as `/etc/kafka/conf.d/ca.pem`) is skipped by both loops and Init returns OK |

`Init` also checks the pb types only after `subscribe` succeeded, so an
unknown pb type returns Internal while the resource keeps a consumer that has
joined the group and `version_` stays 1 (`kafka_kernels.cc:289`). The model
reaches that state. The project lists it as a hazard and keeps no run for it,
because the Init op's error stops the dataset before any `Next` and the
consumer is closed with the resource.

### FormatTrans (the version-2 record path)

`FormatTrans` has no state. It holds the operators of the record path that a
version-2 `Next` runs for each message:
* `ReaderFor(in)`: the iterator `Next` builds over the message. Instance and
  Example streams get a `PBIterator`; every other input gets an
  `ExampleBatchIterator` (`kafka_kernels.cc:432-442`).
* `GetNext(in, out)`: the if-else chain of
  `PBIteratorWithDataFormatTrans::GetNext`, in its order. It gives the
  `next()` overload called, the conversion applied (`ExampleToInstance`,
  `InstanceToExample` or none) and the `CurOutput` list that the chosen
  `HandleResult` overload appends to.
* `OutputList(out)`: the list `Next` counts (`all_size`) and copies into the
  message tensor.

`KafkaInit` extends it. `EveryRecordOutput` checks, for every pb-type pair a
successful Init accepts with version 2, that the list `GetNext` fills is the
list `Next` outputs. The two choices are made by separate switches in two
files. A disagreement would make every batch come back empty, with only
"get not enough pb" logged. The next() bodies and the transcoders are outside
this repository, so whether, for example, a `PBIterator` can read an Instance
stream as an `ExampleBatch` (input INSTANCE, output EXAMPLEBATCH) is not
decided here.

Two entries are enough for one loop to stop at a bad entry after applying a good
one, and for a topic entry and a global entry to meet in one list.

Bounds: two partitions and two messages per partition are enough for every
`consume()` result to occur in every state of the loop, for an EOF to repeat,
and for a rebalance to move a partition with a message in flight.
`BatchNumMessages = 2` with four messages makes full batches happen;
`StreamTimeout = 2` polls lets a message arrive between two timeouts. Three
partitions are needed for the shared counters to misfire without repeated EOFs.

### ParquetReader (Parquet example reader)

State: `file` (the row-group sizes of the open file; `parquet_metadata_`),
`iter` (`iter_`), `rgId`/`rgOffset` (`row_group_id_`, `row_group_offset_`),
`pos[i]` (rows column buffer `i` of the current row group has yielded),
`batchSize` (the dataset's `batch_size`), `status` (the last call's status),
and the history `out` (what each successful call returned), `failures`,
`calls`. A value read from a column is the file row it belongs to, so the
properties can tell which row each feature came from. A read past the end of
its row group yields no row (-1).

Actions: `ExampleCall` is one `GetNextExample` and `BatchCall` one
`GetNextExampleBatch`. Each is one step, because the reader is used by one
thread at a time. Inside a call, recursive operators follow the code:
* `SeekRowGroup` is the `while` over `NextRowGroup`.
* `ExampleCols` is the column loop with its label, feature and line_id
  routing.
* `BatchLoop`, `ChunkRows`, `ChunkCols` and `ColumnRows` are the batch loop:
  `rows_in_row_group`, then column after column, then row after row.

Any one read in a call may fail. `fail` numbers the failing read, and a failed
read leaves its buffer where it was. `Init` is `ParquetExampleReader::Init`:
the column selection (`sel`, from `SetSelectedCols`; a refused selection ends
in `InvalidArgument`), then the row-group set-up. A file without row groups
fails there (`InitFailed`). `GetNextExample` sends each column where `Route`
says. The record of a successful call keeps this as `dest`. A column that
`Route` says aborts ends the call in `Crash` before it is read, as the
`LOG(FATAL)` or `CHECK` does. `GetNextExampleBatch` names every column a
feature, as lines 402-412 do.

`ParquetSchema` holds the configuration-time operators:
* `ColumnIndex`/`Registered`: `Init` registers each leaf column under the
  first component of its dotted path, so the last leaf of a nested column
  wins.
* `SetSelectedCols`: its four refusals, in code order. These are a size
  mismatch, an unregistered name, a column selected twice, and a feature type
  the physical type does not accept (`Accepts`, the switch over
  `parquet::Type`).
* `GetLineIdFieldByName`: only a name matching `__[A-Z_]+__` addresses a
  LineId field, looked up by its stripped, lower-cased form. TLC cannot take
  strings apart, so the set `Reserved` of matching names and the function
  `Stripped` are constants. `LineIdFields` is the part of the LineId
  descriptor the schema reaches.
* `Route`: the routing of `GetNextExample`.
  * `__LABEL__` of a numeric type goes to the label; any other type aborts.
  * A LineId field goes to line_id when its cpp type matches the physical
    type the `CHECK` wants. A repeated field or a mismatch aborts.
  * Anything else goes to a named feature.

The schema of `MCParquetReader` has eight leaves:
* `__LABEL__`, `__REQ_TIME__`, `__OTHER__` and `__SEQ__`;
* `req_time`;
* two leaves named `s` (a nested column);
* a `BOOLEAN` `flag`.

Its nine selections cover the following cases:
* each of the four refusals;
* a `BOOLEAN` column, which no type accepts;
* the last-leaf-wins column;
* a line_id column;
* a reserved name addressing no field;
* a label with a feature;
* a repeated LineId field, which aborts.

Fairness: the dataset keeps pulling while the last call succeeded. Weak
fairness of `Next` is written out as `[]<>~CanCall \/ []<><<Next>>_vars`:
every call counts itself, so `CanCall` is exactly when `Next` is enabled. This
also spares TLC evaluating ENABLED of the recursive batch loop.

| Run | Checks | Result |
|---|---|---|
| `parquet_read` (`MCParquetReader.cfg`) | `TypeOK`, `RowsInOrderAligned`, `ExampleRoutedAsSpecified`, `ImplementsRowStream` | pass, 10108 states: every file of up to 3 row groups of up to 2 rows, every selection above, read by `GetNextExample` or by `GetNextExampleBatch` with batch sizes 1-4, any one read failing |
| `parquet_retry` | `RowsInOrderAligned` | violation: a dataset that calls again after a failed read gets a batch whose columns come from different rows |
| `parquet_label_batch` (`MCParquetReader_label.cfg`) | `LabelNeverNamedFeature` | violation: `GetNextExampleBatch` over a feature column and `__LABEL__` puts the label column into a named feature |

`ExampleRoutedAsSpecified` compares the destination of every column of every
example with spec.md section 8. `__LABEL__` goes to the label. A reserved name
whose stripped form is a LineId field goes to line_id. Everything else goes to
a named feature. It needs `SetSelectedCols`, `GetLineIdFieldByName` and the
routing to agree. `__OTHER__` passes the regex but names no field, and
`req_time` names a field but does not pass the regex. Both must stay features.
`LabelNeverNamedFeature` states spec.md section 8's rule for every path.
The per-row path keeps it. The batch path does not.

`RowStream` is the abstract specification of what the reader promises: a
source of `source` rows handed out as consecutive row numbers 0, 1, ... in
pieces of at least one row. The stream ends only once every row has been
handed, and it may fail at any time. Under weak fairness it keeps handing
rows, or ends, unless it fails. `ImplementsRowStream` checks the reader
against it through this refinement mapping:
* `source` is `NumRows` of the file;
* `rows` is `HandedRows`: the rows of the successful calls, one per example or
  batch row, where a row whose columns disagree maps to -2;
* `state` is `open` while the status is OK, `end` at OutOfRange, and
  `failed` otherwise.

So the property says three things. The rows come in file order with columns
aligned. OutOfRange comes only after the last row. And a reader that does not
fail reaches it.

Bounds:
* Three row groups of 0-2 rows cover:
  * empty groups first, inside and last;
  * a seek over two empty groups;
  * batches that span two or three groups;
  * a last batch shorter than `batch_size`.
* Two columns are enough for one column to be read while another is not.
* `MaxCalls = 8` is above the 7 calls the longest file needs, so it never cuts
  off a correct run.

## 4. Not modelled, and why

* The Stdin/InputStream/File sources, `PBIterator::next` for typed records and
  the transcoders: declared here, bodies elsewhere; planned from spec.md.
* Protobuf decoding of payloads: payloads are opaque bytes to the framer.
* Zstd, ClipByGlobalNorm, GpuMultiHashTable, FakeQuantRetriever: declarations
  or stateless float arithmetic with nothing for a model checker to explore.
* Logging and tensor allocation layout. The text of Kafka configuration
  strings is also left out: `KafkaInit` keeps only what `Init` tests of each
  string.
* A second Init on the same resource: the op kernel calls `Init` once per
  resource in the model.
* The resource destructor (`unassign`, `close`).
* Kafka offset commits and redelivery after a rebalance: the model keeps one
  consumed position per partition, so a partition moves with its position.
* `message_poll_timeout = 0` (division by zero at `kafka_kernels.cc:376`).
* Parquet aborts: `ExampleCols` keeps the `LOG(FATAL)` of a failed line_id
  read, of a non-numeric `__LABEL__` and of a LineId type mismatch (status
  Crash), but no run asserts against them. spec.md section 7 records them as
  fatal in the source design.
* Parquet values: what each column holds and its conversion into feature
  lists (`FillValueList`'s per-type copies). A value is the file row it comes
  from. The column buffer internals are outside this repository, and so is
  `batch_size <= 0`, which the dataset op supplies.
* `FileStreamReader::GetCompressType`: a pure option check that either
  returns a compression type or `LOG(FATAL)`s. The reader that uses it is not
  in this repository, so nothing stateful depends on its result.
