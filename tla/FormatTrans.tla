---------------------------- MODULE FormatTrans ----------------------------
(***************************************************************************)
(* The record path of a version-2 Kafka Next call: the iterator it builds  *)
(* over each message, PBIteratorWithDataFormatTrans::GetNext choosing the  *)
(* next() overload, the conversion and the HandleResult overload (and so   *)
(* the output list a record lands in), and the list Next then counts and   *)
(* copies into the message tensor.  Records are not modelled, only the     *)
(* kinds each step produces.                                               *)
(***************************************************************************)

\* data_format::DataFormat
DataFormats == {"UNKNOW", "PLAINTEXT", "INSTANCE", "EXAMPLE", "EXAMPLEBATCH"}

\* The PBIterator Next builds over a message: Instance and Example streams
\* get a PBIterator, every other input an ExampleBatchIterator
ReaderFor(in) ==
  IF in \in {"INSTANCE", "EXAMPLE"} THEN "PBIterator" ELSE "ExampleBatchIterator"

\* Mutation: the PLAINTEXT branch is missing, serialized output falls through
GetNextNoPlaintext(in, out) ==
  IF in = "EXAMPLE" /\ out = "INSTANCE"
    THEN [read |-> "Example", conv |-> "ExampleToInstance", list |-> "ins_pb_list"]
  ELSE IF in = "INSTANCE" /\ out = "EXAMPLE"
    THEN [read |-> "Instance", conv |-> "InstanceToExample", list |-> "exa_pb_list"]
  ELSE IF out = "EXAMPLE"
    THEN [read |-> "Example", conv |-> "none", list |-> "exa_pb_list"]
  ELSE IF out = "INSTANCE"
    THEN [read |-> "Instance", conv |-> "none", list |-> "ins_pb_list"]
  ELSE [read |-> "ExampleBatch", conv |-> "none", list |-> "eb_pb_list"]

(***************************************************************************)
(* GetNext: the record kind asked of reader->next, the conversion applied  *)
(* to it, and the CurOutput list its HandleResult overload appends to, in  *)
(* the order of the if-else chain.                                         *)
(***************************************************************************)
GetNext(in, out) ==
  IF out = "PLAINTEXT"
    THEN [read |-> "bytes", conv |-> "none", list |-> "string_list"]
  ELSE IF in = "EXAMPLE" /\ out = "INSTANCE"
    THEN [read |-> "Example", conv |-> "ExampleToInstance", list |-> "ins_pb_list"]
  ELSE IF in = "INSTANCE" /\ out = "EXAMPLE"
    THEN [read |-> "Instance", conv |-> "InstanceToExample", list |-> "exa_pb_list"]
  ELSE IF out = "EXAMPLE"
    THEN [read |-> "Example", conv |-> "none", list |-> "exa_pb_list"]
  ELSE IF out = "INSTANCE"
    THEN [read |-> "Instance", conv |-> "none", list |-> "ins_pb_list"]
  ELSE [read |-> "ExampleBatch", conv |-> "none", list |-> "eb_pb_list"]

\* The list Next sizes the message tensor by, and copies from
OutputList(out) ==
  CASE out = "EXAMPLE"      -> "exa_pb_list"
    [] out = "EXAMPLEBATCH" -> "eb_pb_list"
    [] out = "INSTANCE"     -> "ins_pb_list"
    [] OTHER                -> "string_list"

====
