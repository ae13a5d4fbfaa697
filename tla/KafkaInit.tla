----------------------------- MODULE KafkaInit -----------------------------
(***************************************************************************)
(* KafkaGroupReadableResource::Init of kafka_kernels.cc, as the Init op    *)
(* calls it: the metadata strings become librdkafka topic and global       *)
(* settings, the consumer is created and subscribed, and the pb types pick *)
(* the Next version.  A metadata string is abstracted to what Init tests   *)
(* of it: whether it starts with "conf.topic.", whether "conf." occurs in  *)
(* it, how many '=' it holds, and whether librdkafka accepts the setting.  *)
(* data_format::StringToDataFormat is not in this repository; it is the    *)
(* constant StringToDataFormat, which maps "" and unknown names to UNKNOW.  *)
(* With both pb types set, a successful Init selects version 2 and the     *)
(* record path of FormatTrans.                                             *)
(***************************************************************************)
EXTENDS Integers, Sequences, FiniteSets, FormatTrans

CONSTANTS
  Metadatas,  \* the metadata sequences an Init op may pass
  PbTypes,            \* input/output pb type strings
  StringToDataFormat  \* [PbTypes -> DataFormats]

VARIABLES
  metadata,     \* the metadata strings, abstracted
  types,        \* <<input_pb_type, output_pb_type>>
  status,       \* "new" before Init, then its status
  topicConf,    \* metadata entries set on conf_topic
  globalConf,   \* metadata entries set on conf
  subscribed,   \* the consumer exists and has subscribed to the topics
  version,      \* version_ (1 until Init sets it)
  pbTypes       \* <<input_pb_type_, output_pb_type_>>, DataFormat members

vars == <<metadata, types, status, topicConf, globalConf, subscribed, version, pbTypes>>

\* A metadata string: "" or text, with the properties Init tests
Entries ==
  {[empty |-> TRUE, topic |-> FALSE, conf |-> FALSE, eqs |-> 0, ok |-> TRUE]}
  \cup [empty: {FALSE}, topic: {TRUE}, conf: {TRUE}, eqs: 0 .. 2, ok: BOOLEAN]
  \cup [empty: {FALSE}, topic: {FALSE}, conf: BOOLEAN, eqs: 0 .. 2, ok: BOOLEAN]

\* metadata[i].find("conf.topic.") == 0
IsTopicEntry(e) == e.topic

\* metadata[i] != "" && metadata[i].find("conf.") == npos
IsGlobalEntry(e) == ~e.empty /\ ~e.conf

\* Split on '=' must give two parts; then conf->set must return CONF_OK
EntryStatus(e) ==
  IF e.eqs # 1 THEN "InvalidArgument" ELSE IF ~e.ok THEN "Internal" ELSE "OK"

\* The entries the "topic" loop or the "global" loop handles
Selects(level, e) == IF level = "topic" THEN IsTopicEntry(e) ELSE IsGlobalEntry(e)

(***************************************************************************)
(* One configuration loop: the entries it selects, in order, set one by    *)
(* one until the first that fails, whose status the loop returns.          *)
(***************************************************************************)
ConfLoop(level) ==
  LET mine == {i \in DOMAIN metadata : Selects(level, metadata[i])}
      bad  == {i \in mine : EntryStatus(metadata[i]) # "OK"}
      f    == CHOOSE i \in bad : \A j \in bad : i <= j
  IN  IF bad = {} THEN [st |-> "OK", set |-> mine]
      ELSE [st |-> EntryStatus(metadata[f]), set |-> {i \in mine : i < f}]

\* input_pb_type_ and output_pb_type_ as Init parses them
Formats(t) == <<StringToDataFormat[t[1]], StringToDataFormat[t[2]]>>

\* version_: 1 without pb types, 2 when both name a format, else an error (0)
PbVersion(t) ==
  IF t = <<"", "">> THEN 1
  ELSE IF "UNKNOW" \notin {Formats(t)[1], Formats(t)[2]} THEN 2 ELSE 0

Init ==
  /\ metadata \in Metadatas
  /\ types \in PbTypes \X PbTypes
  /\ status = "new"
  /\ topicConf = {}
  /\ globalConf = {}
  /\ subscribed = FALSE
  /\ version = 1
  \* input_pb_type_ and output_pb_type_ have no initializer and the
  \* resource is allocated with new: any value (one outside the enum takes
  \* the same branches as UNKNOW)
  /\ pbTypes \in DataFormats \X DataFormats

(***************************************************************************)
(* KafkaGroupReadableResource::Init: topic settings, default_topic_conf,   *)
(* global settings, the defaults, create, subscribe, then the pb types.    *)
(* Consumer creation and subscription may fail (created, subscribes).      *)
(***************************************************************************)
InitResource ==
  /\ status = "new"
  /\ \E created, subscribes \in BOOLEAN :
       LET t == ConfLoop("topic")
           g == ConfLoop("global")
       IN  /\ topicConf' = t.set
           /\ globalConf' = IF t.st = "OK" THEN g.set ELSE {}
           /\ subscribed' = (t.st = "OK" /\ g.st = "OK" /\ created /\ subscribes)
           /\ status' = CASE t.st # "OK" -> t.st
                          [] g.st # "OK" -> g.st
                          [] ~created \/ ~subscribes -> "Internal"
                          [] PbVersion(types) = 0 -> "Internal"
                          [] OTHER -> "OK"
           /\ version' = IF status' = "OK" THEN PbVersion(types) ELSE version
           /\ pbTypes' = IF subscribed' /\ types # <<"", "">>
                           THEN Formats(types) ELSE pbTypes
  /\ UNCHANGED <<metadata, types>>

Next == InitResource

\* Init runs once per resource and nothing follows it
Spec == Init /\ [][Next]_vars

-----------------------------------------------------------------------------

(***************************************************************************)
(* Every setting the caller passes takes effect: after a successful Init   *)
(* each well-formed "key=value" string that librdkafka accepts is set on   *)
(* the topic or the global configuration.                                  *)
(***************************************************************************)
EverySettingApplied ==
  status = "OK" =>
    \A i \in DOMAIN metadata :
      ~metadata[i].empty /\ EntryStatus(metadata[i]) = "OK" => i \in topicConf \cup globalConf

(***************************************************************************)
(* Every record a version-2 Next decodes reaches the message tensor: after *)
(* a successful Init that selects version 2, the CurOutput list GetNext    *)
(* appends to for the resource's pb types is the list Next sizes the       *)
(* tensor by and copies from.  Otherwise Next returns an empty tensor and  *)
(* only logs "get not enough pb", batch after batch.                       *)
(***************************************************************************)
EveryRecordOutput ==
  status = "OK" /\ version = 2 =>
    GetNext(pbTypes[1], pbTypes[2]).list = OutputList(pbTypes[2])

(***************************************************************************)
(* Every message a version-1 Next takes reaches the message tensor: after  *)
(* a successful Init without pb types, Next swaps message_value into       *)
(* string_list and then sizes and fills the tensor from the list           *)
(* output_pb_type_ selects, which must be string_list.                     *)
(***************************************************************************)
MessagesReachOutput ==
  status = "OK" /\ version = 1 => OutputList(pbTypes[2]) = "string_list"

====
