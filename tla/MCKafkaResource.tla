-------------------------- MODULE MCKafkaResource --------------------------
(***************************************************************************)
(* Model-checking instance of KafkaResource: the record kinds framed in    *)
(* each message for version 2 (a message of two records, one with an      *)
(* empty record in front).                                                *)
(***************************************************************************)
EXTENDS KafkaResource

\* Record kinds of message <<p, i>>: "rec" a record, "empty" a record of
\* ByteSize 0 (refused by HandleReaderNextStauts).  The first partition
\* carries two records per message, the others an empty record in front.
MCContent ==
  [m \in MsgIds |-> IF m[1] = CHOOSE p \in Partitions : TRUE
                      THEN <<"rec", "rec">> ELSE <<"empty", "rec">>]

====
