-------------------------- MODULE MCParquetReader --------------------------
(***************************************************************************)
(* Model-checking instance of ParquetReader.  A file is any sequence of up *)
(* to MaxGroups row groups of up to MaxGroupRows rows: the file without    *)
(* row groups, empty groups inside the file and at its end (the row-group  *)
(* walk skips several in one call), and batches that span group bounds.   *)
(*                                                                         *)
(* The schema has a label, a line_id column (__REQ_TIME__, LineId field    *)
(* req_time), a reserved name with no such field, an ordinary column named *)
(* like that field, a struct s with two leaves, a BOOLEAN column, and a   *)
(* column __SEQ__ whose LineId field seq is repeated.                     *)
(***************************************************************************)
EXTENDS ParquetReader

CONSTANTS MaxGroups, MaxGroupRows

MCFiles == UNION {[1 .. n -> 0 .. MaxGroupRows] : n \in 0 .. MaxGroups}

MCSchema ==
  <<[name |-> "__LABEL__", ptype |-> "INT64"],
    [name |-> "__REQ_TIME__", ptype |-> "INT64"],
    [name |-> "__OTHER__", ptype |-> "BYTE_ARRAY"],
    [name |-> "req_time", ptype |-> "INT64"],
    [name |-> "s", ptype |-> "INT32"],
    [name |-> "s", ptype |-> "FLOAT"],
    [name |-> "flag", ptype |-> "BOOLEAN"],
    [name |-> "__SEQ__", ptype |-> "INT64"]>>

MCReserved == {"__LABEL__", "__REQ_TIME__", "__OTHER__", "__SEQ__"}

MCStripped == [n \in MCReserved |->
                 CASE n = "__LABEL__" -> "label"
                   [] n = "__REQ_TIME__" -> "req_time"
                   [] n = "__SEQ__" -> "seq"
                   [] OTHER -> "other"]

\* seq is a repeated field, which GetNextExample refuses with LOG(FATAL)
MCLineIdFields == [f \in {"req_time", "seq"} |-> IF f = "seq" THEN "repeated" ELSE "int64"]

\* Selections that pass SetSelectedCols, one per routing, and one of each
\* way it refuses a selection
MCSelections ==
  { <<<<"req_time", "__LABEL__">>, <<"fid_v1", "int">>>>,
    <<<<"__REQ_TIME__", "__OTHER__">>, <<"int", "bytes">>>>,
    <<<<"s">>, <<"float">>>>,
    <<<<"req_time", "__SEQ__">>, <<"int", "int">>>>,
    <<<<"req_time">>, <<"int", "int">>>>,
    <<<<"x">>, <<"int">>>>,
    <<<<"__LABEL__", "__LABEL__">>, <<"int", "int">>>>,
    <<<<"req_time">>, <<"float">>>>,
    <<<<"flag">>, <<"int">>>> }

\* The selection of a feature column and the label
MCFeatureAndLabel == { <<<<"req_time", "__LABEL__">>, <<"fid_v1", "int">>>> }
====
