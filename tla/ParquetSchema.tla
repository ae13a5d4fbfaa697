--------------------------- MODULE ParquetSchema ---------------------------
(***************************************************************************)
(* The column configuration of ParquetExampleReader: Init registers the    *)
(* file's columns by the first component of their dotted path,            *)
(* SetSelectedCols checks the caller's column names and feature types,     *)
(* GetLineIdFieldByName finds the line_id field a reserved name addresses, *)
(* and GetNextExample routes each selected column by its name.            *)
(*                                                                         *)
(* Names are strings.  The two string operations of GetLineIdFieldByName,  *)
(* the regex match "__[A-Z_]+__" and the stripped, lower-cased field name, *)
(* are given as the set Reserved of names that match and the function      *)
(* Stripped on it.                                                         *)
(***************************************************************************)
EXTENDS Integers, Sequences, FiniteSets

CONSTANTS
  Schema,        \* the file's leaf columns: [name (first path component), ptype]
  Reserved,      \* the names that match "__[A-Z_]+__"
  Stripped,      \* [Reserved -> name.substr(2, len - 4) lower-cased]
  LineIdFields   \* fields of idl::matrix::proto::LineId: name -> cpp type

\* FieldDescriptor* as a value: a field's cpp type, or none
NullField == "null"

\* columns_index_map_[name]: the last leaf column registered under name
ColumnIndex(name) ==
  CHOOSE i \in DOMAIN Schema :
    /\ Schema[i].name = name
    /\ \A j \in DOMAIN Schema : Schema[j].name = name => j <= i

Registered == {Schema[i].name : i \in DOMAIN Schema}

\* descriptor_->FindFieldByName
FindFieldByName(n) == IF n \in DOMAIN LineIdFields THEN LineIdFields[n] ELSE NullField

\* Mutation: the name is looked up without the regex test
GetLineIdFieldByNameNoRegex(name) ==
  FindFieldByName(IF name \in Reserved THEN Stripped[name] ELSE name)

\* GetLineIdFieldByName: only a name matching "__[A-Z_]+__" addresses a field
GetLineIdFieldByName(name) ==
  IF name \notin Reserved THEN NullField ELSE FindFieldByName(Stripped[name])

\* The feature types SetSelectedCols accepts for a physical type, and the
\* ParsedDataType each gives
Accepts(ptype) ==
  CASE ptype = "INT32" -> {"int"}
    [] ptype = "INT64" -> {"int", "fid_v1", "fid_v2"}
    [] ptype \in {"FLOAT", "DOUBLE"} -> {"float"}
    [] ptype = "BYTE_ARRAY" -> {"bytes"}
    [] OTHER -> {}

(***************************************************************************)
(* SetSelectedCols: equal list sizes, every name registered, no column     *)
(* selected twice, and each feature type accepted by its column's          *)
(* physical type.  On success, the selected columns in order, each with    *)
(* its column id, name, physical type and feature type.                    *)
(***************************************************************************)
SetSelectedCols(names, types) ==
  IF Len(names) # Len(types) THEN [st |-> "InvalidArgument", cols |-> <<>>]
  ELSE IF \E k \in DOMAIN names : names[k] \notin Registered
    THEN [st |-> "InvalidArgument", cols |-> <<>>]
  ELSE LET ids == [k \in DOMAIN names |-> ColumnIndex(names[k])]
       IN  IF Cardinality({ids[k] : k \in DOMAIN ids}) # Len(ids)
             THEN [st |-> "InvalidArgument", cols |-> <<>>]
           ELSE IF \E k \in DOMAIN ids : types[k] \notin Accepts(Schema[ids[k]].ptype)
             THEN [st |-> "InvalidArgument", cols |-> <<>>]
           ELSE [st |-> "OK",
                 cols |-> [k \in DOMAIN ids |->
                             [id |-> ids[k], name |-> names[k],
                              ptype |-> Schema[ids[k]].ptype, ftype |-> types[k],
                              field |-> GetLineIdFieldByName(names[k])]]]

\* The physical type each line_id cpp type CHECKs for
LineIdPType ==
  [int32 |-> "INT32", uint32 |-> "INT32", int64 |-> "INT64", uint64 |-> "INT64",
   float |-> "FLOAT", double |-> "DOUBLE", string |-> "BYTE_ARRAY"]

(***************************************************************************)
(* Where GetNextExample puts a selected column: __LABEL__ of a numeric     *)
(* type into the label (any other type LOG(FATAL)s), a column with a       *)
(* line_id field into that field (a repeated or unsupported field, or a    *)
(* physical type the CHECK refuses, aborts), anything else into a named    *)
(* feature.  "abort" happens before the column is read.                    *)
(***************************************************************************)
Route(col) ==
  CASE col.name = "__LABEL__" ->
         IF col.ptype \in {"INT32", "INT64", "FLOAT", "DOUBLE"} THEN "label" ELSE "abort"
    [] col.field # NullField ->
         IF col.field \in DOMAIN LineIdPType /\ LineIdPType[col.field] = col.ptype
           THEN "lineid" ELSE "abort"
    [] OTHER -> "feature"

====
