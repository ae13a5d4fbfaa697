--------------------------- MODULE ParquetReader ---------------------------
(***************************************************************************)
(* ParquetExampleReader of parquet_example_reader.h: the row cursor iter_,  *)
(* the current row group (row_group_id_, row_group_offset_) with one column *)
(* buffer per selected column, NextRowGroup, GetNextExample and            *)
(* GetNextExampleBatch.  A file is a sequence of row-group sizes; a       *)
(* value read from a column buffer is the file row it belongs to, so the   *)
(* properties can tell which row every feature came from.  Any read        *)
(* (TypedColumnBuffer::GetNextValues) may fail; a failed read does not     *)
(* advance its buffer.  The reader is used by one thread at a time, so     *)
(* each call is one step.                                                  *)
(***************************************************************************)
EXTENDS Integers, Sequences, SequencesExt, ParquetSchema

CONSTANTS
  Files,         \* the files a reader may open: num_rows() of each row group
  Selections,    \* <<selected_col_names, selected_col_types>> a dataset may pass
  Modes,         \* how the dataset reads: "example" (GetNextExample), "batch"
  BatchSizes,    \* batch_size values a dataset may use
  MaxFailures,   \* column reads that fail
  MaxCalls,      \* calls of the dataset, above what the file needs
  Retry          \* the dataset calls again after an error (ignore_errors)

VARIABLES
  file,       \* the row-group sizes of the open file, fixed per reader
  mode,       \* the dataset's read call, fixed per reader
  sel,        \* the selected columns (SetSelectedCols), fixed per reader
  iter,       \* iter_: rows handed out so far
  rgId,       \* row_group_id_ (-1 before the first row group)
  rgOffset,   \* row_group_offset_: file row of the group's first row
  pos,        \* rows each column buffer of the current group has yielded
  batchSize,  \* the dataset's batch_size
  status,     \* status of the last call
  out,        \* history: what each successful call returned
  failures,   \* failed reads so far
  calls       \* calls so far

Cols == DOMAIN sel
NumRowGroups == Len(file)
NumRows == FoldLeft(+, 0, file)   \* parquet_metadata_->num_rows()
Rows(id) == file[id + 1]          \* row groups are numbered from 0

vars == <<file, mode, sel, iter, rgId, rgOffset, pos, batchSize, status, out, failures, calls>>

(***************************************************************************)
(* A call in progress: the reader's fields, the number k of reads done in  *)
(* this call, the read fail that fails (0: none), and the values read per  *)
(* column.                                                                 *)
(***************************************************************************)
Begin(fail) ==
  [st |-> "OK", iter |-> iter, id |-> rgId, off |-> rgOffset, pos |-> pos,
   k |-> 0, fail |-> fail, vals |-> [i \in Cols |-> <<>>],
   dest |-> [i \in Cols |-> "feature"]]

\* Mutation: the column buffers are not rebuilt for the new row group
NextRowGroupNoReset(c) ==
  IF c.id + 1 >= NumRowGroups THEN [c EXCEPT !.st = "OutOfRange"]
  ELSE [c EXCEPT !.off = IF c.id = -1 THEN 0 ELSE c.off + Rows(c.id),
                 !.id = c.id + 1]

\* Mutation: the last row group is taken to be out of range
NextRowGroupEarlyEnd(c) ==
  IF c.id + 2 >= NumRowGroups THEN [c EXCEPT !.st = "OutOfRange"]
  ELSE [c EXCEPT !.off = IF c.id = -1 THEN 0 ELSE c.off + Rows(c.id),
                 !.id = c.id + 1, !.pos = [i \in Cols |-> 0]]

\* NextRowGroup: open the next row group and fresh column buffers
NextRowGroup(c) ==
  IF c.id + 1 >= NumRowGroups THEN [c EXCEPT !.st = "OutOfRange"]
  ELSE [c EXCEPT !.off = IF c.id = -1 THEN 0 ELSE c.off + Rows(c.id),
                 !.id = c.id + 1, !.pos = [i \in Cols |-> 0]]

\* Mutation: "if" for "while": one row group is skipped at most
SeekOnce(c) ==
  IF c.st # "OK" \/ c.iter < c.off + Rows(c.id) THEN c ELSE NextRowGroup(c)

\* while (iter_ >= row_group_offset_ + num_rows()) NextRowGroup()
RECURSIVE SeekRowGroup(_)
SeekRowGroup(c) ==
  IF c.st # "OK" \/ c.iter < c.off + Rows(c.id) THEN c
  ELSE SeekRowGroup(NextRowGroup(c))

(***************************************************************************)
(* GetNextValues of column i: the next row of the group, or the failing    *)
(* read.  A buffer read past the end of its row group yields no row of the *)
(* file (-1).                                                              *)
(***************************************************************************)
ReadValue(c, i) ==
  IF c.k + 1 = c.fail THEN [c EXCEPT !.k = @ + 1, !.st = "ReadError"]
  ELSE [c EXCEPT !.k = @ + 1, !.pos[i] = @ + 1,
                 !.vals[i] = Append(@, IF c.pos[i] < Rows(c.id)
                                         THEN c.off + c.pos[i] ELSE -1)]

\* Mutation: iter_ > num_rows
IsEOFLate(c) == c.iter > NumRows

IsEOF(c) == c.iter >= NumRows

-----------------------------------------------------------------------------
(* GetNextExample                                                          *)

\* The columns of one row in selection order, each put where Route says.
\* A __LABEL__ column goes through FillLabel and a feature through
\* FillValueList, which return the error; a line_id column goes through
\* GetSingleValue, which LOG(FATAL)s.
RECURSIVE ExampleCols(_, _)
ExampleCols(c, i) ==
  IF c.st # "OK" \/ i > Len(sel) THEN c
  ELSE IF Route(sel[i]) = "abort" THEN [c EXCEPT !.st = "Crash"]
  ELSE LET d == [ReadValue(c, i) EXCEPT !.dest[i] = Route(sel[i])]
       IN  ExampleCols(IF d.st = "ReadError" /\ Route(sel[i]) = "lineid"
                         THEN [d EXCEPT !.st = "Crash"] ELSE d, i + 1)

GetNextExample(c) ==
  IF IsEOF(c) THEN [c EXCEPT !.st = "OutOfRange"]
  ELSE LET e == ExampleCols(SeekRowGroup(c), 1)
       IN  IF e.st = "OK" THEN [e EXCEPT !.iter = @ + 1] ELSE e

-----------------------------------------------------------------------------
(* GetNextExampleBatch                                                     *)

\* n rows of column i
RECURSIVE ColumnRows(_, _, _)
ColumnRows(c, i, n) ==
  IF c.st # "OK" \/ n = 0 THEN c ELSE ColumnRows(ReadValue(c, i), i, n - 1)

\* n rows of every column, column after column
RECURSIVE ChunkCols(_, _, _)
ChunkCols(c, i, n) ==
  IF c.st # "OK" \/ i > Len(sel) THEN c
  ELSE ChunkCols(ColumnRows(c, i, n), i + 1, n)

\* Mutation: the chunk is not cut at the end of the row group
ChunkRowsUnclamped(s, left) == left

\* rows_in_row_group: what is left of the batch, or of the row group
ChunkRows(s, left) ==
  LET end == s.off + Rows(s.id)
  IN  IF s.iter + left >= end THEN end - s.iter ELSE left

\* while (rows_to_read_left > 0): the rows left in the current row group
RECURSIVE BatchLoop(_, _)
BatchLoop(c, left) ==
  IF c.st # "OK" \/ left <= 0 THEN c
  ELSE LET s == SeekRowGroup(c)
       IN  IF s.st # "OK" THEN s
           ELSE LET n == ChunkRows(s, left)
                    r == ChunkCols(s, 1, n)
                IN  IF r.st # "OK" THEN r
                    ELSE BatchLoop([r EXCEPT !.iter = @ + n], left - n)

\* rows_to_read_left: batch_size, or what is left of the file
BatchRows(c, bs) == IF c.iter + bs >= NumRows THEN NumRows - c.iter ELSE bs

GetNextExampleBatch(c, bs) ==
  IF IsEOF(c) THEN [c EXCEPT !.st = "OutOfRange"]
  ELSE BatchLoop(c, BatchRows(c, bs))

-----------------------------------------------------------------------------

\* Init: SetSelectedCols, iter_ = 0, row_group_offset_ = row_group_id_ = -1,
\* NextRowGroup, then the line_id fields of the selected columns
Init ==
  /\ file \in Files
  /\ \E s \in Selections :
       LET set == SetSelectedCols(s[1], s[2])
           c == NextRowGroup([st |-> "OK", iter |-> 0, id |-> -1, off |-> -1,
                              pos |-> [i \in DOMAIN set.cols |-> 0], k |-> 0,
                              fail |-> 0, vals |-> <<>>, dest |-> <<>>])
       IN  /\ sel = set.cols
           /\ iter = 0
           /\ rgId = IF set.st = "OK" THEN c.id ELSE -1
           /\ rgOffset = IF set.st = "OK" THEN c.off ELSE -1
           /\ pos = [i \in DOMAIN set.cols |-> 0]
           /\ status = CASE set.st # "OK" -> set.st
                          [] c.st # "OK" -> "InitFailed"
                          [] OTHER -> "OK"
  /\ mode \in Modes
  /\ batchSize \in BatchSizes
  /\ out = <<>>
  /\ failures = 0
  /\ calls = 0

\* The dataset asks for more while the last call succeeded (or, with Retry,
\* failed with an error it ignores); the read numbered fail, if any, fails.
CanCall ==
  /\ status = "OK" \/ (Retry /\ status = "ReadError")
  /\ calls < MaxCalls

FailChoices ==
  IF failures < MaxFailures
    THEN 0 .. Len(sel) * (IF mode = "example" THEN 1 ELSE batchSize)
    ELSE {0}

\* One call's result r becomes the reader's state; what it returned is
\* recorded when it succeeded.
Apply(r, size) ==
  /\ iter' = r.iter
  /\ rgId' = r.id
  /\ rgOffset' = r.off
  /\ pos' = r.pos
  /\ status' = r.st
  /\ out' = IF r.st = "OK"
              THEN Append(out, [size |-> size, cols |-> r.vals, dest |-> r.dest])
            ELSE out
  /\ failures' = failures + (IF 0 < r.fail /\ r.fail <= r.k THEN 1 ELSE 0)
  /\ calls' = calls + 1
  /\ UNCHANGED <<file, mode, sel, batchSize>>

ExampleCall ==
  /\ mode = "example"
  /\ CanCall
  /\ \E fail \in FailChoices : Apply(GetNextExample(Begin(fail)), 1)

BatchCall ==
  /\ mode = "batch"
  /\ CanCall
  /\ \E fail \in FailChoices :
       Apply(GetNextExampleBatch(Begin(fail), batchSize),
             BatchRows(Begin(fail), batchSize))

Next == ExampleCall \/ BatchCall

(***************************************************************************)
(* The dataset keeps pulling until the reader reports an error or the end: *)
(* weak fairness of Next.  Every call counts itself, so a call is enabled  *)
(* exactly when CanCall holds, and WF_vars(Next) is written out with that  *)
(* enabling condition.                                                     *)
(***************************************************************************)
Fairness == []<>(~CanCall) \/ []<><<Next>>_vars

Spec == Init /\ [][Next]_vars /\ Fairness

-----------------------------------------------------------------------------

\* Rows handed on by the first b - 1 successful calls, and by all of them
Before(b) == FoldLeft(LAMBDA acc, x : acc + x.size, 0, SubSeq(out, 1, b - 1))
Handed == Before(Len(out) + 1)

\* Type invariant; no column buffer is read past the end of its row group.
TypeOK ==
  /\ mode \in Modes
  /\ iter \in 0 .. NumRows
  /\ rgId \in -1 .. NumRowGroups - 1
  /\ status \in {"OK", "OutOfRange", "ReadError", "Crash", "InitFailed",
                 "InvalidArgument"}
  /\ failures \in 0 .. MaxFailures
  /\ status \notin {"InitFailed", "InvalidArgument"} => pos \in [Cols -> 0 .. Rows(rgId)]

(***************************************************************************)
(* Every row of the file is handed on once, in file order, whole: for each *)
(* column the values of all returned examples or batches, concatenated,   *)
(* are file rows 0, 1, 2, .., every column of a call has as many values as *)
(* the call's batch size, that size is batch_size except for the rest of   *)
(* the file at the end, and while calls succeed iter_ is the next row to   *)
(* hand on.  It is about the row-group walk of NextRowGroup and the batch  *)
(* loop, including empty row groups and batches that span row groups, and *)
(* the state a failed read leaves behind for the next call.                *)
(***************************************************************************)
RowsInOrderAligned ==
  /\ \A i \in Cols :
       FlattenSeq([b \in DOMAIN out |-> out[b].cols[i]]) = [j \in 1 .. Handed |-> j - 1]
  /\ \A b \in DOMAIN out :
       /\ \A i \in Cols : Len(out[b].cols[i]) = out[b].size
       /\ out[b].size = IF mode = "example" THEN 1
                        ELSE IF NumRows - Before(b) < batchSize
                               THEN NumRows - Before(b) ELSE batchSize
  /\ status = "OK" => iter = Handed

\* Where spec.md 4.5 sends a column: __LABEL__ to the label list, a reserved
\* name whose stripped, lower-cased form is a line_id field to that field,
\* any other name (a reserved one without such a field included) to the
\* named features
SpecRoute(col) ==
  IF col.name = "__LABEL__" THEN "label"
  ELSE IF col.name \in Reserved /\ Stripped[col.name] \in DOMAIN LineIdFields
    THEN "lineid"
  ELSE "feature"

(***************************************************************************)
(* spec.md 8, per-row path: every column of every example GetNextExample   *)
(* returns went where its name sends it; in particular an ordinary column *)
(* whose name happens to be a line_id field name stays a named feature,   *)
(* as the regex test before the lookup in GetLineIdFieldByName ensures.    *)
(***************************************************************************)
ExampleRoutedAsSpecified ==
  mode = "example" =>
    \A b \in DOMAIN out : \A i \in Cols : out[b].dest[i] = SpecRoute(sel[i])

(***************************************************************************)
(* spec.md 8: "A column named __LABEL__ ... is routed into the label list, *)
(* never into named-feature output, for both the per-row and batch code   *)
(* paths."                                                                 *)
(***************************************************************************)
LabelNeverNamedFeature ==
  \A b \in DOMAIN out : \A i \in Cols :
    sel[i].name = "__LABEL__" => out[b].dest[i] = "label"

-----------------------------------------------------------------------------
(***************************************************************************)
(* Refinement: the reader implements RowStream.  A row handed out is the   *)
(* file row all its column values come from, or -2 when they disagree; a   *)
(* successful call hands out its rows, OutOfRange is the end and any other *)
(* status a failure.                                                       *)
(***************************************************************************)
RowOf(b, t) ==
  LET vs == {out[b].cols[i][t] : i \in Cols}
  IN  IF \E v \in vs : vs = {v} THEN CHOOSE v \in vs : TRUE ELSE -2

HandedRows ==
  FlattenSeq([b \in DOMAIN out |-> [t \in 1 .. out[b].size |-> RowOf(b, t)]])

StreamState ==
  CASE status = "OK" -> "open"
    [] status = "OutOfRange" -> "end"
    [] OTHER -> "failed"

Abstract == INSTANCE RowStream WITH
  source <- NumRows, rows <- HandedRows, state <- StreamState

(***************************************************************************)
(* The reader, as the dataset sees it, behaves as RowStream allows: every  *)
(* call hands out the next rows of the file, whole and in order, the end   *)
(* is reported only after the last row, nothing follows a failure, and a   *)
(* dataset that keeps calling reaches the end or an error.                 *)
(***************************************************************************)
ImplementsRowStream == Abstract!Spec

====
