---------------------------- MODULE StreamReader ----------------------------
(***************************************************************************)
(* The record framer of data_reader.h: BaseStreamReaderTmpl<T>::           *)
(* ReadPBBytes, ReadDataHeader and ReadBinarySize, running over the        *)
(* in-memory source StringStreamReader<tstring>::ReadNBytes, as the Kafka  *)
(* kernel drives it (one reader per message, GetNext until an error).      *)
(*                                                                         *)
(* A byte has ByteMod values and a length field is SizeBytes bytes, read   *)
(* little-endian (core::DecodeFixed64).  size_t arithmetic wraps modulo    *)
(* ByteMod^SizeBytes, as it wraps modulo 2^64 in the code.                 *)
(***************************************************************************)
EXTENDS Integers, Sequences, SequencesExt

CONSTANTS
  ByteMod,     \* values of one byte (256 in the code)
  SizeBytes,   \* bytes of one length field: sizeof(size_t) = 8
  DeadBeef,    \* the rejected payload length 0xfefefefe
  Inputs,      \* the (options, content) pairs a reader is built over
  NoKey,       \* data_source_key left unwritten by ReadDataHeader
  MaxSeeks     \* bound on SetOffset calls

ASSUME ByteMod \in Nat \ {0, 1}
ASSUME SizeBytes \in Nat /\ SizeBytes % 2 = 0 /\ SizeBytes > 0
ASSUME MaxSeeks \in Nat

SizeMod == ByteMod ^ SizeBytes          \* size_t / uint64 wrap-around
U32Mod  == ByteMod ^ (SizeBytes \div 2) \* uint32_t wrap-around

ASSUME DeadBeef \in 0 .. SizeMod - 1

VARIABLES
  input,    \* [options, bytes]: DataFormatOptions and content_, fixed per reader
  cur,      \* StringStreamReader::cur_
  status,   \* status of the last GetNext; "OK" while the caller keeps reading
  out,      \* history: the records handed to the caller, with their offsets
  seeks     \* number of SetOffset calls so far

vars == <<input, cur, status, out, seeks>>

options == input.options
content == input.bytes

Statuses == {"OK", "FailedPrecondition", "OutOfRange", "InvalidArgument",
             "Crash"}

\* Mutation: a zero-length read at the end of content_ is refused
ReadNBytesZeroAtEnd(c, at, n) ==
  IF (at + n) % SizeMod > Len(c)
    THEN [st |-> "FailedPrecondition", cur |-> at, val |-> <<>>]
  ELSE IF at = Len(c)
    THEN [st |-> "OutOfRange", cur |-> at, val |-> <<>>]
  ELSE [st |-> "OK", cur |-> (at + n) % SizeMod, val |-> SubSeq(c, at + 1, at + n)]

(***************************************************************************)
(* StringStreamReader::ReadNBytes.  cur_ + n is computed in size_t.  When  *)
(* it wraps, the bound check passes although the read runs past content_; *)
(* T(content_.data() + cur_, n) then copies about 2^64 bytes, which aborts *)
(* the process ("Crash").                                                  *)
(***************************************************************************)
ReadNBytes(c, at, n) ==
  IF (at + n) % SizeMod > Len(c)
    THEN [st |-> "FailedPrecondition", cur |-> at, val |-> <<>>]
  ELSE IF n > 0 /\ at = Len(c)
    THEN [st |-> "OutOfRange", cur |-> at, val |-> <<>>]
  ELSE IF at + n > Len(c)
    THEN [st |-> "Crash", cur |-> at, val |-> <<>>]
  ELSE [st |-> "OK", cur |-> (at + n) % SizeMod, val |-> SubSeq(c, at + 1, at + n)]

\* core::DecodeFixed64: little-endian bytes to an unsigned integer
DecodeFixed64(bytes) == FoldRight(LAMBDA b, acc : b + ByteMod * acc, bytes, 0)

(***************************************************************************)
(* A read in progress is [st, cur, size, val]; once st is not "OK" every   *)
(* later step returns it unchanged (TF_RETURN_IF_ERROR).                   *)
(***************************************************************************)
Bytes(c, r, n) ==
  IF r.st # "OK" THEN r
  ELSE LET x == ReadNBytes(c, r.cur, n)
       IN  [r EXCEPT !.st = x.st, !.cur = x.cur, !.val = x.val]

\* ReadBinarySize: one length field; *size is left as it was on failure
ReadBinarySize(c, r) ==
  IF r.st # "OK" THEN r
  ELSE LET x == ReadNBytes(c, r.cur, SizeBytes)
       IN  [r EXCEPT !.st = x.st, !.cur = x.cur,
                     !.size = IF x.st = "OK" THEN DecodeFixed64(x.val) ELSE @]

\* Mutation: the source key keeps the bits above the low 32
LgxHeaderWideKey(v) ==
  [pbType |-> v % ByteMod, key |-> (v \div ByteMod) * ByteMod]

\* Mutation: the pb type is not narrowed to one byte
LgxHeaderWideType(v) ==
  [pbType |-> v, key |-> ((v % U32Mod) \div ByteMod) * ByteMod]

\* lagrangex header: uint8 pb type, uint32 source key with its low byte cleared
LgxHeader(v) ==
  [pbType |-> v % ByteMod, key |-> ((v % U32Mod) \div ByteMod) * ByteMod]

(***************************************************************************)
(* A frame read in progress: the read record plus aggregate_page_sortid_   *)
(* size (agg), the pb_type and data_source_key written so far, and ph, the *)
(* next field the code reads.  ReadPBBytes is the walk through the fields  *)
(* from Begin to "done" or to the first failing read.                      *)
(***************************************************************************)
Begin(o, at) ==
  [st |-> "OK", cur |-> at, size |-> 0, agg |-> 0, val |-> <<>>,
   pbType |-> 0, key |-> NoKey,
   ph |-> IF o.lagrangex_header THEN "lgx" ELSE "prefix"]

Then(r, ph) == [r EXCEPT !.ph = ph]

(***************************************************************************)
(* ReadDataHeader, one field per step.  With lagrangex_header one length   *)
(* field carries the pb type in its low byte and the data source key in    *)
(* the rest of its low 32 bits.  Otherwise the kafka_dump_prefix, sort-id  *)
(* and kafka_dump fields are consumed in that order: a zero prefix is      *)
(* followed by a fresh length field, a non-zero one is the sort-id length. *)
(***************************************************************************)
DataHeaderStep(c, o, r) ==
  CASE r.ph = "lgx" ->
         LET x == ReadBinarySize(c, r)
         IN  [x EXCEPT !.pbType = LgxHeader(x.size).pbType,
                       !.key = LgxHeader(x.size).key, !.ph = "length"]
    [] r.ph = "prefix" /\ ~o.kafka_dump_prefix -> Then(r, "sortLen")
    [] r.ph = "prefix" ->
         LET x == ReadBinarySize(c, r)
         IN  IF x.size = 0 THEN Then(x, "fresh")
             ELSE [x EXCEPT !.agg = x.size, !.ph = "sortLen"]
    [] r.ph = "fresh" -> Then(ReadBinarySize(c, r), "sortLen")
    [] r.ph = "sortLen" /\ ~o.has_sort_id -> Then(r, "dump")
    [] r.ph = "sortLen" /\ r.agg = 0 -> Then(ReadBinarySize(c, r), "sortId")
    [] r.ph = "sortLen" -> [r EXCEPT !.size = r.agg, !.ph = "sortId"]
    [] r.ph = "sortId" -> Then(Bytes(c, r, r.size), "dump")
    [] r.ph = "dump" /\ o.kafka_dump -> Then(ReadBinarySize(c, r), "length")
    [] r.ph = "dump" -> Then(r, "length")

\* ReadPBBytes after the header: payload length (0xfefefefe refused), payload
PBBytesStep(c, r) ==
  CASE r.ph = "length" ->
         LET x == ReadBinarySize(c, r)
         IN  IF x.st = "OK" /\ x.size = DeadBeef
               THEN [x EXCEPT !.st = "InvalidArgument"]
               ELSE Then(x, "payload")
    [] r.ph = "payload" -> Then(Bytes(c, r, r.size), "done")

RECURSIVE ReadFrame(_, _, _)
ReadFrame(c, o, r) ==
  IF r.st # "OK" \/ r.ph = "done" THEN r
  ELSE ReadFrame(c, o, IF r.ph \in {"length", "payload"}
                         THEN PBBytesStep(c, r)
                         ELSE DataHeaderStep(c, o, r))

ReadPBBytes(c, o, at) ==
  LET r == ReadFrame(c, o, Begin(o, at))
  IN  [st |-> r.st, cur |-> r.cur, pbType |-> r.pbType, key |-> r.key,
       payload |-> r.val]

-----------------------------------------------------------------------------

Init ==
  /\ input \in Inputs
  /\ cur = 0
  /\ status = "OK"
  /\ out = <<>>
  /\ seeks = 0

(***************************************************************************)
(* PBIterator::next on the plain path (body not in this repository; after  *)
(* spec.md 4.3): ReadPBBytes from cur_; the record is handed on when the   *)
(* status is OK, and after an error the caller stops.  A failure leaves    *)
(* cur_ wherever the failing read left it.                                 *)
(***************************************************************************)
IteratorNext ==
  /\ status = "OK"
  /\ LET r == ReadPBBytes(content, options, cur)
     IN  /\ cur' = r.cur
         /\ status' = r.st
         /\ out' = IF r.st = "OK"
                     THEN Append(out, [from |-> cur, to |-> r.cur,
                                       pbType |-> r.pbType, key |-> r.key,
                                       payload |-> r.payload])
                     ELSE out
  /\ UNCHANGED <<input, seeks>>

\* Offsets a caller can hold: 0 and every GetOffset after a record
Boundaries == {0} \cup {out[i].to : i \in DOMAIN out}

(***************************************************************************)
(* SetOffset: cur_ = *offset.  A caller restoring a checkpoint passes an   *)
(* offset it read with GetOffset earlier, and resumes reading.             *)
(***************************************************************************)
SetOffset(o) ==
  /\ status # "Crash"
  /\ seeks < MaxSeeks
  /\ cur' = o
  /\ status' = "OK"
  /\ seeks' = seeks + 1
  /\ UNCHANGED <<input, out>>

Next ==
  \/ IteratorNext
  \/ \E o \in Boundaries : SetOffset(o)

Spec == Init /\ [][Next]_vars

Records ==
  [from: 0 .. SizeMod - 1, to: 0 .. SizeMod - 1, pbType: 0 .. ByteMod - 1,
   key: (0 .. U32Mod - 1) \cup {NoKey}, payload: Seq(0 .. ByteMod - 1)]

TypeOK ==
  /\ cur \in 0 .. SizeMod - 1
  /\ status \in Statuses
  /\ seeks \in 0 .. MaxSeeks
  /\ out \in Seq(Records)

=============================================================================
