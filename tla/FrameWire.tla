----------------------------- MODULE FrameWire -----------------------------
(***************************************************************************)
(* The writer side of the framing protocol: the bytes an upstream producer *)
(* (Kafka dump, lagrangex pipeline) puts in front of each serialized       *)
(* record, after spec.md section 6.  It is the reference the reader is     *)
(* checked against, not a model of code in this repository.               *)
(*                                                                         *)
(* A frame is described by the fields a producer chooses:                 *)
(*   pbType, key, high  the lagrangex header: low byte, data source key,   *)
(*                      and the bits above the low 32 (dropped on read)    *)
(*   zeroPrefix, fresh  kafka_dump_prefix written as 0 followed by a fresh *)
(*                      length field, or as one non-zero length            *)
(*   sortId, dump       the sort-id blob and the kafka_dump marker         *)
(*   payload            the serialized record                              *)
(* After a zero prefix the producer writes 0, the fresh field, then the    *)
(* sort-id length, the layout ReadDataHeader reads (spec.md sections 3 and *)
(* 6 can be read as one fresh field that is the sort-id length; section 9  *)
(* leaves that open and asks to keep the code's layout).                   *)
(***************************************************************************)
EXTENDS Integers, Sequences, SequencesExt

CONSTANTS ByteMod, SizeBytes

U32Mod == ByteMod ^ (SizeBytes \div 2)

\* An 8-byte little-endian length field
Fixed(v) == [i \in 1 .. SizeBytes |-> (v \div (ByteMod ^ (i - 1))) % ByteMod]

PrefixLen(o, h) == IF o.has_sort_id THEN Len(h.sortId) ELSE h.fresh

PrefixPart(o, h) ==
  IF ~o.kafka_dump_prefix THEN <<>>
  ELSE IF ~h.zeroPrefix THEN Fixed(PrefixLen(o, h))
  ELSE Fixed(0) \o Fixed(h.fresh)

SortPart(o, h) ==
  IF ~o.has_sort_id THEN <<>>
  ELSE IF o.kafka_dump_prefix /\ ~h.zeroPrefix THEN h.sortId
  ELSE Fixed(Len(h.sortId)) \o h.sortId

DumpPart(o, h) == IF o.kafka_dump THEN Fixed(h.dump) ELSE <<>>

\* Everything in front of the payload-length field
Header(o, h) ==
  IF o.lagrangex_header
    THEN Fixed(h.high * U32Mod + h.key + h.pbType)
    ELSE PrefixPart(o, h) \o SortPart(o, h) \o DumpPart(o, h)

Encode(o, h) == Header(o, h) \o Fixed(Len(h.payload)) \o h.payload

\* A non-zero prefix must be non-zero; a payload length is never the poison
Writable(o, h, deadBeef) ==
  /\ o.kafka_dump_prefix /\ ~h.zeroPrefix => PrefixLen(o, h) # 0
  /\ Len(h.payload) # deadBeef

\* What a reader should hand back for frame h
Decoded(o, h, noKey) ==
  [pbType  |-> IF o.lagrangex_header THEN h.pbType ELSE 0,
   key     |-> IF o.lagrangex_header THEN h.key ELSE noKey,
   payload |-> h.payload]

\* Byte offset at which frame i of fs starts
Start(o, fs, i) == Len(FlattenSeq([j \in 1 .. i - 1 |-> Encode(o, fs[j])]))

Stream(o, fs) == FlattenSeq([j \in 1 .. Len(fs) |-> Encode(o, fs[j])])

\* Frame i of fs as a reader record: its offsets and its decoded fields
Placed(o, fs, i, noKey) ==
  LET d == Decoded(o, fs[i], noKey)
  IN  [from |-> Start(o, fs, i), to |-> Start(o, fs, i + 1),
       pbType |-> d.pbType, key |-> d.key, payload |-> d.payload]

=============================================================================
