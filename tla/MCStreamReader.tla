--------------------------- MODULE MCStreamReader ---------------------------
(***************************************************************************)
(* Model-checking instance of StreamReader: every DataFormatOptions        *)
(* combination, each reading the streams a producer writes (FrameWire) of  *)
(* up to MaxFrames frames, every truncation of them, and every stream with *)
(* one payload-length field overwritten by a value of CorruptSizes.        *)
(***************************************************************************)
EXTENDS StreamReader, FiniteSets

CONSTANTS
  PbTypes, Keys, Highs, Freshes, SortIds, Dumps, Payloads,
  MaxFrames,     \* frames per stream
  CorruptSizes   \* values a damaged payload-length field can hold

W == INSTANCE FrameWire

AllOptions ==
  [lagrangex_header: BOOLEAN, kafka_dump_prefix: BOOLEAN,
   has_sort_id: BOOLEAN, kafka_dump: BOOLEAN]

\* A frame with the fields options o does not write set to a default
Canon(o, h) ==
  LET lgx == o.lagrangex_header
      pre == ~lgx /\ o.kafka_dump_prefix
  IN  [pbType  |-> IF lgx THEN h.pbType ELSE 0,
       key     |-> IF lgx THEN h.key ELSE 0,
       high    |-> IF lgx THEN h.high ELSE 0,
       zeroPrefix |-> pre /\ h.zeroPrefix,
       fresh   |-> IF pre /\ (h.zeroPrefix \/ ~o.has_sort_id) THEN h.fresh ELSE 0,
       sortId  |-> IF ~lgx /\ o.has_sort_id THEN h.sortId ELSE <<>>,
       dump    |-> IF ~lgx /\ o.kafka_dump THEN h.dump ELSE 0,
       payload |-> h.payload]

FrameChoices ==
  [pbType: PbTypes, key: Keys, high: Highs, zeroPrefix: BOOLEAN,
   fresh: Freshes, sortId: SortIds, dump: Dumps, payload: Payloads]

FramesFor(o) ==
  {Canon(o, h) : h \in {g \in FrameChoices : W!Writable(o, g, DeadBeef)}}

StreamsFor(o) == UNION {[1 .. n -> FramesFor(o)] : n \in 0 .. MaxFrames}

Placed(o, fs) == [i \in 1 .. Len(fs) |-> W!Placed(o, fs, i, NoKey)]

\* The stream cut after k bytes: the frames that end by byte k survive
Truncated(o, fs) ==
  LET s   == W!Stream(o, fs)
      pl  == Placed(o, fs)
  IN  {[options |-> o, bytes |-> SubSeq(s, 1, k),
        frames |-> SelectSeq(pl, LAMBDA f : f.to <= k),
        complete |-> k = Len(s)] : k \in 0 .. Len(s)}

\* Frame j's payload-length field overwritten with v
Corrupted(o, fs) ==
  LET s  == W!Stream(o, fs)
      pl == Placed(o, fs)
  IN  {LET at == pl[j].from + Len(W!Header(o, fs[j]))
       IN  [options |-> o,
            bytes |-> SubSeq(s, 1, at) \o W!Fixed(v)
                        \o SubSeq(s, at + SizeBytes + 1, Len(s)),
            frames |-> SubSeq(pl, 1, j - 1),
            complete |-> FALSE]
       : j \in 1 .. Len(fs), v \in CorruptSizes}

MCInputs ==
  UNION {UNION {Truncated(o, fs) \cup Corrupted(o, fs) : fs \in StreamsFor(o)} :
           o \in AllOptions}

MCSortIds == {<<>>, <<1>>}
MCPayloads == {<<>>, <<1, 0>>}

-----------------------------------------------------------------------------
(***************************************************************************)
(* Soundness of the framer: every record ReadPBBytes hands to the caller   *)
(* is a frame the producer wrote, read from exactly that frame's bytes,    *)
(* with the pb type and data source key the producer put in its header.   *)
(* It fails if ReadDataHeader consumes the optional header fields in the   *)
(* wrong order or number, or decodes the lagrangex header wrongly.         *)
(***************************************************************************)
ReadsOnlyWrittenFrames ==
  \A i \in DOMAIN out : \E j \in DOMAIN input.frames : out[i] = input.frames[j]

(***************************************************************************)
(* Completeness: once GetNext has failed, every frame that reached the     *)
(* reader intact has been handed on, and on an undamaged stream the loop   *)
(* stopped at the end of content_, not inside or before a frame.  It fails *)
(* if ReadNBytes refuses a read the content can satisfy (for instance a    *)
(* zero-length payload at the very end).                                   *)
(***************************************************************************)
DeliversEveryFrame ==
  status # "OK" =>
    /\ \A j \in DOMAIN input.frames : \E i \in DOMAIN out : out[i] = input.frames[j]
    /\ input.complete => cur = Len(content)

(***************************************************************************)
(* A damaged length field is refused with an error status; the reader     *)
(* never copies bytes past the end of content_ (which for tstring aborts   *)
(* the process).  The bound check in StringStreamReader::ReadNBytes adds   *)
(* cur_ + n in size_t.                                                     *)
(***************************************************************************)
NoOverread == status # "Crash"

=============================================================================
