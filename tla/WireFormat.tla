----------------------------- MODULE WireFormat -----------------------------
(***************************************************************************)
(* The encodings that gogoproto generates for the relayer's messages, in    *)
(* go/relay/TendermintZKLightClient.pb.go and go/relay/config.pb.go.  The   *)
(* generated functions repeat one scheme for every field, so a message is   *)
(* described by its fields and the scheme is written once.  The bytes that  *)
(* reach Unmarshal are what Marshal wrote, once or twice over, with fields  *)
(* of a newer version between, or cut short, or any bytes at all.           *)
(* Integers have IntBits instead of 64 bits and Int32Bits instead of 32.    *)
(***************************************************************************)
EXTENDS Integers, Sequences, FiniteSetsExt, SequencesExt

CONSTANTS
    IntBits,        \* width of int, int64 and uint64
    Int32Bits,      \* width of int32
    Messages,       \* Messages[t]: the messages of type t that are encoded
    UnknownFields,  \* encodings of fields no message has
    StrayBytes,     \* the bytes of an input that nobody wrote
    MaxStray,       \* its length at most
    MaxMessages     \* how many messages are written one after the other

ASSUME WidthAssumption ==
    IntBits \in Nat /\ Int32Bits \in Nat /\ 4 < Int32Bits /\ Int32Bits < IntBits

-----------------------------------------------------------------------------
(* The messages: fields number 1, 2, ... *)

Field(name, kind) == [name |-> name, kind |-> kind]

HeightFields == << Field("RevisionNumber", "uint64"), Field("RevisionHeight", "uint64") >>

ClientStateFields ==
    << Field("StepVerifierDigest", "bytes"), Field("SkipVerifierDigest", "bytes"),
       Field("TrustingPeriod", "uint64"), Field("Frozen", "bool"),
       Field("LatestHeight", "height") >>

ConsensusStateFields ==
    << Field("BlockHash", "bytes"), Field("AppHash", "bytes"), Field("Timestamp", "uint64") >>

UpdateStateMessageFields ==
    << Field("TrustedHeight", "uint64"), Field("UntrustedHeight", "uint64"),
       Field("UntrustedBlockHash", "bytes"), Field("Timestamp", "uint64"),
       Field("AppHash", "bytes"), Field("SimpleTreeProof", "repeated"),
       Field("Input", "repeated"), Field("ZkProof", "bytes") >>

TimestampFields == << Field("Seconds", "int64"), Field("Nanos", "int32") >>

ProverConfigFields ==
    << Field("ZkProverAddr", "bytes"), Field("StepVerifierDigest", "bytes"),
       Field("SkipVerifierDigest", "bytes"), Field("ProverType", "bytes"),
       Field("TrustingPeriod", "bytes") >>

Fields ==
    [ClientState |-> ClientStateFields, ConsensusState |-> ConsensusStateFields,
     UpdateStateMessage |-> UpdateStateMessageFields, Timestamp |-> TimestampFields,
     ProverConfig |-> ProverConfigFields]

Types == DOMAIN Fields

ZeroHeight == [RevisionNumber |-> 0, RevisionHeight |-> 0]

Zero(kind) ==
    CASE kind \in {"uint64", "int64", "int32"} -> 0
      [] kind = "bool"                         -> FALSE
      [] kind \in {"bytes", "repeated"}        -> << >>
      [] kind = "height"                       -> ZeroHeight

Names(fields) == {fields[n].name : n \in DOMAIN fields}

Kind(fields, name) == (CHOOSE f \in Range(fields) : f.name = name).kind

ZeroMessage(fields) == [name \in Names(fields) |-> Zero(Kind(fields, name))]

Varint == 0
Fixed64 == 1
Delimited == 2
StartGroup == 3
EndGroup == 4
Fixed32 == 5

WireType(kind) == IF kind \in {"uint64", "int64", "int32", "bool"} THEN Varint ELSE Delimited

VARIABLES
    type,      \* the type of the messages
    sent,      \* the messages written
    damaged,   \* what happened to the bytes on the way: "no", "cut" or "other"
    dAtA,      \* the bytes
    iNdEx,     \* Unmarshal's position in them
    msg,       \* the message Unmarshal fills in
    status     \* "writing", "reading", "done", "error" or "panic"

vars == << type, sent, damaged, dAtA, iNdEx, msg, status >>

-----------------------------------------------------------------------------
(* Numbers *)

\* Conversion to an unsigned and to a signed integer of some width.
Unsigned(x, bits) == x % 2^bits
Signed(x, bits) ==
    LET u == Unsigned(x, bits) IN IF u < 2^(bits - 1) THEN u ELSE u - 2^bits

Len64(x) == Min({n \in 0 .. IntBits : x < 2^n})

\* The length of a varint: (Len64(x | 1) + 6) / 7.
sov(x) == (Len64(x + 1 - (x % 2)) + 6) \div 7

\* The bytes a varint may have.
MaxVarint == (IntBits + 6) \div 7

encodeVarint(x) ==
    LET n == Min({k \in 1 .. MaxVarint : x < 128^k})
    IN  [k \in 1 .. n |-> ((x \div 128^(k - 1)) % 128) + (IF k < n THEN 128 ELSE 0)]

\* Only in a mutant: the end of the buffer ends a number.
LastByteOrEnd(bytes, j) == j < Len(bytes) /\ (bytes[j + 1] < 128 \/ j + 1 = Len(bytes))

LastByte(bytes, j) == j < Len(bytes) /\ bytes[j + 1] < 128

\* The varint at a position: at most as many bytes as the width needs, and what
\* does not fit the width is lost.
VarintAt(bytes, i) ==
    LET ends == {k \in 0 .. MaxVarint - 1 : LastByte(bytes, i + k)}
    IN  IF ends = {} THEN [ok |-> FALSE, next |-> i, value |-> 0]
        ELSE [ok |-> TRUE, next |-> i + Min(ends) + 1,
              value |-> Unsigned(MapThenSumSet(LAMBDA k : (bytes[i + k + 1] % 128) * 128^k,
                                               0 .. Min(ends)), IntBits)]

-----------------------------------------------------------------------------
(* Size and Marshal *)

SizeDelimited(n) == 1 + n + sov(n)

RECURSIVE Size(_, _)

SizeField(kind, x) ==
    CASE kind \in {"uint64", "int64", "int32"} -> IF x = 0 THEN 0 ELSE 1 + sov(Unsigned(x, IntBits))
      [] kind = "bool"     -> IF x THEN 2 ELSE 0
      [] kind = "bytes"    -> IF Len(x) = 0 THEN 0 ELSE SizeDelimited(Len(x))
      [] kind = "repeated" -> MapThenSumSet(LAMBDA k : SizeDelimited(Len(x[k])), DOMAIN x)
      [] kind = "height"   -> SizeDelimited(Size(HeightFields, x))

Size(fields, m) ==
    MapThenSumSet(LAMBDA n : SizeField(fields[n].kind, m[fields[n].name]),
                  DOMAIN fields)

Tag(n, wireType) == << 8 * n + wireType >>

EncodeDelimited(n, bytes) == Tag(n, Delimited) \o encodeVarint(Len(bytes)) \o bytes

RECURSIVE Encode(_, _)

\* A field that is zero is left out, an empty element of a repeated one and a
\* nested message are not.
EncodeField(n, kind, x) ==
    CASE kind \in {"uint64", "int64", "int32"} ->
            IF x = 0 THEN << >> ELSE Tag(n, Varint) \o encodeVarint(Unsigned(x, IntBits))
      [] kind = "bool"     -> IF x THEN Tag(n, Varint) \o << 1 >> ELSE << >>
      [] kind = "bytes"    -> IF Len(x) = 0 THEN << >> ELSE EncodeDelimited(n, x)
      [] kind = "repeated" -> FlattenSeq([k \in DOMAIN x |-> EncodeDelimited(n, x[k])])
      [] kind = "height"   -> EncodeDelimited(n, Encode(HeightFields, x))

Encode(fields, m) ==
    FlattenSeq([n \in DOMAIN fields |->
                  EncodeField(n, fields[n].kind, m[fields[n].name])])

\* Marshal fills a buffer of Size bytes from its end and returns its beginning,
\* as long as what it has written.  It panics when the buffer is too small.
MarshalPanics(fields, m) == Len(Encode(fields, m)) > Size(fields, m)

Marshal(fields, m) ==
    LET written == Encode(fields, m)
        unused  == [k \in 1 .. Size(fields, m) - Len(written) |-> 0]
    IN  SubSeq(unused \o written, 1, Len(written))

-----------------------------------------------------------------------------
(* Unmarshal *)

\* What one round of Unmarshal's loop makes of a position and a message.
Goes(i, m) == [status |-> "reading", iNdEx |-> i, msg |-> m]
Stops(i, m, why) == [status |-> why, iNdEx |-> i, msg |-> m]

\* Only in a mutant: a negative length is not noticed.
AnyLength(len) == TRUE

LengthOK(len) == len >= 0

\* postIndex, the end of a delimited field, lies in the buffer.
EndOK(bytes, v) == Signed(v.next + Signed(v.value, IntBits), IntBits) \in 0 .. Len(bytes)

\* One round of skip's loop: a tag and what follows it, groups by their depth.
SkipRound(bytes, s) ==
    LET tag  == VarintAt(bytes, s.iNdEx)
        w    == tag.value % 8
        v    == VarintAt(bytes, tag.next)
        len  == Signed(v.value, IntBits)
        next == CASE w = Varint    -> v.next
                  [] w = Fixed64   -> tag.next + 8
                  [] w = Delimited -> Signed(v.next + len, IntBits)
                  [] w = Fixed32   -> tag.next + 4
                  [] OTHER         -> tag.next
        depth == s.depth + (IF w = StartGroup THEN 1 ELSE IF w = EndGroup THEN -1 ELSE 0)
        wrong == \/ ~tag.ok
                 \/ w > Fixed32
                 \/ w \in {Varint, Delimited} /\ ~v.ok
                 \/ w = Delimited /\ ~LengthOK(len)
                 \/ depth < 0
                 \/ next < 0
    IN  [status |-> IF wrong THEN "error" ELSE IF depth = 0 THEN "done" ELSE "reading",
         iNdEx |-> next, depth |-> depth]

\* skip: how many bytes the field at the start of the buffer takes.
Skip(bytes) ==
    FoldLeft(LAMBDA s, b : IF s.status = "reading" /\ s.iNdEx < Len(bytes)
                           THEN SkipRound(bytes, s) ELSE s,
             [status |-> "reading", iNdEx |-> 0, depth |-> 0], bytes)

\* Only in a mutant: the tag has been read when skip starts.
SkipFieldAfterTag(bytes, i, m) ==
    LET start   == VarintAt(bytes, i).next
        skipped == Skip(SubSeq(bytes, start + 1, Len(bytes)))
        next    == Signed(start + skipped.iNdEx, IntBits)
    IN  IF skipped.status # "done" \/ next < 0 \/ next > Len(bytes)
        THEN Stops(i, m, "error") ELSE Goes(next, m)

\* A field the message does not have is skipped, its tag included.
SkipField(bytes, i, m) ==
    LET skipped == Skip(SubSeq(bytes, i + 1, Len(bytes)))
        next    == Signed(i + skipped.iNdEx, IntBits)
    IN  IF skipped.status # "done" \/ next < 0 \/ next > Len(bytes)
        THEN Stops(i, m, "error") ELSE Goes(next, m)

Number(kind, v) ==
    CASE kind = "uint64" -> v
      [] kind = "int64"  -> Signed(v, IntBits)
      [] kind = "int32"  -> Signed(v, Int32Bits)
      [] kind = "bool"   -> v # 0

RECURSIVE ReadField(_, _, _, _)

\* The whole loop, for the nested message.
ReadHeight(h, bytes) ==
    LET end == FoldLeft(LAMBDA s, b : IF s.status = "reading" /\ s.iNdEx < Len(bytes)
                                      THEN ReadField(HeightFields, bytes, s.iNdEx, s.msg)
                                      ELSE s,
                        Goes(0, h), bytes)
    IN  IF end.status = "reading" THEN [end EXCEPT !.status = "done"] ELSE end

\* The value of a delimited field: bytes replace the old ones, an element is
\* added, a nested message is merged into the old one.
Content(kind, old, content) ==
    CASE kind = "bytes"    -> [status |-> "done", msg |-> content]
      [] kind = "repeated" -> [status |-> "done", msg |-> Append(old, content)]
      [] kind = "height"   -> ReadHeight(old, content)

\* One round of Unmarshal's loop: a tag, and the field it announces.  A slice
\* whose bounds are not in order is a panic of Go.
ReadField(fields, bytes, i, m) ==
    LET tag  == VarintAt(bytes, i)
        num  == Signed(tag.value \div 8, Int32Bits)
        w    == tag.value % 8
        f    == fields[num]
        v    == VarintAt(bytes, tag.next)
        len  == Signed(v.value, IntBits)
        post == Signed(v.next + len, IntBits)
        c    == Content(f.kind, m[f.name], SubSeq(bytes, v.next + 1, post))
    IN  IF ~tag.ok \/ w = EndGroup \/ num <= 0      THEN Stops(i, m, "error")
        ELSE IF num \notin DOMAIN fields            THEN SkipField(bytes, i, m)
        ELSE IF w # WireType(f.kind) \/ ~v.ok       THEN Stops(i, m, "error")
        ELSE IF w = Varint
             THEN Goes(v.next, [m EXCEPT ![f.name] = Number(f.kind, v.value)])
        ELSE IF ~LengthOK(len) \/ ~EndOK(bytes, v)  THEN Stops(i, m, "error")
        ELSE IF post \notin v.next .. Len(bytes)    THEN Stops(i, m, "panic")
        ELSE IF c.status # "done"                   THEN Stops(i, m, c.status)
        ELSE Goes(post, [m EXCEPT ![f.name] = c.msg])

-----------------------------------------------------------------------------
Init ==
    /\ type \in Types
    /\ sent = << >> /\ damaged = "no" /\ dAtA = << >>
    /\ iNdEx = 0
    /\ msg = ZeroMessage(Fields[type])
    /\ status = "writing"

Writes(t) ==
    /\ type = t /\ status = "writing" /\ Len(sent) < MaxMessages
    /\ \E m \in Messages[t] :
        /\ sent' = Append(sent, m)
        /\ dAtA' = dAtA \o Marshal(Fields[t], m)
        /\ status' = IF MarshalPanics(Fields[t], m) THEN "panic" ELSE status
    /\ UNCHANGED << type, damaged, iNdEx, msg >>

MarshalClientState        == Writes("ClientState")
MarshalConsensusState     == Writes("ConsensusState")
MarshalUpdateStateMessage == Writes("UpdateStateMessage")
MarshalTimestamp          == Writes("Timestamp")
MarshalProverConfig       == Writes("ProverConfig")

\* A newer version of the writer has a field that says nothing to this one.
WriteUnknownField ==
    /\ status = "writing" /\ Len(sent) < MaxMessages
    /\ \E f \in UnknownFields : dAtA' = dAtA \o f
    /\ sent' = Append(sent, ZeroMessage(Fields[type]))
    /\ UNCHANGED << type, damaged, iNdEx, msg, status >>

\* The bytes arrive as they are, cut short, or are others altogether.
Arrive ==
    /\ status = "writing" /\ status' = "reading"
    /\ \/ UNCHANGED << dAtA, damaged >>
       \/ \E n \in 0 .. Len(dAtA) - 1 : dAtA' = SubSeq(dAtA, 1, n) /\ damaged' = "cut"
       \/ /\ sent = << >> /\ damaged' = "other"
          /\ \E n \in 1 .. MaxStray : dAtA' \in [1 .. n -> StrayBytes]
    /\ UNCHANGED << type, sent, iNdEx, msg >>

Reads(t) ==
    /\ type = t /\ status = "reading" /\ iNdEx < Len(dAtA)
    /\ LET r == ReadField(Fields[t], dAtA, iNdEx, msg)
       IN  iNdEx' = r.iNdEx /\ msg' = r.msg /\ status' = r.status
    /\ UNCHANGED << type, sent, damaged, dAtA >>

UnmarshalClientState        == Reads("ClientState")
UnmarshalConsensusState     == Reads("ConsensusState")
UnmarshalUpdateStateMessage == Reads("UpdateStateMessage")
UnmarshalTimestamp          == Reads("Timestamp")
UnmarshalProverConfig       == Reads("ProverConfig")

Return ==
    /\ status = "reading" /\ iNdEx >= Len(dAtA)
    /\ status' = IF iNdEx > Len(dAtA) THEN "error" ELSE "done"
    /\ UNCHANGED << type, sent, damaged, dAtA, iNdEx, msg >>

Next ==
    \/ MarshalClientState \/ MarshalConsensusState \/ MarshalUpdateStateMessage
    \/ MarshalTimestamp \/ MarshalProverConfig
    \/ WriteUnknownField \/ Arrive
    \/ UnmarshalClientState \/ UnmarshalConsensusState \/ UnmarshalUpdateStateMessage
    \/ UnmarshalTimestamp \/ UnmarshalProverConfig
    \/ Return

Spec == Init /\ [][Next]_vars

-----------------------------------------------------------------------------
(* Properties *)

\* What proto3 says of two encodings one after the other: the later value of a
\* field counts, unless it is zero and so was left out; elements are collected.
MergeHeights(a, b) == [name \in DOMAIN a |-> IF b[name] = 0 THEN a[name] ELSE b[name]]

Merge(fields, a, b) ==
    [name \in Names(fields) |->
        LET kind == Kind(fields, name)
        IN  CASE kind = "repeated" -> a[name] \o b[name]
              [] kind = "height"   -> MergeHeights(a[name], b[name])
              [] OTHER             -> IF b[name] = Zero(kind) THEN a[name] ELSE b[name]]

AllSent == FoldLeft(LAMBDA a, b : Merge(Fields[type], a, b), ZeroMessage(Fields[type]), sent)

\* Undamaged bytes are read without an error, and as the messages that were
\* written: Size left the room Marshal needed, negative numbers and empty
\* elements survive, and fields of a newer version are passed over whole.
ReadAsWritten ==
    damaged = "no" => /\ status # "error"
                      /\ status = "done" => msg = AllSent

\* No bytes make Unmarshal, or the messages make Marshal, leave the buffer, and
\* every round of Unmarshal's loop moves forward in it, so that none keep it busy
\* for ever: a length that is negative, beyond the end or overflows is an error.
StaysInBuffer ==
    /\ status # "panic"
    /\ status = "reading" /\ iNdEx < Len(dAtA) =>
          LET r == ReadField(Fields[type], dAtA, iNdEx, msg)
          IN  r.status = "reading" => r.iNdEx \in iNdEx + 1 .. Len(dAtA)

\* A message that lost its end is an error, or reads as the part that arrived:
\* no field has a value that was not sent.
CutInventsNothing ==
    status = "done" /\ damaged = "cut" =>
        \A f \in Range(Fields[type]) :
            LET got == msg[f.name]
            IN  CASE f.kind = "repeated" -> IsPrefix(got, AllSent[f.name])
                  [] f.kind = "height"   ->
                        \A name \in DOMAIN got :
                            got[name] \in {0} \cup {sent[k][f.name][name] : k \in DOMAIN sent}
                  [] OTHER ->
                        got \in {Zero(f.kind)} \cup {sent[k][f.name] : k \in DOMAIN sent}

=============================================================================
