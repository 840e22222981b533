---------------------------- MODULE FrameHeader ----------------------------
(***************************************************************************)
(* FrameHeader::encode_to and decode_from, and encode_frame.               *)
(*                                                                         *)
(* A byte on the wire is a byte of a header (which header, and where in    *)
(* it) or a byte of a payload.  CRC-32C is taken to be perfect: a header   *)
(* is accepted exactly when all its bytes are those of one intact header,  *)
(* in place, so that a reader that lost its alignment finds a bad CRC.     *)
(* Crc32c checks what the real one detects.                                *)
(***************************************************************************)
EXTENDS Integers, Sequences

CONSTANTS
    Types,       \* what the type byte of a header may say
    KnownTypes,  \* is_known_frame_type
    MaxPayload,  \* max_payload of decode_from
    kHeaderSize,
    NoHeader     \* what a payload byte is a part of

Headers == [len : Nat, type : Types, crc : BOOLEAN]

\* A frame as it arrives: crc is FALSE when its header is damaged.
WireFrames == [type : Types, payload : Seq(Nat), crc : BOOLEAN]

ASSUME HeaderAssumption ==
    /\ kHeaderSize \in Nat \ {0}
    /\ MaxPayload \in Nat
    /\ NoHeader \notin Headers

HeaderOf(f) == [len |-> Len(f.payload), type |-> f.type, crc |-> f.crc]

EncodeTo(h) == [j \in 1 .. kHeaderSize |-> [of |-> h, at |-> j]]

EncodeFrame(f) ==
    EncodeTo(HeaderOf(f))
    \o [j \in 1 .. Len(f.payload) |-> [of |-> NoHeader, at |-> f.payload[j]]]

Payload(bytes) == [j \in DOMAIN bytes |-> bytes[j].at]

\* Faulty variants of DecodeFrom: an exclusive bound on the payload, none, and no
\* CRC.
DecodeFromStrict(bytes) ==
    LET h == bytes[1].of IN
    IF h = NoHeader THEN "BadCrc"
    ELSE IF bytes # EncodeTo(h) \/ ~h.crc THEN "BadCrc"
    ELSE IF h.type \notin KnownTypes THEN "UnknownType"
    ELSE IF h.len >= MaxPayload THEN "PayloadTooLarge"
    ELSE "None"

DecodeFromUnbounded(bytes) ==
    LET h == bytes[1].of IN
    IF h = NoHeader THEN "BadCrc"
    ELSE IF bytes # EncodeTo(h) \/ ~h.crc THEN "BadCrc"
    ELSE IF h.type \notin KnownTypes THEN "UnknownType"
    ELSE "None"

DecodeFromUnchecked(bytes) ==
    LET h == bytes[1].of IN
    IF h = NoHeader THEN "BadCrc"
    ELSE IF h.type \notin KnownTypes THEN "UnknownType"
    ELSE IF h.len > MaxPayload THEN "PayloadTooLarge"
    ELSE "None"

\* The DecodeError of decode_from, or "None" when it returns the header.
DecodeFrom(bytes) ==
    LET h == bytes[1].of IN
    IF h = NoHeader THEN "BadCrc"
    ELSE IF bytes # EncodeTo(h) \/ ~h.crc THEN "BadCrc"
    ELSE IF h.type \notin KnownTypes THEN "UnknownType"
    ELSE IF h.len > MaxPayload THEN "PayloadTooLarge"
    ELSE "None"

=============================================================================
