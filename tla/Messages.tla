------------------------------ MODULE Messages ------------------------------
(***************************************************************************)
(* The payload codecs of messages.cpp, and the exchange they serve: one    *)
(* end encodes a message, the other decodes the payload; the server        *)
(* encodes a manifest again to find its identity, and quotes a path that   *)
(* it refuses in an ERROR.                                                 *)
(*                                                                         *)
(* The widths are constants: U8, U16, U32 and U64 bytes for the integers   *)
(* (1, 2, 4, 8), kHashSize for a hash (32), Radix values for a byte (256). *)
(***************************************************************************)
EXTENDS Integers, Sequences, SequencesExt

CONSTANTS
    Radix, U8, U16, U32, U64, kHashSize,
    Malformed,      \* std::nullopt
    Thrown,         \* resize() throws; handle_session_ runs in a detached thread
                    \* that catches nothing, so the process ends
    MaxResize,      \* the hashes that memory has room for
    Sent,           \* [type, msg] pairs that a sender may encode
    Strays,         \* payloads that no encoder produced: [type, payload] pairs
    RejectedPath,   \* the bytes of "rejected path: "
    InvalidPath     \* ErrorCode::InvalidPath

Byte == 0 .. Radix - 1

ASSUME WidthAssumption ==
    /\ {Radix, U8, U16, U32, U64, kHashSize} \subseteq Nat \ {0}
    /\ Radix > 1 /\ InvalidPath \in 0 .. Radix ^ U16 - 1 /\ MaxResize \in Nat

-----------------------------------------------------------------------------
(***************************************************************************)
(* byteorder.hpp, append_ and Cursor.  append_u16 takes a uint16_t: what   *)
(* does not fit is cut off, as be() does.                                  *)
(***************************************************************************)
be(v, width) == [k \in 1 .. width |-> (v \div Radix ^ (width - k)) % Radix]

read_be(bytes) == FoldLeft(LAMBDA v, b : v * Radix + b, 0, bytes)

\* The n bytes after the first pos, and the number in them.
Field(p, pos, n) == SubSeq(p, pos + 1, pos + n)

Number(p, pos, width) == read_be(Field(p, pos, width))

Rest(p, pos) == SubSeq(p, pos + 1, Len(p))

\* count consecutive fields of n bytes.
Fields(p, pos, n, count) == [k \in 1 .. count |-> Field(p, pos + (k - 1) * n, n)]

-----------------------------------------------------------------------------
(***************************************************************************)
(* Encoders.                                                               *)
(***************************************************************************)
encode_hello(m) ==
    be(m.protocol_version, U8) \o be(m.max_chunk_size, U32) \o be(m.capabilities, U32)

\* Faulty variant of encode_manifest: the hashes come before the path.
encode_manifest_swapped(m) ==
    be(m.file_size, U64) \o be(m.chunk_size, U32) \o be(m.chunk_count, U32)
    \o m.root_hash \o be(Len(m.path), U16) \o FlattenSeq(m.chunk_hashes) \o m.path

encode_manifest(m) ==
    be(m.file_size, U64) \o be(m.chunk_size, U32) \o be(m.chunk_count, U32)
    \o m.root_hash \o be(Len(m.path), U16) \o m.path \o FlattenSeq(m.chunk_hashes)

encode_req_chunks(m) ==
    be(Len(m.indices), U32)
    \o FlattenSeq([k \in DOMAIN m.indices |-> be(m.indices[k], U32)])

encode_chunk(m) == be(m.index, U32) \o m.hash \o m.data

encode_complete(m) == m.final_root_hash \o be(m.status, U8)

encode_ack(m) == be(m.last_index, U32)

encode_error(m) == be(m.code, U16) \o be(Len(m.message), U16) \o m.message

encode(type, m) ==
    CASE type = "HELLO"      -> encode_hello(m)
      [] type = "MANIFEST"   -> encode_manifest(m)
      [] type = "REQ_CHUNKS" -> encode_req_chunks(m)
      [] type = "CHUNK"      -> encode_chunk(m)
      [] type = "COMPLETE"   -> encode_complete(m)
      [] type = "ACK"        -> encode_ack(m)
      [] type = "ERROR"      -> encode_error(m)

-----------------------------------------------------------------------------
(***************************************************************************)
(* Decoders.  Every take_ that finds too few bytes and every byte left     *)
(* over returns nullopt: the length of a payload must be the one its       *)
(* fields add up to.  decode_req_chunks compares its count with the bytes  *)
(* that are left before it makes room, decode_manifest does not.           *)
(***************************************************************************)
decode_hello(p) ==
    IF Len(p) # U8 + 2 * U32 THEN Malformed
    ELSE [protocol_version |-> Number(p, 0, U8),
          max_chunk_size   |-> Number(p, U8, U32),
          capabilities     |-> Number(p, U8 + U32, U32)]

ManifestFixed == U64 + 2 * U32 + kHashSize + U16

\* Faulty variant of decode_manifest: bytes after the last hash are ignored.
decode_manifest_lax(p) ==
    LET count    == Number(p, U64 + U32, U32)
        path_len == Number(p, ManifestFixed - U16, U16)
        hashes   == ManifestFixed + path_len
    IN IF Len(p) < ManifestFixed \/ Len(p) < hashes THEN Malformed
       ELSE IF count > MaxResize THEN Thrown
       ELSE IF Len(p) < hashes + count * kHashSize THEN Malformed
       ELSE [file_size    |-> Number(p, 0, U64),
             chunk_size   |-> Number(p, U64, U32),
             chunk_count  |-> count,
             root_hash    |-> Field(p, U64 + 2 * U32, kHashSize),
             path         |-> Field(p, ManifestFixed, path_len),
             chunk_hashes |-> Fields(p, hashes, kHashSize, count)]

decode_manifest(p) ==
    LET count    == Number(p, U64 + U32, U32)
        path_len == Number(p, ManifestFixed - U16, U16)
        hashes   == ManifestFixed + path_len
    IN IF Len(p) < ManifestFixed \/ Len(p) < hashes THEN Malformed
       ELSE IF count > MaxResize THEN Thrown
       ELSE IF Len(p) # hashes + count * kHashSize THEN Malformed
       ELSE [file_size    |-> Number(p, 0, U64),
             chunk_size   |-> Number(p, U64, U32),
             chunk_count  |-> count,
             root_hash    |-> Field(p, U64 + 2 * U32, kHashSize),
             path         |-> Field(p, ManifestFixed, path_len),
             chunk_hashes |-> Fields(p, hashes, kHashSize, count)]

decode_req_chunks(p) ==
    LET count == Number(p, 0, U32)
    IN IF Len(p) < U32 THEN Malformed
       ELSE IF count > (Len(p) - U32) \div U32 \/ Len(p) # U32 + count * U32 THEN Malformed
       ELSE [indices |-> [k \in 1 .. count |-> Number(p, k * U32, U32)]]

decode_chunk(p) ==
    IF Len(p) < U32 + kHashSize THEN Malformed
    ELSE [index |-> Number(p, 0, U32),
          hash  |-> Field(p, U32, kHashSize),
          data  |-> Rest(p, U32 + kHashSize)]

decode_complete(p) ==
    IF Len(p) # kHashSize + U8 THEN Malformed
    ELSE [final_root_hash |-> Field(p, 0, kHashSize), status |-> Number(p, kHashSize, U8)]

decode_ack(p) ==
    IF Len(p) # U32 THEN Malformed ELSE [last_index |-> Number(p, 0, U32)]

decode_error(p) ==
    LET msg_len == Number(p, U16, U16)
    IN IF Len(p) < 2 * U16 THEN Malformed
       ELSE IF Len(p) # 2 * U16 + msg_len THEN Malformed
       ELSE [code |-> Number(p, 0, U16), message |-> Rest(p, 2 * U16)]

decode(type, p) ==
    CASE type = "HELLO"      -> decode_hello(p)
      [] type = "MANIFEST"   -> decode_manifest(p)
      [] type = "REQ_CHUNKS" -> decode_req_chunks(p)
      [] type = "CHUNK"      -> decode_chunk(p)
      [] type = "COMPLETE"   -> decode_complete(p)
      [] type = "ACK"        -> decode_ack(p)
      [] type = "ERROR"      -> decode_error(p)

-----------------------------------------------------------------------------
(***************************************************************************)
(* The exchange.                                                           *)
(***************************************************************************)
VARIABLES
    at,        \* "encode", "wire", "read", "rejected" or "dead"
    type,      \* the frame type
    msg,       \* the message sent; <<>> for a stray payload
    payload,   \* the payload of its frame
    received,  \* what the decoder returned
    reply      \* the payload of the ERROR that rejects the path

messageVars == <<at, type, msg, payload, received, reply>>

MessagesInit ==
    /\ received = Malformed /\ reply = <<>>
    /\ \/ /\ at = "encode" /\ payload = <<>>
          /\ \E x \in Sent : type = x.type /\ msg = x.msg
       \/ /\ at = "wire" /\ msg = <<>>
          /\ \E x \in Strays : type = x.type /\ payload = x.payload

Encode ==
    /\ at = "encode"
    /\ at' = "wire"
    /\ payload' = encode(type, msg)
    /\ UNCHANGED <<type, msg, received, reply>>

DecodePayload ==
    /\ at = "wire"
    /\ received' = decode(type, payload)
    /\ at' = IF received' = Thrown THEN "dead" ELSE "read"
    /\ UNCHANGED <<type, msg, payload, reply>>

Rejection(m) == [code |-> InvalidPath, message |-> RejectedPath \o m.path]

\* resolve_dest_ refuses the path of a manifest that was read.
RejectPath ==
    /\ at = "read"
    /\ type = "MANIFEST" /\ received # Malformed
    /\ at' = "rejected"
    /\ reply' = encode_error(Rejection(received))
    /\ UNCHANGED <<type, msg, payload, received>>

MessagesNext == Encode \/ DecodePayload \/ RejectPath

MessagesSpec == MessagesInit /\ [][MessagesNext]_messageVars

-----------------------------------------------------------------------------
(***************************************************************************)
(* Properties.                                                             *)
(***************************************************************************)

\* The strings whose length goes into a u16, and the hashes that memory can hold.
Fits(t, m) ==
    /\ t = "MANIFEST" => Len(m.path) < Radix ^ U16 /\ Len(m.chunk_hashes) <= MaxResize
    /\ t = "ERROR" => Len(m.message) < Radix ^ U16

\* A message is read as it was sent or refused, never as another one: also when
\* the path is longer than its u16 length can say, so that the decoder takes the
\* rest of the path for hashes, and when the ERROR that quotes a path is.  What
\* fits is read.
ReceivedAsSent ==
    /\ at \in {"read", "rejected"} /\ msg # <<>> => received \in {msg, Malformed}
    /\ at \in {"read", "rejected", "dead"} /\ msg # <<>> /\ Fits(type, msg) => received = msg
    /\ at = "rejected" =>
        LET answer == Rejection(received) IN
        /\ decode_error(reply) \in {answer, Malformed}
        /\ Fits("ERROR", answer) => decode_error(reply) = answer

\* A payload that is accepted encodes to itself, whoever made it.  The server
\* hashes encode_manifest(decode_manifest(payload)) and calls it the identity of
\* the payload: two manifests that differ in any byte have two identities, and
\* the same manifest has the same one in every session.
AcceptedIsCanonical ==
    received \notin {Malformed, Thrown} => encode(type, received) = payload

=============================================================================
