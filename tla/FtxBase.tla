------------------------------ MODULE FtxBase ------------------------------
(***************************************************************************)
(* The data that the modules of this project share: file contents, BLAKE3, *)
(* manifests and the frames of the ftx protocol.                           *)
(*                                                                         *)
(* A file is a sequence of bytes, of which the properties tell a few       *)
(* values apart.  Byte offset k of the code is position k + 1 of the       *)
(* sequence, chunk index i is position i + 1 of chunk_hashes.              *)
(***************************************************************************)
EXTENDS Integers, Sequences, FiniteSets

CONSTANTS
    Values,          \* the byte values that the properties tell apart
    Zero,            \* the zero byte: what pre-sizing a file leaves
    None,            \* no file, no manifest, no digest, or std::nullopt
    Malformed,       \* a payload that its decode_ function rejects
    DestPath,        \* the destination path that is followed
    OtherPath,       \* a path that resolve_dest_ refuses
    kProtocolVersion

ASSUME DataAssumption == Zero \in Values /\ kProtocolVersion \in Nat

Files == Seq(Values)

(***************************************************************************)
(* BLAKE3 as a free constructor: equal digests mean equal inputs.  A       *)
(* Blake3Hasher is the bytes it was fed.                                   *)
(***************************************************************************)
blake3(bytes) == [digest |-> bytes]

Update(bytes, data) == bytes \o data

Digests == [digest : Files]

(***************************************************************************)
(* Messages (messages.hpp) and frames (types.hpp).  A frame is its type    *)
(* and its decoded payload, or Malformed.                                  *)
(***************************************************************************)
ManifestMsg ==
    [path : {DestPath, OtherPath}, file_size : Nat, chunk_size : Nat,
     chunk_count : Nat, root_hash : Digests, chunk_hashes : Seq(Digests)]

\* decode_manifest reads exactly chunk_count hashes.
Manifests == {m \in ManifestMsg : Len(m.chunk_hashes) = m.chunk_count}

HelloMsg    == [version : Nat]
ChunkMsg    == [index : Nat, hash : Digests, data : Files]
CompleteMsg == [final_root_hash : Digests]

Frame(type, body) == [type |-> type, body |-> body]

IsFrame(f, type) == f # None /\ f.type = type

\* What recv_frame can return to the server.
ClientFrames ==
    [type : {"HELLO"},    body : HelloMsg    \cup {Malformed}] \cup
    [type : {"MANIFEST"}, body : Manifests   \cup {Malformed}] \cup
    [type : {"CHUNK"},    body : ChunkMsg    \cup {Malformed}] \cup
    [type : {"COMPLETE"}, body : CompleteMsg \cup {Malformed}] \cup
    [type : {"REQ_CHUNKS", "ACK", "ERROR"}, body : {Malformed}]

\* The absent value is none of the things that may be absent.
ASSUME NoneAssumption ==
    None \notin Files \cup Manifests /\ None \notin ClientFrames

\* A payload that is rejected decodes to no message.
ASSUME MalformedAssumption ==
    Malformed \notin HelloMsg \cup Manifests \cup ChunkMsg \cup CompleteMsg

ErrorCodes == {"ProtocolViolation", "UnsupportedVersion", "InvalidPath",
               "HashMismatch", "InternalError"}

ServerFrames ==
    [type : {"HELLO"},      body : HelloMsg]                \cup
    [type : {"REQ_CHUNKS"}, body : [indices : SUBSET Nat]]  \cup
    [type : {"ACK"},        body : [last_index : Nat]]      \cup
    [type : {"ERROR"},      body : [code : ErrorCodes]]

=============================================================================
