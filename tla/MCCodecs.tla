------------------------------ MODULE MCCodecs ------------------------------
(***************************************************************************)
(* The two codecs of a frame.  They share no state, so that a behaviour    *)
(* follows one payload or one header.                                      *)
(*                                                                         *)
(* Payloads: bytes of two values, integers of one or two bytes, hashes of  *)
(* one: every message of every type, with paths and error texts up to      *)
(* twice as long as their length field can say, and every payload of up to *)
(* MaxStray bytes as a stray one.  Memory has room for the hashes of every *)
(* manifest that is sent, and for fewer than a stray one may announce.     *)
(*                                                                         *)
(* Headers, with the real widths: lengths of 1 MiB and of 64 MiB and a     *)
(* byte; damage to one or two bits anywhere, to all the bits that an       *)
(* increment or a decrement of the length can change, and to one byte in   *)
(* every way.                                                              *)
(***************************************************************************)
EXTENDS Messages, Crc32c

CONSTANTS MaxText, MaxStray

Texts   == SeqOf(Byte, MaxText)
Hash    == [1 .. kHashSize -> Byte]
u(width) == 0 .. Radix ^ width - 1

Tagged(t, S) == {[type |-> t, msg |-> m] : m \in S}

MCManifests ==
    {[file_size |-> n, chunk_size |-> c, chunk_count |-> Len(h), root_hash |-> r,
      path |-> p, chunk_hashes |-> h] :
        n \in u(U64), c \in {1, 2}, r \in Hash, p \in Texts, h \in SeqOf(Hash, 2)}

MCSent ==
    Tagged("HELLO", [protocol_version : u(U8), max_chunk_size : u(U32), capabilities : u(U32)])
    \cup Tagged("MANIFEST", MCManifests)
    \cup Tagged("REQ_CHUNKS", [indices : SeqOf(u(U32), 2)])
    \cup Tagged("CHUNK", [index : u(U32), hash : Hash, data : SeqOf(Byte, 2)])
    \cup Tagged("COMPLETE", [final_root_hash : Hash, status : u(U8)])
    \cup Tagged("ACK", [last_index : u(U32)])
    \cup Tagged("ERROR", [code : u(U16), message : Texts])

MCStrays ==
    {[type |-> "MANIFEST", payload |-> p] : p \in SeqOf(Byte, MaxStray)}
    \cup {[type |-> t, payload |-> p] : p \in SeqOf(Byte, 8),
             t \in {"HELLO", "REQ_CHUNKS", "CHUNK", "COMPLETE", "ACK", "ERROR"}}

MCRejectedPath == <<0>>

MCLengths == {{20}, {0, 26}}

HeaderBits == 0 .. 8 * kHeaderSize - 1

\* Bit b of the length is bit LengthBit(b) of the header.
LengthBit(b) == 8 * (3 - (b \div 8)) + (b % 8)

MCDamages ==
    {{x, y} : x \in HeaderBits, y \in HeaderBits}
    \cup {{LengthBit(b) : b \in 0 .. top} : top \in Word}
    \cup {{8 * (j - 1) + b : b \in bits} : j \in 1 .. kHeaderSize, bits \in SUBSET BitsOfByte \ {{}}}

-----------------------------------------------------------------------------
OnePayload == MessagesInit /\ header = <<>> /\ intact = TRUE /\ verdict = "pending"

OneHeader ==
    /\ CrcInit
    /\ at = "none" /\ type = "none" /\ msg = <<>> /\ payload = <<>>
    /\ received = Malformed /\ reply = <<>>

CodecsNext ==
    \/ at # "none" /\ MessagesNext /\ UNCHANGED crcVars
    \/ at = "none" /\ CrcNext /\ UNCHANGED messageVars

CodecsSpec ==
    (OnePayload \/ OneHeader) /\ [][CodecsNext]_<<messageVars, crcVars>>

=============================================================================
