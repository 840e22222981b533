------------------------------- MODULE Crc32c -------------------------------
(***************************************************************************)
(* The frame header bit by bit: crc32c with its table, encode_to and       *)
(* decode_from, and the damage that the checksum detects.                  *)
(*                                                                         *)
(* A word or a byte is the set of the positions of its one bits, so that   *)
(* exclusive or is the symmetric difference.                               *)
(***************************************************************************)
EXTENDS Integers, Sequences, FiniteSetsExt

CONSTANTS
    Lengths,     \* payload lengths to encode
    Damages      \* sets of header bits that may flip together

kPolyReflected == {3, 4, 5, 6, 8, 9, 11, 12, 13, 17, 18, 20, 21, 22, 23, 25, 31}

kHeaderSize == 9
MaxPayloadBit == 26     \* kDefaultMaxPayload = 2^26

BitsOfByte == 0 .. 7
Word == 0 .. 31

\* is_known_frame_type: 0x01 to 0x06 and 0xFF.
Types == {{0}, {1}, {0, 1}, {2}, {0, 2}, {1, 2}, BitsOfByte}

ShiftRight(c, n) == {b - n : b \in {x \in c : x >= n}}

Complement(c) == Word \ c

-----------------------------------------------------------------------------
(***************************************************************************)
(* crc32c.cpp.                                                             *)
(***************************************************************************)
Round(c) ==
    IF 0 \in c THEN SymDiff(ShiftRight(c, 1), kPolyReflected) ELSE ShiftRight(c, 1)

\* Round applied n times.
Rounds(i, n) ==
    LET c[k \in 0 .. n] == IF k = 0 THEN i ELSE Round(c[k - 1]) IN c[n]

\* Faulty variant of kTable: one round is left out.
kTableShort == [i \in SUBSET BitsOfByte |-> Rounds(i, 7)]

kTable == [i \in SUBSET BitsOfByte |-> Rounds(i, 8)]

TakeByte(c, byte) == SymDiff(ShiftRight(c, 8), kTable[SymDiff(c, byte) \cap BitsOfByte])

\* With the default seed of zero.
crc32c(data) ==
    LET c[i \in 0 .. Len(data)] ==
            IF i = 0 THEN Complement({}) ELSE TakeByte(c[i - 1], data[i])
    IN Complement(c[Len(data)])

(***************************************************************************)
(* frame.cpp.                                                              *)
(***************************************************************************)
be32(w) == [j \in 1 .. 4 |-> {b - 8 * (4 - j) : b \in w \cap (8 * (4 - j) .. 8 * (4 - j) + 7)}]

read_be32(bytes) == UNION {{b + 8 * (4 - j) : b \in bytes[j]} : j \in 1 .. 4}

\* Faulty variant of Covered: the checksum leaves the type out.
CoveredLength(header) == SubSeq(header, 1, 4)

Covered(header) == SubSeq(header, 1, 5)

encode_to(len, t) ==
    LET head == be32(len) \o <<t>> IN head \o be32(crc32c(Covered(head)))

TooLarge(len) ==
    \E b \in len : b > MaxPayloadBit \/ (b = MaxPayloadBit /\ len # {b})

\* The DecodeError, or "None".
decode_from(src) ==
    IF read_be32(SubSeq(src, 6, 9)) # crc32c(Covered(src)) THEN "BadCrc"
    ELSE IF src[5] \notin Types THEN "UnknownType"
    ELSE IF TooLarge(read_be32(SubSeq(src, 1, 4))) THEN "PayloadTooLarge"
    ELSE "None"

-----------------------------------------------------------------------------
VARIABLES
    header,  \* the nine bytes on their way
    intact,  \* nothing has happened to them
    verdict  \* what decode_from made of them, or "pending"

crcVars == <<header, intact, verdict>>

CrcInit ==
    /\ \E len \in Lengths, t \in Types : header = encode_to(len, t)
    /\ intact = TRUE
    /\ verdict = "pending"

Flip(bits) ==
    [j \in 1 .. kHeaderSize |->
        SymDiff(header[j], {b - 8 * (j - 1) : b \in bits \cap (8 * (j - 1) .. 8 * j - 1)})]

Damage ==
    /\ verdict = "pending" /\ intact
    /\ \E bits \in Damages : header' = Flip(bits)
    /\ intact' = FALSE
    /\ UNCHANGED verdict

DecodeHeader ==
    /\ verdict = "pending"
    /\ verdict' = decode_from(header)
    /\ UNCHANGED <<header, intact>>

CrcNext == Damage \/ DecodeHeader

CrcSpec == CrcInit /\ [][CrcNext]_crcVars

-----------------------------------------------------------------------------
(***************************************************************************)
(* Properties.                                                             *)
(***************************************************************************)

\* DESIGN.md, on the header's CRC-32C: it detects "Bit-flips, off-by-one length,
\* bad type".  What encode_to wrote is accepted if its length is; anything
\* damaged is refused as a bad checksum, whether the damage hit the length, the
\* type or the checksum itself.
DamageFound ==
    verdict # "pending" =>
        IF intact THEN verdict \in {"None", "PayloadTooLarge"} ELSE verdict = "BadCrc"

(***************************************************************************)
(* The reference: a CRC is a remainder of polynomials over GF(2), here     *)
(* sets of degrees.  A byte is sent lowest bit first.  The generator is    *)
(* Castagnoli's, 0x1EDC6F41, written down apart from the code's constant.  *)
(***************************************************************************)
Generator == {0, 6, 8, 9, 10, 11, 13, 14, 18, 19, 20, 22, 23, 25, 26, 27, 28, 32}

Dividend(data) ==
    SymDiff(UNION {{32 + 8 * (Len(data) - i) + 7 - b : b \in data[i]} : i \in DOMAIN data},
            8 * Len(data) .. 8 * Len(data) + 31)

\* Long division: the terms of degree top down to 32 are cancelled in turn.
Cancel(r, d) == IF d \in r THEN SymDiff(r, {g + d - 32 : g \in Generator}) ELSE r

Remainder(p, top) ==
    LET r[d \in 32 .. top + 1] == IF d = top + 1 THEN p ELSE Cancel(r[d + 1], d)
    IN r[32]

\* The table-driven loop computes the remainder that defines CRC-32C, on intact
\* and on damaged headers.
CrcIsRemainder ==
    LET data == SubSeq(header, 1, 5) IN
    verdict # "pending" =>
        crc32c(data) = {31 - d : d \in Word \ Remainder(Dividend(data), 8 * Len(data) + 31)}

=============================================================================
