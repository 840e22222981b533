---------------------------- MODULE FrameStream ----------------------------
(***************************************************************************)
(* What a frame reader promises, whatever pieces the bytes arrive in: the  *)
(* frames of the stream, whole and in order, up to the first one whose     *)
(* header does not hold; then nothing more.                                *)
(***************************************************************************)
EXTENDS Naturals, Sequences

CONSTANTS
    Scripts,     \* the frame sequences a peer may put on the wire
    KnownTypes,  \* is_known_frame_type
    MaxPayload   \* max_payload

\* A frame on the wire: crc tells whether its header arrives as it was encoded.
Good(f) == f.crc /\ f.type \in KnownTypes /\ Len(f.payload) <= MaxPayload

Content(f) == [type |-> f.type, payload |-> f.payload]

VARIABLES script, delivered, refused

streamVars == <<script, delivered, refused>>

StreamInit == script \in Scripts /\ delivered = <<>> /\ refused = FALSE

BadAt(n) == n \in 1 .. Len(script) /\ ~Good(script[n])

\* The reader may look at the next header as it hands a frame out.
Deliver ==
    LET n == Len(delivered) + 1 IN
    /\ ~refused
    /\ n <= Len(script)
    /\ ~BadAt(n)
    /\ delivered' = Append(delivered, Content(script[n]))
    /\ refused' \in {FALSE, BadAt(n + 1)}
    /\ UNCHANGED script

RefuseStream ==
    /\ ~refused
    /\ BadAt(Len(delivered) + 1)
    /\ refused' = TRUE
    /\ UNCHANGED <<script, delivered>>

StreamNext == Deliver \/ RefuseStream

StreamSpec == StreamInit /\ [][StreamNext]_streamVars

=============================================================================
