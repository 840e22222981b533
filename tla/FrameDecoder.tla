---------------------------- MODULE FrameDecoder ----------------------------
(***************************************************************************)
(* The streaming FrameDecoder: feed() appends bytes in pieces of any size, *)
(* drive_() advances as far as the buffer allows, take_frame() hands a     *)
(* completed frame out and advances again.                                 *)
(***************************************************************************)
EXTENDS FrameHeader, Concatenation

CONSTANT Scripts  \* the frame sequences a peer may put on the wire

ASSUME DecoderAssumption == Scripts \subseteq Seq(WireFrames)

VARIABLES
    script,     \* the frames the peer put on the wire
    wire,       \* their bytes, not yet fed
    state,      \* state_
    lastError,  \* last_error_
    buffer,     \* buffer_
    pending,    \* pending_header_
    taken       \* the frames take_frame() has returned

decoder     == <<state, lastError, buffer, pending>>
decoderVars == <<script, wire, decoder, taken>>

-----------------------------------------------------------------------------
(***************************************************************************)
(* drive_(), on a decoder d.  Its loop turns twice at most: a header, then *)
(* the payload, after which the state is FrameReady.                       *)
(***************************************************************************)
Suffix(s, n) == SubSeq(s, n + 1, Len(s))

ConsumeHeader(d) ==
    LET reason == DecodeFrom(SubSeq(d.buffer, 1, kHeaderSize))
        header == d.buffer[1].of
    IN
    IF reason # "None" THEN [d EXCEPT !.state = "Poisoned", !.lastError = reason]
    ELSE [d EXCEPT !.pending = header,
                   !.buffer = Suffix(d.buffer, kHeaderSize),
                   !.state = IF header.len = 0 THEN "FrameReady" ELSE "ReadingPayload"]

AwaitPayload(d) ==
    IF d.state = "ReadingPayload" /\ Len(d.buffer) >= d.pending.len
    THEN [d EXCEPT !.state = "FrameReady"] ELSE d

Drive(d) ==
    AwaitPayload(IF d.state = "ReadingHeader" /\ Len(d.buffer) >= kHeaderSize
                 THEN ConsumeHeader(d) ELSE d)

Become(d) ==
    /\ state' = d.state /\ lastError' = d.lastError
    /\ buffer' = d.buffer /\ pending' = d.pending

\* feed() of the next n bytes; a poisoned decoder refuses them unread.
Feed(n) ==
    /\ wire' = Suffix(wire, n)
    /\ IF state = "Poisoned" THEN UNCHANGED decoder
       ELSE Become(Drive([state |-> state, lastError |-> lastError,
                          buffer |-> buffer \o SubSeq(wire, 1, n), pending |-> pending]))
    /\ UNCHANGED <<script, taken>>

\* Faulty variant of TakeFrame: what is left in the buffer is not looked at
\* before the next feed().
TakeFrameWaits ==
    /\ state = "FrameReady"
    /\ taken' = Append(taken, [type |-> pending.type,
                               payload |-> Payload(SubSeq(buffer, 1, pending.len))])
    /\ Become([state |-> "ReadingHeader", lastError |-> lastError,
               buffer |-> Suffix(buffer, pending.len), pending |-> NoHeader])
    /\ UNCHANGED <<script, wire>>

TakeFrame ==
    /\ state = "FrameReady"
    /\ taken' = Append(taken, [type |-> pending.type,
                               payload |-> Payload(SubSeq(buffer, 1, pending.len))])
    /\ Become(Drive([state |-> "ReadingHeader", lastError |-> lastError,
                     buffer |-> Suffix(buffer, pending.len), pending |-> NoHeader]))
    /\ UNCHANGED <<script, wire>>

-----------------------------------------------------------------------------
DecoderInit ==
    /\ script \in Scripts
    /\ wire = Concat([i \in DOMAIN script |-> EncodeFrame(script[i])])
    /\ state = "ReadingHeader" /\ lastError = "None"
    /\ buffer = <<>> /\ pending = NoHeader
    /\ taken = <<>>

DecoderNext ==
    \/ \E n \in 1 .. Len(wire) : Feed(n)
    \/ TakeFrame

DecoderSpec == DecoderInit /\ [][DecoderNext]_decoderVars

\* The caller keeps feeding what it received and takes frames that are ready.
FairDecoderSpec ==
    /\ DecoderSpec
    /\ WF_decoderVars(\E n \in 1 .. Len(wire) : Feed(n))
    /\ WF_decoderVars(TakeFrame)

-----------------------------------------------------------------------------
(***************************************************************************)
(* Properties.                                                             *)
(***************************************************************************)
DecoderTypeOK ==
    /\ state \in {"ReadingHeader", "ReadingPayload", "FrameReady", "Poisoned"}
    /\ lastError \in {"None", "BadCrc", "UnknownType", "PayloadTooLarge"}
    /\ lastError # "None" <=> state = "Poisoned"
    /\ pending = NoHeader <=> state \in {"ReadingHeader", "Poisoned"}
    /\ \A j \in 1 .. Len(taken) : Len(taken[j].payload) <= MaxPayload

FrameStream == INSTANCE FrameStream WITH delivered <- taken,
                                         refused <- state = "Poisoned"

\* However the bytes are cut into feed() calls and whenever frames are taken,
\* the decoder hands out the frames of the stream, in order and whole, and is
\* poisoned only by a frame whose header does not hold, after every frame
\* before it was handed out.
ImplementsFrameStream == FrameStream!StreamSpec

\* The decoder never sits on a frame: all the good frames before the first bad
\* one are handed out, in particular those whose bytes arrived in one feed() and
\* those without a payload, and the bad one is noticed.
EveryFrameSeen ==
    <>[](\/ state = "Poisoned"
         \/ Len(taken) = Len(script))

=============================================================================
