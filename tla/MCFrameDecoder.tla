--------------------------- MODULE MCFrameDecoder ---------------------------
(***************************************************************************)
(* Streams of up to three frames: without payload, with one of the largest *)
(* allowed size, too large, of unknown type, with a damaged header.        *)
(***************************************************************************)
EXTENDS FrameDecoder

GoodFrames == {[type |-> "CHUNK", payload |-> p, crc |-> TRUE] :
                   p \in {<<>>, <<1>>, <<1, 2>>}}

BadFrames == {[type |-> "CHUNK", payload |-> <<1, 2, 3>>, crc |-> TRUE],
              [type |-> "0x7E", payload |-> <<1>>, crc |-> TRUE],
              [type |-> "CHUNK", payload |-> <<1>>, crc |-> FALSE]}

MCScripts ==
    UNION {[1 .. n -> GoodFrames \cup BadFrames] : n \in 1 .. 3}

=============================================================================
