--------------------------- MODULE Concatenation ---------------------------
(***************************************************************************)
(* Sequences of sequences, end to end: the chunks of a file, the frames of *)
(* a byte stream.                                                          *)
(***************************************************************************)
EXTENDS Integers, Sequences

Concat(parts) ==
    LET upTo[n \in 0 .. Len(parts)] ==
            IF n = 0 THEN <<>> ELSE upTo[n - 1] \o parts[n]
    IN  upTo[Len(parts)]

=============================================================================
