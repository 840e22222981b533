----------------------------- MODULE MCTransfer -----------------------------
(***************************************************************************)
(* Two sources of two chunks in two contents.  The last chunk of the first *)
(* one is short: a source that changes from the second to the first while  *)
(* it is read is cut off in the middle of a chunk.                         *)
(***************************************************************************)
EXTENDS Transfer

CONSTANTS a, b

MCSources == {<<a, b, b>>, <<b, b, a, b>>}

\* With U32 = 4 and MaxHashes = 2: one chunk and two, in two contents; three, which
\* are too many for the MANIFEST; four and five, which chunk_count shows as none
\* and one.
MCLimitSources ==
    MCSources \cup {<<a>>, <<a, b, b, b, b>>, <<a, b, b, a, b, a, b>>,
                    <<a, b, b, a, b, a, b, a, a>>}

=============================================================================
