--------------------------- MODULE MCResumeState ---------------------------
(***************************************************************************)
(* Bitmaps of no and of two bytes, the second with a single bit in         *)
(* use; marks on both sides of the byte boundary and beyond the last       *)
(* chunk; sidecars found at start that are empty, cut, or of another       *)
(* version.                                                                *)
(***************************************************************************)
EXTENDS ResumeState

CONSTANTS m1, m2

MCInitialFiles ==
    {<<>>, <<kMagic, kVersion, m1>>,
     <<kMagic, kVersion + 1, m1, 9, 0, 0, 0, {0}, {}>>,
     <<kMagic, kVersion, m1, 9, 0, 0, 0, {0}>>}

=============================================================================
