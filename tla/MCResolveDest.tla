--------------------------- MODULE MCResolveDest ---------------------------
(***************************************************************************)
(* Paths of up to three elements out of ".", "..", "a", "aa" and ".a".     *)
(***************************************************************************)
EXTENDS ResolveDest

CONSTANT MaxParts

Parts == {Dot, DotDot, <<"a">>, <<"a", "a">>, <<".", "a">>}

Paths(n) ==
    {EmptyPath} \cup
    [abs : BOOLEAN, parts : SeqOf(Parts, n) \ {<<>>}, slash : BOOLEAN]

MCRoots == (Paths(2) \cup {[EmptyPath EXCEPT !.abs = TRUE]}) \ {EmptyPath}

MCSources == Paths(1)

MCOuts == Paths(MaxParts)

=============================================================================
