---------------------------- MODULE ResolveDest ----------------------------
(***************************************************************************)
(* Where a file goes: run_send takes --out or the name of the source, the  *)
(* server's is_path_safe and resolve_dest_ put it under --root.            *)
(*                                                                         *)
(* A path is its elements, whether it is absolute, and whether it ends in  *)
(* a slash.  An element is a sequence of characters, because resolve_dest_ *)
(* compares the paths as strings.                                          *)
(***************************************************************************)
EXTENDS Sequences, SequencesExt

CONSTANTS
    Roots,    \* what --root may be
    Sources,  \* the paths of source files
    Outs,     \* what --out may be
    NoOut,    \* --out was not given
    Rejected  \* resolve_dest_ returns false

Dot    == <<".">>
DotDot == <<".", ".">>
EmptyPath == [abs |-> FALSE, parts |-> <<>>, slash |-> FALSE]

-----------------------------------------------------------------------------
(***************************************************************************)
(* std::filesystem::path: operator/, lexically_normal, generic_string.     *)
(***************************************************************************)
Join(p, q) == [abs |-> p.abs, parts |-> p.parts \o q.parts, slash |-> q.slash]

Normal(p) ==
    LET Enter(done, part) ==
            IF part = Dot THEN done
            ELSE IF part # DotDot THEN Append(done, part)
            ELSE IF done = <<>> THEN (IF p.abs THEN done ELSE <<DotDot>>)
            ELSE IF Last(done) = DotDot THEN Append(done, part)
            ELSE Front(done)
        parts == FoldLeft(Enter, <<>>, p.parts)
        slash == p.slash \/ (p.parts # <<>> /\ Last(p.parts) \in {Dot, DotDot})
    IN
    IF parts = <<>>
    THEN [p EXCEPT !.parts = IF p.abs \/ p.parts = <<>> THEN <<>> ELSE <<Dot>>,
                   !.slash = FALSE]
    ELSE [p EXCEPT !.parts = parts, !.slash = slash /\ Last(parts) # DotDot]

Characters(p) ==
    (IF p.abs THEN <<"/">> ELSE <<>>)
    \o FlattenSeq([i \in DOMAIN p.parts |->
           p.parts[i] \o (IF i < Len(p.parts) \/ p.slash THEN <<"/">> ELSE <<>>)])

-----------------------------------------------------------------------------
(***************************************************************************)
(* The code.                                                               *)
(***************************************************************************)
\* The last element of the source when --out is empty or not given.
RemoteDest(source, out) ==
    IF out \notin {NoOut, EmptyPath} THEN out
    ELSE IF source.slash \/ source.parts = <<>> THEN EmptyPath
    ELSE [EmptyPath EXCEPT !.parts = <<Last(source.parts)>>]

\* Faulty variants of is_path_safe: only a leading ".." is looked for, and any
\* dot is refused.
is_path_safe_leading(path) ==
    path # EmptyPath /\ ~path.abs /\ (path.parts # <<>> => Head(path.parts) # DotDot)

is_path_safe_dotless(path) ==
    path # EmptyPath /\ ~path.abs /\ \A i \in DOMAIN path.parts : path.parts[i] \notin {Dot, DotDot}

is_path_safe(path) ==
    path # EmptyPath /\ ~path.abs /\ \A i \in DOMAIN path.parts : path.parts[i] # DotDot

\* cand_str.rfind(root_str, 0) == 0
Begins(candidate, base) == IsPrefix(Characters(base), Characters(candidate))

resolve_dest_(base, path) ==
    LET candidate == Normal(Join(base, path)) IN
    IF is_path_safe(path) /\ Begins(candidate, Normal(base)) THEN candidate ELSE Rejected

-----------------------------------------------------------------------------
VARIABLES
    root,  \* root_
    rel,   \* the path of the manifest
    dest   \* what resolve_dest_ made of it; EmptyPath before

resolveVars == <<root, rel, dest>>

ResolveInit ==
    /\ root \in Roots
    /\ \E source \in Sources, out \in Outs \cup {NoOut} : rel = RemoteDest(source, out)
    /\ dest = EmptyPath

Resolve ==
    /\ dest = EmptyPath
    /\ dest' = resolve_dest_(root, rel)
    /\ UNCHANGED <<root, rel>>

ResolveSpec == ResolveInit /\ [][Resolve]_resolveVars

Resolved == dest \notin {EmptyPath, Rejected}

\* A file is only ever put under the root, whatever dots and slashes the root and
\* the path contain: the elements of the root come first, and no ".." follows.
UnderRoot ==
    Resolved =>
        LET base == SelectSeq(Normal(root).parts, LAMBDA part : part # Dot) IN
        /\ dest.abs = root.abs
        /\ IsPrefix(base, dest.parts)
        /\ \A i \in Len(base) + 1 .. Len(dest.parts) : dest.parts[i] # DotDot

\* What the comment on is_path_safe lists, apart from paths that lead outside.
Refusable ==
    \/ rel = EmptyPath
    \/ rel.abs
    \/ \E i \in DOMAIN rel.parts : rel.parts[i] = DotDot

\* A relative path without ".." is accepted, however the root is written, as long
\* as the root is not the working directory itself.
OthersAccepted ==
    dest = Rejected /\ Normal(root).parts # <<Dot>> => Refusable

=============================================================================
