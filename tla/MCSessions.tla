----------------------------- MODULE MCSessions -----------------------------
(***************************************************************************)
(* Three connections and two destinations: x is an empty file; y has two   *)
(* senders, of the same two chunks, or of a chunk and a different one.     *)
(* They come one after the other, so that the second may find what a lost  *)
(* one left, or both at a time.                                            *)
(***************************************************************************)
EXTENDS Sessions, TLC

Job(name, content) == [name |-> name, content |-> content]

MCJobs ==
    {(1 :> Job(<<"x">>, <<>>)) @@ (2 :> Job(<<"y">>, y[1])) @@ (3 :> Job(<<"y">>, y[2])) :
        y \in {<<<<"c", "c">>, <<"c", "c">>>>, <<<<"c">>, <<"a">>>>}}

\* Two for each name.
MCInodes == 1 .. 16

=============================================================================
