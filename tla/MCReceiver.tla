----------------------------- MODULE MCReceiver -----------------------------
(***************************************************************************)
(* A peer for Receiver.  Its manifests share content and differ in size,   *)
(* chunk size and root hash, so that a sidecar or a .partial of one meets  *)
(* a session of another.  Two are those of a source that shrank while it   *)
(* was hashed, once to a multiple of chunk_size and once not; one has a    *)
(* root hash that its chunks do not produce.  Two have a chunk longer than *)
(* their chunk_size: the root hash of one is that of the chunks end to     *)
(* end, that of the other that of the file which they leave.               *)
(***************************************************************************)
EXTENDS Receiver

CONSTANTS a, b

Manifest(size, chunkSize, data, root) ==
    [path |-> DestPath, file_size |-> size, chunk_size |-> chunkSize,
     chunk_count |-> Len(data), root_hash |-> blake3(root),
     chunk_hashes |-> [j \in 1 .. Len(data) |-> blake3(data[j])]]

ManifestAB    == Manifest(3, 2, <<<<a, b>>, <<b>>>>, <<a, b, b>>)
ManifestLies  == Manifest(3, 2, <<<<a, b>>, <<b>>>>, <<b, b, a>>)
ManifestSmall == Manifest(2, 1, <<<<b>>, <<b>>>>, <<b, b>>)
ManifestEven  == Manifest(2, 2, <<<<a, b>>, <<>>>>, <<a, b>>)
ManifestShort == Manifest(3, 2, <<<<b>>, <<>>>>, <<b>>)
ManifestLong  == Manifest(3, 1, <<<<a, b>>, <<b>>>>, <<a, b, b>>)
ManifestOver  == Manifest(3, 1, <<<<a, b>>, <<b>>>>, <<a, b, Zero>>)
ManifestNil   == Manifest(0, 2, <<>>, <<>>)

MCManifests ==
    {ManifestAB, ManifestLies, ManifestSmall, ManifestEven, ManifestShort, ManifestLong,
     ManifestOver, ManifestNil}

\* Chunks with a correct hash, and one whose data and hash disagree.
MCChunks ==
    {[index |-> i, hash |-> blake3(d), data |-> d] :
        i \in 0 .. 2, d \in {<<a, b>>, <<b>>, <<>>}}
    \cup {[index |-> 0, hash |-> blake3(<<a, b>>), data |-> <<b, b>>]}

MCPeerFrames ==
    {Frame("HELLO", h) : h \in {[version |-> kProtocolVersion],
                                [version |-> kProtocolVersion + 1], Malformed}}
    \cup {Frame("MANIFEST", m) :
             m \in MCManifests \cup {[ManifestAB EXCEPT !.path = OtherPath], Malformed}}
    \cup {Frame("CHUNK", c) : c \in MCChunks \cup {Malformed}}
    \cup {Frame("COMPLETE", c) :
             c \in {[final_root_hash |-> m.root_hash] : m \in MCManifests} \cup {Malformed}}
    \cup {Frame("ACK", Malformed)}

=============================================================================
