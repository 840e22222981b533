------------------------ MODULE TransferErrorProofs ------------------------
(***************************************************************************)
(* Proofs about Transfer, third part: why no session ends in ERROR while   *)
(* the source is stable and the server and its disk do not fail.           *)
(***************************************************************************)
EXTENDS TransferMoveProofs

-----------------------------------------------------------------------------
(***************************************************************************)
(* No refusal without a cause.  ErrorInv says, of a server that was never  *)
(* killed, a disk that works and a stable source that can be sent, whose   *)
(* turn it is and that what is in flight makes up what the server lacks:   *)
(* chunk after chunk in a fresh session, the requested ones in a resumed   *)
(* one.                                                                    *)
(***************************************************************************)
Calm == kills = 0 /\ faults = 0 /\ edits = 0 /\ Sendable(src)

GenuineFrame(f) ==
    /\ f.type = "CHUNK" => \E i \in 0 .. Count - 1 : f = ChunkOf(i, Piece(i), Piece(i))
    /\ f.type = "COMPLETE" => f = CompleteOf(Pieces)

Genuine == \A k \in 1 .. Len(c2s) : GenuineFrame(c2s[k])

Filled == {"chunks", "save"}

Turns ==
    /\ pc = "hello" => s2c = <<>> /\ Len(c2s) <= 1 /\ cpc \notin {"hash", "req", "send", "ack"}
    /\ pc = "manifest" => /\ Len(c2s) <= 1 /\ cpc \notin {"send", "ack"}
                          /\ cpc \in {"hello", "hash"} => c2s = <<>>
    /\ pc \in {"load", "open"} => c2s = <<>> /\ cpc \notin {"hello", "hash", "send", "ack"}
    /\ pc \in Filled =>
          /\ cpc \notin {"hello", "hash"}
          /\ cpc = "req" => c2s = <<>>
          /\ \A k \in 1 .. Len(c2s) : c2s[k].type \in {"CHUNK", "COMPLETE"}

\* Chunk i is among the first k of the frames fs.
Carried(fs, i, k) == \E l \in 1 .. k : fs[l].type = "CHUNK" /\ fs[l].body.index = i

Covered ==
    /\ cpc = "req" =>
          \A j \in 1 .. Len(s2c) : s2c[j].type = "REQ_CHUNKS" =>
              0 .. Count - 1 \subseteq s2c[j].body.indices \cup got
    /\ cpc = "send" =>
          /\ \A i \in 0 .. Count - 1 : i \in got \cup todo \/ Carried(c2s, i, Len(c2s))
          /\ \A k \in 1 .. Len(c2s) : c2s[k].type # "COMPLETE"
    /\ \A k \in 1 .. Len(c2s) : c2s[k].type = "COMPLETE" =>
          \A i \in 0 .. Count - 1 : i \in got \/ Carried(c2s, i, k - 1)

Ordered ==
    /\ cpc = "req" =>
          \A j \in 1 .. Len(s2c) : s2c[j].type = "REQ_CHUNKS" =>
              s2c[j].body.indices = next .. Count - 1
    /\ cpc = "send" => next + Len(c2s) <= Count /\ todo = next + Len(c2s) .. Count - 1
    /\ \A k \in 1 .. Len(c2s) :
          /\ c2s[k].type = "CHUNK" => c2s[k].body.index = next + k - 1
          /\ c2s[k].type = "COMPLETE" => next + k - 1 = Count

Streamed ==
    /\ inorder /\ got = 0 .. next - 1 /\ chunks = next /\ next <= Count
    /\ hasher = Upto(next)

Filling ==
    /\ pc \in Filled /\ resume => ~inorder /\ (link = "up" => Covered)
    /\ pc \in Filled /\ ~resume => Streamed /\ (link = "up" => Ordered)
    /\ pc = "verify" => /\ final = SourceManifest.root_hash
                        /\ resume => ~inorder /\ 0 .. Count - 1 \subseteq got
                        /\ ~resume => Streamed /\ next = Count

Silent == \A j \in 1 .. Len(s2c) : s2c[j].type # "ERROR"

ErrorInv == Calm => Genuine /\ Turns /\ Filling /\ Silent

\* What the invariants of Receiver add, while nothing fails.
Kept ==
    /\ pc # "rename2"
    /\ pc = "open" => hasher = <<>> /\ next = 0 /\ chunks = 0 /\ (~resume => got = {})
    /\ pc = "verify" => /\ inorder => bytes = Len(hasher)
                        /\ View \in Files /\ Len(View) = man.file_size
                        /\ \A i \in got : OnDisk(man, i, View)

-----------------------------------------------------------------------------
(***************************************************************************)
(* What the server makes of the frames in flight.                          *)
(***************************************************************************)
LEMMA HelloIsGood ==
    ASSUME NEW f \in HonestFrames
    PROVE  HelloVerdict(f) \in {"drop", "ok"}
<1>1. CASE f.type = "HELLO"
  <2>1. (\A n, d : ManifestOf(n, d).type = "MANIFEST") /\ (\A d : CompleteOf(d).type = "COMPLETE")
        /\ \A i, d, e : ChunkOf(i, d, e).type = "CHUNK"
    BY DEF ManifestOf, CompleteOf, ChunkOf, Frame
  <2>2. f = Hello
    BY <1>1, <2>1, SMTT(60) DEF HonestFrames
  <2>3. f.body = [version |-> kProtocolVersion]
    BY <2>2 DEF Hello, Frame
  <2>4. f.body \in HelloMsg /\ f.body.version = kProtocolVersion
    BY <2>3, DataAssumption DEF HelloMsg
  <2>5. f.body # Malformed
    BY <2>4, MalformedAssumption, Zenon
  <2> QED
    BY <2>4, <2>5, Zenon DEF HelloVerdict
<1>2. CASE f.type # "HELLO"
  BY <1>2, Zenon DEF HelloVerdict, IsFrame
<1> QED
  BY <1>1, <1>2

LEMMA ManifestIsGood ==
    ASSUME Basics, Sendable(src), SameManifest, NEW k \in 1 .. Len(c2s)
    PROVE  ManifestVerdict(c2s[k]) \in {"drop", "ok"}
<1>1. CASE c2s[k].type = "MANIFEST"
  <2>1. c2s[k].body = SourceManifest
    BY <1>1, Zenon DEF SameManifest
  <2>2. SourceManifest \in Manifests /\ SourceManifest.path = DestPath
    BY SourceManifestType, SourceFields, Zenon
  <2>3. c2s[k].body # Malformed
    BY <2>1, <2>2, MalformedAssumption, Zenon
  <2> QED
    BY <2>1, <2>2, <2>3, Zenon DEF ManifestVerdict
<1>2. CASE c2s[k].type # "MANIFEST"
  BY <1>2, Zenon DEF ManifestVerdict, IsFrame
<1> QED
  BY <1>1, <1>2

\* The chunks of the source pass every check of the CHUNK loop.
LEMMA ChunkIsGood ==
    ASSUME Basics, Sendable(src), man = SourceManifest, NEW f, f # None,
           f.type \in {"CHUNK", "COMPLETE"}, GenuineFrame(f)
    PROVE  /\ f.type = "CHUNK" => ChunkVerdict(f) = "chunk"
           /\ f.type = "COMPLETE" => ChunkVerdict(f) = "complete"
<1>1. CASE f.type = "COMPLETE"
  <2>1. f = CompleteOf(Pieces)
    BY <1>1, Zenon DEF GenuineFrame
  <2>2. f.body = [final_root_hash |-> blake3(Concat(Pieces))]
    BY <2>1 DEF CompleteOf, Frame
  <2>3. blake3(Concat(Pieces)) \in Digests
    <3>1. Concat(Pieces) = src /\ src \in Files
      BY PiecesAreSource, CountCovers
    <3> QED
      BY <3>1 DEF blake3, Digests
  <2>4. f.body \in CompleteMsg
    BY <2>2, <2>3 DEF CompleteMsg
  <2>5. f.body # Malformed
    BY <2>4, MalformedAssumption, Zenon
  <2>6. ChunkVerdict(f) = "complete"
    BY <1>1, <2>5 DEF ChunkVerdict
  <2> QED
    BY <1>1, <2>6
<1>2. CASE f.type = "CHUNK"
  <2>1. PICK i \in 0 .. Count - 1 : f = ChunkOf(i, Piece(i), Piece(i))
    BY <1>2, Zenon DEF GenuineFrame
  <2>2. f.body = [index |-> i, hash |-> blake3(Piece(i)), data |-> Piece(i)]
    BY <2>1 DEF ChunkOf, Frame
  <2>3. /\ Count \in Nat /\ Whole \in Nat /\ i \in Nat
        /\ Piece(i) \in Files /\ Len(Piece(i)) \in Nat
        /\ i * ChunkSize + Len(Piece(i)) <= Whole
    BY <2>1, CountCovers, PieceLength
  <2>4. /\ man.chunk_count = Count /\ man.file_size = Whole /\ man.chunk_size = ChunkSize
        /\ man.chunk_hashes[i + 1] = blake3(Piece(i))
    BY <2>1, SourceFields
  <2>5. blake3(Piece(i)) \in Digests
    BY <2>3 DEF blake3, Digests
  <2>6. f.body \in ChunkMsg
    BY <2>2, <2>3, <2>5 DEF ChunkMsg
  <2>7. f.body # Malformed
    BY <2>6, MalformedAssumption, Zenon
  <2>8. f.body.index = i /\ f.body.data = Piece(i) /\ f.body.hash = blake3(Piece(i))
    BY <2>2
  <2>9. ~(i >= Count) /\ ~(i * ChunkSize + Len(Piece(i)) > Whole)
    <3> DEFINE x == i * ChunkSize
    <3>1. x \in Int
      BY <2>3, TransferAssumption
    <3> HIDE DEF x
    <3>2. x + Len(Piece(i)) <= Whole
      BY <2>3 DEF x
    <3>3. ~(x + Len(Piece(i)) > Whole)
      BY <2>3, <3>1, <3>2
    <3> QED
      BY <2>1, <2>3, <3>3 DEF x
  <2>10. ChunkVerdict(f) = "chunk"
    BY <1>2, <2>4, <2>7, <2>8, <2>9, Zenon DEF ChunkVerdict, Offset
  <2> QED
    BY <1>2, <2>10
<1> QED
  BY <1>1, <1>2

\* The inventory and the root hash agree with the source.
LEMMA TransferIsGood ==
    ASSUME Basics, Kept, Filling, Sendable(src), pc = "verify", man = SourceManifest
    PROVE  VerifyVerdict = "ok"
<1>1. /\ man.chunk_count = Count /\ man.file_size = Whole /\ man.chunk_size = ChunkSize
      /\ man.root_hash = blake3(src) /\ final = man.root_hash
      /\ \A i \in 0 .. Count - 1 : man.chunk_hashes[i + 1] = blake3(Piece(i))
  BY SourceFields, SourceManifestType, Zenon DEF Filling
<1>2. src \in Files /\ Whole \in Nat /\ Count \in Nat /\ Whole = Len(src)
  BY CountCovers DEF Whole
<1>3. CASE resume
  <2>1. ~inorder /\ 0 .. Count - 1 \subseteq got
    BY <1>3 DEF Filling
  <2>2. Inventory
    BY <1>1, <1>3, <2>1 DEF Inventory, Missing
  <2>3. View \in Files /\ Len(View) = Whole /\ \A i \in got : OnDisk(man, i, View)
    BY <1>1 DEF Kept
  <2> DEFINE v == View
  <2> HIDE DEF v
  <2>4. ASSUME NEW j \in 1 .. Whole PROVE v[j] = src[j]
    <3>1. PICK i \in 0 .. Count - 1 : \E k \in 1 .. Len(Piece(i)) : j = i * ChunkSize + k
      BY PieceAt
    <3>2. PICK k \in 1 .. Len(Piece(i)) : j = i * ChunkSize + k
      BY <3>1
    <3>3. OnDisk(man, i, v)
      BY <2>1, <2>3 DEF v
    <3>4. Piece(i)[k] = src[i * ChunkSize + k]
      BY PieceLength
    <3>5. v[i * ChunkSize + k] = Piece(i)[k]
      <4>1. \A x : blake3(x).digest = x
        BY DEF blake3
      <4>2. Declared(man, i) = Piece(i)
        BY <1>1, <4>1, Zenon DEF Declared
      <4> QED
        BY <1>1, <3>3, <4>2, Zenon DEF OnDisk
    <3> QED
      BY <3>2, <3>4, <3>5, Zenon
  <2>5. v = src
    BY <1>2, <2>3, <2>4 DEF v, Files
  <2>6. ActualRoot = blake3(src)
    BY <2>1, <2>5, Zenon DEF ActualRoot, v
  <2> QED
    BY <1>1, <2>2, <2>6, Zenon DEF VerifyVerdict
<1>4. CASE ~resume
  <2>1. inorder /\ chunks = Count /\ hasher = Upto(Count)
    BY <1>4, Zenon DEF Filling, Streamed
  <2>2. hasher = src
    BY <2>1, UptoFacts, Zenon
  <2>3. bytes = Whole
    BY <1>2, <2>1, <2>2 DEF Kept
  <2>4. Inventory
    BY <1>1, <1>4, <2>1, <2>3, Zenon DEF Inventory
  <2>5. ActualRoot = blake3(src)
    BY <2>1, <2>2, Zenon DEF ActualRoot
  <2> QED
    BY <1>1, <2>4, <2>5, Zenon DEF VerifyVerdict
<1> QED
  BY <1>3, <1>4

LEMMA GenuineKept ==
    ASSUME Basics, Genuine, src' = src, Consumes
    PROVE  Genuine'
<1>1. \A f : GenuineFrame(f)' <=> GenuineFrame(f)
  BY Zenon DEF GenuineFrame, Count, Whole, Piece, Pieces
<1>2. c2s \in Seq(HonestFrames)
  BY InFlightType
<1>3. PICK d \in {0, 1} : \A k \in 1 .. Len(c2s') : /\ k + d \in 1 .. Len(c2s)
                                                     /\ c2s'[k] = c2s[k + d]
  BY <1>2, Shifted
<1> QED
  BY <1>1, <1>3, Zenon DEF Genuine

LEMMA GenuineSent ==
    ASSUME Basics, Genuine, src' = src, NEW f, Sends(f), GenuineFrame(f)
    PROVE  Genuine'
<1>1. \A g : GenuineFrame(g)' <=> GenuineFrame(g)
  BY Zenon DEF GenuineFrame, Count, Whole, Piece, Pieces
<1>2. c2s \in Seq(HonestFrames)
  BY InFlightType
<1>3. /\ \A k \in 1 .. Len(c2s) : c2s'[k] = c2s[k]
      /\ c2s'[Len(c2s) + 1] = f
      /\ \A k \in 1 .. Len(c2s') : k \in 1 .. Len(c2s) \/ k = Len(c2s) + 1
  BY <1>2, Appended
<1> QED
  BY <1>1, <1>3, Zenon DEF Genuine

\* A frame more in the log of the server.
LEMMA SilentSent ==
    ASSUME Basics, Silent, NEW f, f.type # "ERROR", s2c' = Append(s2c, f)
    PROVE  Silent'
<1>1. s2c \in Seq(ServerFrames)
  BY InFlightType
<1>2. /\ \A j \in 1 .. Len(s2c) : s2c'[j] = s2c[j]
      /\ s2c'[Len(s2c) + 1] = f
      /\ \A j \in 1 .. Len(s2c') : j \in 1 .. Len(s2c) \/ j = Len(s2c) + 1
  BY <1>1
<1> QED
  BY <1>2, Zenon DEF Silent

-----------------------------------------------------------------------------
(***************************************************************************)
(* The steps of the server while nothing fails.                            *)
(***************************************************************************)
Quits == pc' \in {"idle", "finalize", "cleanup", "ack"} /\ Consumes /\ Silent'

Answers ==
    /\ pc = "hello" /\ pc' = "manifest" /\ c2s # <<>> /\ c2s' = Tail(c2s)
    /\ s2c' = Append(s2c, Frame("HELLO", [version |-> kProtocolVersion]))

Learns ==
    /\ pc = "manifest" /\ pc' = "load" /\ c2s # <<>> /\ c2s' = Tail(c2s)
    /\ UNCHANGED s2c

Recalls == pc = "load" /\ pc' = "open" /\ UNCHANGED <<c2s, s2c>>

Requests ==
    /\ pc = "open" /\ pc' = "chunks" /\ inorder' = ~resume
    /\ s2c' = Append(s2c, Frame("REQ_CHUNKS", [indices |-> Missing]))
    /\ UNCHANGED <<c2s, got, resume, hasher, next, chunks>>

Writes ==
    LET c       == Head(c2s).body
        ordered == inorder /\ c.index = next
    IN
    /\ pc = "chunks" /\ pc' = "save"
    /\ link = "up" /\ c2s # <<>> /\ c2s' = Tail(c2s) /\ Head(c2s).type = "CHUNK"
    /\ inorder' = ordered
    /\ hasher' = IF ordered THEN Update(hasher, c.data) ELSE hasher
    /\ next' = IF ordered THEN next + 1 ELSE next
    /\ got' = got \cup {c.index}
    /\ chunks' = chunks + 1
    /\ UNCHANGED <<resume, s2c>>

Records ==
    /\ pc = "save" /\ pc' = "chunks"
    /\ UNCHANGED <<c2s, s2c, got, resume, inorder, hasher, next, chunks>>

Completes ==
    /\ pc = "chunks" /\ pc' = "verify"
    /\ link = "up" /\ c2s # <<>> /\ c2s' = Tail(c2s) /\ Head(c2s).type = "COMPLETE"
    /\ final' = Head(c2s).body.final_root_hash
    /\ UNCHANGED <<s2c, got, resume, inorder, hasher, next, chunks>>

QuietServer ==
    Quits \/ Answers \/ Learns \/ Recalls \/ Requests \/ Writes \/ Records \/ Completes

\* What the server's steps leave alone.
Elsewhere == UNCHANGED <<src, cpc, todo, link>>

LEMMA SourceUnchanged ==
    ASSUME src' = src
    PROVE  /\ Count' = Count /\ SourceManifest' = SourceManifest
           /\ \A n : Upto(n)' = Upto(n)
  BY Zenon DEF Count, Whole, SourceManifest, Upto

LEMMA TurnsEarly ==
    ASSUME Basics, Turns, Silent, Elsewhere, Answers \/ Learns \/ Recalls
    PROVE  Turns' /\ Filling' /\ Silent' /\ Consumes
<1>1. c2s \in Seq(HonestFrames)
  BY InFlightType
<1>2. CASE Answers
  <2>1. c2s' = <<>>
    BY <1>1, <1>2 DEF Answers, Turns
  <2>2. Silent'
    <3>1. Frame("HELLO", [version |-> kProtocolVersion]).type # "ERROR"
      BY DEF Frame
    <3> QED
      BY <1>2, <3>1, SilentSent DEF Answers
  <2>3. pc' = "manifest" /\ cpc' = cpc /\ cpc \notin {"hash", "req", "send", "ack"}
    BY <1>2 DEF Answers, Turns, Elsewhere
  <2> QED
    BY <2>1, <2>2, <2>3 DEF Turns, Filling, Filled, Consumes
<1>3. CASE Learns
  <2>1. c2s' = <<>>
    BY <1>1, <1>3 DEF Learns, Turns
  <2>2. Silent'
    BY <1>3, Zenon DEF Learns, Silent
  <2>3. pc' = "load" /\ cpc' = cpc /\ cpc \notin {"hello", "hash", "send", "ack"}
    BY <1>3 DEF Learns, Turns, Elsewhere
  <2> QED
    BY <2>1, <2>2, <2>3 DEF Turns, Filling, Filled, Consumes
<1>4. CASE Recalls
  <2>1. Silent' /\ c2s' = c2s
    BY <1>4, Zenon DEF Recalls, Silent
  <2>2. pc = "load" /\ pc' = "open" /\ cpc' = cpc
    BY <1>4 DEF Recalls, Elsewhere
  <2> QED
    BY <2>1, <2>2 DEF Turns, Filling, Filled, Consumes
<1> QED
  BY <1>2, <1>3, <1>4

LEMMA TurnsRequest ==
    ASSUME Basics, Turns, Silent, Once, Kept, man = SourceManifest, Sendable(src),
           Elsewhere, Requests
    PROVE  Turns' /\ Filling' /\ Silent' /\ Consumes
<1> DEFINE f == Frame("REQ_CHUNKS", [indices |-> Missing])
<1>1. /\ pc = "open" /\ pc' = "chunks" /\ inorder' = ~resume /\ s2c' = Append(s2c, f)
      /\ c2s' = c2s /\ got' = got /\ resume' = resume /\ hasher' = hasher /\ next' = next
      /\ chunks' = chunks /\ cpc' = cpc /\ todo' = todo
  BY DEF Requests, Elsewhere
<1>2. f.type = "REQ_CHUNKS" /\ f.body.indices = Missing
  BY DEF Frame
<1> HIDE DEF f
<1>3. s2c \in Seq(ServerFrames) /\ Count \in Nat /\ Count' = Count /\ Upto(0)' = Upto(0)
  BY InFlightType, CountCovers, SourceUnchanged DEF Elsewhere
<1>4. c2s' = <<>> /\ cpc' \notin {"hello", "hash", "send", "ack"}
  BY <1>1 DEF Turns
<1>5. Turns'
  BY <1>1, <1>4 DEF Turns, Filled
<1>6. Silent'
  BY <1>1, <1>2, SilentSent
<1>7. \A j \in 1 .. Len(s2c') : s2c'[j].type = "REQ_CHUNKS" => s2c'[j].body.indices = Missing
  <2>1. NoRequest
    BY <1>1 DEF Once
  <2>2. /\ \A j \in 1 .. Len(s2c) : s2c'[j] = s2c[j]
        /\ s2c'[Len(s2c) + 1] = f
        /\ \A j \in 1 .. Len(s2c') : j \in 1 .. Len(s2c) \/ j = Len(s2c) + 1
    BY <1>1, <1>3
  <2> QED
    BY <1>2, <2>1, <2>2, Zenon DEF NoRequest
<1>8. Missing = {i \in 0 .. Count - 1 : i \notin got}
  BY SourceFields, Zenon DEF Missing
<1>9. CASE resume
  <2>1. 0 .. Count - 1 \subseteq Missing \cup got
    BY <1>8
  <2>2. Covered'
    BY <1>1, <1>3, <1>4, <1>7, <2>1 DEF Covered
  <2> QED
    BY <1>1, <1>4, <1>5, <1>6, <1>9, <2>2, ZenonT(40) DEF Filling, Consumes
<1>10. CASE ~resume
  <2>1. got = {} /\ next = 0 /\ chunks = 0 /\ hasher = <<>>
    BY <1>1, <1>10 DEF Kept
  <2>2. Streamed'
    <3>1. hasher' = Upto(0)'
      BY <1>1, <1>3, <2>1, UptoFacts, Zenon
    <3>2. 0 .. 0 - 1 = {} /\ 0 <= Count
      BY <1>3
    <3>3. next' = 0 /\ chunks' = 0 /\ got' = {} /\ inorder'
      BY <1>1, <1>10, <2>1, ZenonT(40)
    <3> QED
      BY <1>3, <3>1, <3>2, <3>3, Zenon DEF Streamed
  <2>3. Missing = next .. Count - 1
    BY <1>8, <2>1
  <2>4. Ordered'
    BY <1>1, <1>3, <1>4, <1>7, <2>3 DEF Ordered
  <2> QED
    BY <1>1, <1>4, <1>5, <1>6, <1>10, <2>2, <2>4 DEF Filling, Consumes
<1> QED
  BY <1>9, <1>10

\* What is in flight once the first frame has been taken.
LEMMA Taken ==
    ASSUME Basics, c2s # <<>>, c2s' = Tail(c2s)
    PROVE  /\ Len(c2s) \in Nat /\ Len(c2s') = Len(c2s) - 1 /\ Head(c2s) = c2s[1]
           /\ 1 \in 1 .. Len(c2s)
           /\ \A k \in 1 .. Len(c2s') : k + 1 \in 1 .. Len(c2s) /\ c2s'[k] = c2s[k + 1]
<1>1. c2s \in Seq(HonestFrames)
  BY InFlightType
<1> QED
  BY <1>1

LEMMA CarriedTaken ==
    ASSUME Basics, c2s # <<>>, c2s' = Tail(c2s), got' = got \cup {Head(c2s).body.index},
           NEW k \in 1 .. Len(c2s), NEW i, Carried(c2s, i, k)
    PROVE  i \in got' \/ Carried(c2s', i, k - 1)
<1>1. PICK l \in 1 .. k : c2s[l].type = "CHUNK" /\ c2s[l].body.index = i
  BY DEF Carried
<1>2. /\ Len(c2s) \in Nat /\ Len(c2s') = Len(c2s) - 1 /\ Head(c2s) = c2s[1]
      /\ \A m \in 1 .. Len(c2s') : c2s'[m] = c2s[m + 1]
  BY Taken
<1>3. CASE l = 1
  BY <1>1, <1>2, <1>3
<1>4. CASE l # 1
  <2>1. l - 1 \in 1 .. k - 1 /\ l - 1 \in 1 .. Len(c2s') /\ (l - 1) + 1 = l
    BY <1>2, <1>4
  <2>2. c2s'[l - 1] = c2s[l]
    BY <1>2, <2>1, Zenon
  <2> QED
    BY <1>1, <2>1, <2>2, Zenon DEF Carried
<1> QED
  BY <1>3, <1>4

LEMMA TurnsWrite ==
    ASSUME Basics, Genuine, Turns, Filling, Silent, Sendable(src), Elsewhere, Writes
    PROVE  Turns' /\ Filling' /\ Silent' /\ Consumes
<1> DEFINE f == Head(c2s)
<1>1. /\ pc = "chunks" /\ pc' = "save" /\ link = "up" /\ link' = link /\ c2s # <<>>
      /\ c2s' = Tail(c2s) /\ f.type = "CHUNK" /\ got' = got \cup {f.body.index}
      /\ chunks' = chunks + 1 /\ resume' = resume /\ s2c' = s2c /\ cpc' = cpc /\ todo' = todo
      /\ src' = src
  BY DEF Writes, Elsewhere
<1>2. /\ Len(c2s) \in Nat /\ Len(c2s') = Len(c2s) - 1 /\ f = c2s[1]
      /\ 1 \in 1 .. Len(c2s)
      /\ \A k \in 1 .. Len(c2s') : k + 1 \in 1 .. Len(c2s) /\ c2s'[k] = c2s[k + 1]
  BY <1>1, Taken
<1>3. PICK i \in 0 .. Count - 1 : f = ChunkOf(i, Piece(i), Piece(i))
  BY <1>1, <1>2, Zenon DEF Genuine, GenuineFrame
<1>4. f.body.index = i /\ f.body.data = Piece(i)
  BY <1>3 DEF ChunkOf, Frame
<1>5. Count \in Nat /\ Count' = Count /\ \A n : Upto(n)' = Upto(n)
  BY <1>1, CountCovers, SourceUnchanged
<1>6. cpc \notin {"hello", "hash", "req"}
  BY <1>1 DEF Turns, Filled
<1>7. Turns'
  <2>1. \A k \in 1 .. Len(c2s') : c2s'[k].type \in {"CHUNK", "COMPLETE"}
    BY <1>1, <1>2, Zenon DEF Turns, Filled
  <2> QED
    BY <1>1, <1>6, <2>1 DEF Turns, Filled
<1>8. Silent' /\ Consumes
  BY <1>1, Zenon DEF Silent, Consumes
<1>9. CASE resume
  <2>1. ~inorder /\ Covered
    BY <1>1, <1>9 DEF Filling, Filled
  <2>2. ~inorder'
    BY <2>1, ZenonT(40) DEF Writes
  <2>3. Covered'
    <3>1. ASSUME cpc = "send", NEW m \in 0 .. Count - 1
          PROVE  m \in got' \cup todo' \/ Carried(c2s', m, Len(c2s'))
      <4>1. m \in got \cup todo \/ Carried(c2s, m, Len(c2s))
        BY <2>1, <3>1 DEF Covered
      <4>2. Len(c2s) \in 1 .. Len(c2s)
        BY <1>2
      <4>3. Carried(c2s, m, Len(c2s)) => m \in got' \/ Carried(c2s', m, Len(c2s) - 1)
        BY <1>1, <4>2, CarriedTaken
      <4> QED
        BY <1>1, <1>2, <4>1, <4>3
    <3>2. ASSUME cpc = "send", NEW k \in 1 .. Len(c2s') PROVE c2s'[k].type # "COMPLETE"
      BY <1>2, <2>1, <3>2, Zenon DEF Covered
    <3>3. ASSUME NEW k \in 1 .. Len(c2s'), c2s'[k].type = "COMPLETE", NEW m \in 0 .. Count - 1
          PROVE  m \in got' \/ Carried(c2s', m, k - 1)
      <4>1. k + 1 \in 1 .. Len(c2s) /\ c2s[k + 1].type = "COMPLETE" /\ (k + 1) - 1 = k
            /\ k \in 1 .. Len(c2s)
        BY <1>2, <3>3
      <4>2. m \in got \/ Carried(c2s, m, k)
        BY <2>1, <4>1, Zenon DEF Covered
      <4>3. Carried(c2s, m, k) => m \in got' \/ Carried(c2s', m, k - 1)
        BY <1>1, <4>1, CarriedTaken
      <4> QED
        BY <1>1, <4>2, <4>3
    <3> QED
      BY <1>1, <1>5, <1>6, <3>1, <3>2, <3>3, Zenon DEF Covered
  <2> QED
    BY <1>1, <1>7, <1>8, <1>9, <2>2, <2>3 DEF Filling
<1>10. CASE ~resume
  <2>1. Streamed /\ Ordered
    BY <1>1, <1>10 DEF Filling, Filled
  <2>2. next \in Nat
    BY DEF Basics, TypeOK
  <2>3. i = next
    <3>1. i = next + 1 - 1
      BY <1>1, <1>2, <1>4, <2>1, Zenon DEF Ordered
    <3> QED
      BY <2>2, <3>1
  <2>4. inorder' /\ next' = next + 1 /\ hasher' = Update(hasher, Piece(next))
    BY <1>4, <2>1, <2>3, Zenon DEF Writes, Streamed
  <2>5. Streamed'
    <3>1. hasher' = Upto(next + 1)
      BY <2>1, <2>2, <2>4, UptoFacts, Zenon DEF Streamed
    <3>2. got' = 0 .. next'- 1 /\ chunks' = next' /\ next' <= Count'
      BY <1>1, <1>4, <1>5, <2>1, <2>2, <2>3, <2>4 DEF Streamed
    <3>3. hasher' = Upto(next)'
      BY <1>1, <2>4, <3>1, Zenon DEF Upto, Whole
    <3> QED
      BY <2>4, <3>2, <3>3, Zenon DEF Streamed
  <2>6. Ordered'
    <3>1. cpc = "send" => next + Len(c2s) <= Count /\ todo = next + Len(c2s) .. Count - 1
      BY <2>1 DEF Ordered
    <3>2. cpc = "send" => next' + Len(c2s') <= Count' /\ todo' = next' + Len(c2s') .. Count' - 1
      <4>1. next' + Len(c2s') = next + Len(c2s)
        BY <1>2, <2>2, <2>4
      <4> QED
        BY <1>1, <1>5, <3>1, <4>1
    <3>3. ASSUME NEW k \in 1 .. Len(c2s')
          PROVE  /\ c2s'[k].type = "CHUNK" => c2s'[k].body.index = next' + k - 1
                 /\ c2s'[k].type = "COMPLETE" => next' + k - 1 = Count'
      <4>1. k + 1 \in 1 .. Len(c2s) /\ c2s'[k] = c2s[k + 1] /\ k \in Nat
        BY <1>2
      <4>2. next + (k + 1) - 1 = next' + k - 1
        BY <2>2, <2>4, <4>1
      <4>3. /\ c2s[k + 1].type = "CHUNK" => c2s[k + 1].body.index = next + (k + 1) - 1
            /\ c2s[k + 1].type = "COMPLETE" => next + (k + 1) - 1 = Count
        BY <2>1, <4>1, Zenon DEF Ordered
      <4> QED
        BY <1>5, <4>1, <4>2, <4>3, Zenon
    <3> QED
      BY <1>1, <1>6, <3>2, <3>3 DEF Ordered
  <2> QED
    BY <1>1, <1>7, <1>8, <1>10, <2>5, <2>6 DEF Filling
<1> QED
  BY <1>9, <1>10

LEMMA TurnsComplete ==
    ASSUME Basics, Genuine, Filling, Silent, Sendable(src), Elsewhere, Completes
    PROVE  Turns' /\ Filling' /\ Silent' /\ Consumes
<1> DEFINE f == Head(c2s)
<1>1. /\ pc = "chunks" /\ pc' = "verify" /\ link = "up" /\ c2s # <<>> /\ c2s' = Tail(c2s)
      /\ f.type = "COMPLETE" /\ final' = f.body.final_root_hash /\ src' = src
      /\ got' = got /\ resume' = resume /\ inorder' = inorder /\ hasher' = hasher
      /\ next' = next /\ chunks' = chunks /\ s2c' = s2c
  BY DEF Completes, Elsewhere
<1>2. f = c2s[1] /\ 1 \in 1 .. Len(c2s)
  BY <1>1, Taken
<1>3. Count \in Nat /\ Count' = Count /\ SourceManifest' = SourceManifest
      /\ (\A n : Upto(n)' = Upto(n)) /\ next \in Nat
  BY <1>1, CountCovers, SourceUnchanged DEF Basics, TypeOK
<1>4. final' = SourceManifest'.root_hash
  <2>1. f = CompleteOf(Pieces)
    BY <1>1, <1>2, Zenon DEF Genuine, GenuineFrame
  <2>2. f.body.final_root_hash = blake3(Concat(Pieces))
    BY <2>1 DEF CompleteOf, Frame
  <2> QED
    BY <1>1, <1>3, <2>2, SourceFields, Zenon
<1>5. Turns' /\ Silent' /\ Consumes
  BY <1>1, Zenon DEF Turns, Filled, Silent, Consumes
<1>6. CASE resume
  <2>1. ~inorder /\ Covered
    BY <1>1, <1>6 DEF Filling, Filled
  <2>2. ASSUME NEW i \in 0 .. Count - 1 PROVE i \in got
    <3>1. i \in got \/ Carried(c2s, i, 1 - 1)
      BY <1>1, <1>2, <2>1, Zenon DEF Covered
    <3> QED
      BY <3>1 DEF Carried
  <2>3. 0 .. Count' - 1 \subseteq got'
    BY <1>1, <1>3, <2>2
  <2> QED
    BY <1>1, <1>4, <1>5, <1>6, <2>1, <2>3 DEF Filling, Filled
<1>7. CASE ~resume
  <2>1. Streamed /\ Ordered
    BY <1>1, <1>7 DEF Filling, Filled
  <2>2. next = Count
    <3>1. next + 1 - 1 = Count
      BY <1>1, <1>2, <2>1, Zenon DEF Ordered
    <3> QED
      BY <1>3, <3>1
  <2>3. Streamed'
    BY <1>1, <1>3, <2>1, Zenon DEF Streamed, Upto, Whole
  <2> QED
    BY <1>1, <1>3, <1>4, <1>5, <1>7, <2>2, <2>3 DEF Filling, Filled
<1> QED
  BY <1>6, <1>7

LEMMA TurnsSame ==
    ASSUME Basics, Turns, Filling, Silent, Elsewhere, Records
    PROVE  Turns' /\ Filling' /\ Silent' /\ Consumes
<1>1. /\ pc = "save" /\ pc' = "chunks" /\ c2s' = c2s /\ s2c' = s2c /\ got' = got
      /\ resume' = resume /\ inorder' = inorder /\ hasher' = hasher /\ next' = next
      /\ chunks' = chunks /\ src' = src /\ cpc' = cpc /\ todo' = todo /\ link' = link
  BY DEF Records, Elsewhere
<1>2. Count' = Count
  BY <1>1, SourceUnchanged
<1>3. (Covered => Covered') /\ (Ordered => Ordered') /\ (Streamed => Streamed')
  BY <1>1, <1>2, Zenon DEF Covered, Ordered, Streamed, Upto, Whole
<1> QED
  BY <1>1, <1>3 DEF Turns, Filling, Filled, Silent, Consumes

LEMMA TurnsServer ==
    ASSUME Basics, Genuine, Turns, Filling, Silent, Once, Kept, Sendable(src),
           man # None => man = SourceManifest, Elsewhere, QuietServer
    PROVE  Genuine' /\ Turns' /\ Filling' /\ Silent'
<1>1. Turns' /\ Filling' /\ Silent' /\ Consumes
  <2>1. CASE Quits
    BY <2>1 DEF Quits, Turns, Filling, Filled
  <2>2. CASE Answers \/ Learns \/ Recalls
    BY <2>2, TurnsEarly
  <2>3. CASE Requests
    <3>1. man = SourceManifest
      BY <2>3 DEF Requests, Basics
    <3> QED
      BY <2>3, <3>1, TurnsRequest
  <2>4. CASE Writes
    BY <2>4, TurnsWrite
  <2>5. CASE Records
    BY <2>5, TurnsSame
  <2>6. CASE Completes
    BY <2>6, TurnsComplete
  <2> QED
    BY <2>1, <2>2, <2>3, <2>4, <2>5, <2>6 DEF QuietServer
<1>2. Genuine'
  BY <1>1, GenuineKept DEF Elsewhere
<1> QED
  BY <1>1, <1>2

\* Leaving without an ERROR.
LEMMA LeavesSilently ==
    ASSUME Basics, Silent, Consumes, NEW file, NEW f, f.type # "ERROR",
           Return(file, <<>>) \/ Return(file, <<f>>)
    PROVE  Quits
<1>1. s2c \in Seq(ServerFrames) /\ pc' = "idle"
  BY InFlightType DEF Return
<1>2. CASE Return(file, <<>>)
  <2>1. s2c' = s2c
    BY <1>1, <1>2 DEF Return
  <2> QED
    BY <1>1, <2>1, Zenon DEF Quits, Silent
<1>3. CASE Return(file, <<f>>)
  <2>1. s2c' = Append(s2c, f)
    BY <1>1, <1>3 DEF Return
  <2> QED
    BY <1>1, <2>1, SilentSent DEF Quits
<1> QED
  BY <1>2, <1>3

LEMMA RefusesSilently ==
    ASSUME Basics, Silent, Consumes, Refuse("drop")
    PROVE  Quits
<1>1. PICK file : Return(file, <<>>)
  BY Zenon DEF Refuse
<1>2. Frame("ACK", 0).type # "ERROR"
  BY DEF Frame
<1> QED
  BY <1>1, <1>2, LeavesSilently, ZenonT(40)

LEMMA ReceivesQuietly ==
    ASSUME Basics, Genuine, Turns, Filling, Silent, SameManifest, Sendable(src),
           faults' = 0, ServerRecv
    PROVE  QuietServer
<1> DEFINE f == Head(c2s)
<1>1. link = "up" /\ c2s # <<>> /\ Receive(f) /\ c2s' = Tail(c2s)
  BY DEF ServerRecv
<1>2. f = c2s[1] /\ 1 \in 1 .. Len(c2s) /\ Consumes
  BY <1>1, Taken, ZenonT(40) DEF Consumes
<1>3. f \in HonestFrames
  BY <1>2, InFlightType
<1>4. f # None
  BY <1>3, TransferAssumption, ReceiverAssumption, NoneAssumption, Zenon
<1> HIDE DEF f
<1>5. HelloVerdict(f) \in {"drop", "ok"} /\ ManifestVerdict(f) \in {"drop", "ok"}
  BY <1>2, <1>3, HelloIsGood, ManifestIsGood, Zenon
<1>6. pc = "chunks" => /\ f.type \in {"CHUNK", "COMPLETE"} /\ GenuineFrame(f)
                       /\ f.type = "CHUNK" => ChunkVerdict(f) = "chunk"
                       /\ f.type = "COMPLETE" => ChunkVerdict(f) = "complete"
  <2> SUFFICES ASSUME pc = "chunks"
               PROVE  /\ f.type \in {"CHUNK", "COMPLETE"} /\ GenuineFrame(f)
                      /\ f.type = "CHUNK" => ChunkVerdict(f) = "chunk"
                      /\ f.type = "COMPLETE" => ChunkVerdict(f) = "complete"
    OBVIOUS
  <2>1. f.type \in {"CHUNK", "COMPLETE"} /\ GenuineFrame(f)
    BY <1>2 DEF Turns, Filled, Genuine
  <2>2. man = SourceManifest
    BY DEF Basics, SameManifest
  <2> QED
    BY <1>4, <2>1, <2>2, ChunkIsGood
<1>7. CASE RefuseHello(f) \/ RefuseManifest(f)
  <2>1. Refuse("drop")
    BY <1>5, <1>7, Zenon DEF RefuseHello, RefuseManifest
  <2> QED
    BY <1>2, <2>1, RefusesSilently DEF QuietServer
<1>8. ~RefuseChunk(f)
  BY <1>6 DEF RefuseChunk
<1>9. CASE AnswerHello(f)
  BY <1>1, <1>9, Zenon DEF AnswerHello, Answers, QuietServer
<1>10. CASE TakeManifest(f)
  BY <1>1, <1>10, Zenon DEF TakeManifest, Learns, QuietServer
<1>11. CASE TakeComplete(f)
  <2>1. f.type = "COMPLETE"
    BY <1>6, <1>11 DEF TakeComplete
  <2> QED
    BY <1>1, <1>11, <2>1, Zenon DEF TakeComplete, Completes, QuietServer, progress, f
<1>12. ASSUME NEW mode \in WriteModes, WriteChunk(f, mode) PROVE QuietServer
  <2>1. f.type = "CHUNK"
    BY <1>6, <1>12 DEF WriteChunk
  <2>2. Writes
    BY <1>1, <1>12, <2>1, Zenon DEF WriteChunk, Writes, f
  <2> QED
    BY <2>2 DEF QuietServer
<1>13. ~WriteFails(f)
  BY Faultless DEF WriteFails
<1> QED
  BY <1>1, <1>7, <1>8, <1>9, <1>10, <1>11, <1>12, <1>13, Zenon DEF Receive

LEMMA WorksQuietly ==
    ASSUME Basics, Filling, Silent, Kept, SameManifest, Sendable(src), faults' = 0, ServerWork
    PROVE  QuietServer
<1>1. Work /\ c2s' = c2s /\ Consumes /\ ~Fault /\ pc # "rename2"
  BY Faultless DEF ServerWork, wire, Consumes, Kept
<1>2. CASE LoadResume \/ LoadFresh
  BY <1>1, <1>2, Zenon DEF LoadResume, LoadFresh, Recalls, QuietServer
<1>3. ASSUME NEW reuse \in BOOLEAN, OpenSink(reuse) PROVE QuietServer
  BY <1>1, <1>3, Zenon DEF OpenSink, Requests, QuietServer
<1>4. CASE SaveState
  BY <1>1, <1>4, Zenon DEF SaveState, Records, QuietServer, session, progress
<1>5. CASE PassTransfer \/ Finalize \/ Cleanup
  <2>1. s2c' = s2c /\ pc' \in {"finalize", "cleanup", "ack"}
    BY <1>5, Zenon DEF PassTransfer, Finalize, Cleanup
  <2>2. Silent'
    BY <2>1, Zenon DEF Silent
  <2> QED
    BY <1>1, <2>1, <2>2 DEF Quits, QuietServer
<1>6. ~RefuseTransfer
  <2> SUFFICES ASSUME RefuseTransfer PROVE FALSE
    OBVIOUS
  <2>1. pc = "verify" /\ VerifyVerdict # "ok"
    BY DEF RefuseTransfer
  <2>2. man = SourceManifest
    BY <2>1 DEF Basics, SameManifest
  <2> QED
    BY <2>1, <2>2, TransferIsGood
<1>7. CASE SendAck
  <2>1. Return(partial, <<Frame("ACK", [last_index |-> LastIndex])>>)
    BY <1>7 DEF SendAck
  <2>2. Frame("ACK", [last_index |-> LastIndex]).type # "ERROR"
    BY DEF Frame
  <2>3. Quits
    BY <1>1, <2>1, <2>2, LeavesSilently
  <2> QED
    BY <2>3 DEF QuietServer
<1>8. ~(OpenFails \/ FlushFails \/ FinalizeRemoves \/ RenameAgain \/ RenameFails)
  BY <1>1, Zenon DEF OpenFails, FlushFails, FinalizeRemoves, RenameAgain, RenameFails
<1> QED
  BY <1>1, <1>2, <1>3, <1>4, <1>5, <1>6, <1>7, <1>8, Zenon DEF Work

LEMMA ServesQuietly ==
    ASSUME Basics, Genuine, Turns, Filling, Silent, Kept, SameManifest, Sendable(src),
           faults' = 0, kills' = 0, ServerStep \/ ServerKilled
    PROVE  QuietServer
<1>1. CASE ServerRecv
  BY <1>1, ReceivesQuietly
<1>2. CASE ServerWork
  BY <1>2, WorksQuietly
<1>3. CASE ServerRecvFails
  <2>1. Receive(None) /\ Consumes
    BY <1>3 DEF ServerRecvFails, wire, Consumes
  <2>2. Refuse("drop")
    BY <2>1, Zenon DEF Receive, AnswerHello, HelloVerdict, TakeManifest, ManifestVerdict, IsFrame,
           TakeComplete, WriteChunk, WriteFails, ChunkVerdict, RefuseHello, RefuseManifest,
           RefuseChunk
  <2> QED
    BY <2>1, <2>2, RefusesSilently DEF QuietServer
<1>4. CASE ServerSendFails
  <2>1. PICK file : Return(file, <<>>)
    BY <1>4, Zenon DEF ServerSendFails, SendFails, OpenUnsent, AckUnsent
  <2>2. Consumes /\ Frame("ACK", 0).type # "ERROR"
    BY <1>4 DEF ServerSendFails, wire, Consumes, Frame
  <2>3. Quits
    BY <2>1, <2>2, LeavesSilently, ZenonT(40)
  <2> QED
    BY <2>3 DEF QuietServer
<1>5. CASE ServerRestart
  <2>1. pc' = "idle" /\ s2c' = s2c /\ c2s' = c2s
    BY <1>5 DEF ServerRestart, Restart, wire
  <2>2. Silent'
    BY <2>1, Zenon DEF Silent
  <2> QED
    BY <2>1, <2>2 DEF Quits, QuietServer, Consumes
<1>6. ~ServerKilled
  <2>1. ServerKilled => \E file : Die(file)
    BY Zenon DEF ServerKilled, Kill, KillInWrite
  <2>2. kills \in Nat
    BY DEF Basics, TypeOK
  <2> QED
    BY <2>1, <2>2 DEF Die
<1> QED
  BY <1>1, <1>2, <1>3, <1>4, <1>5, <1>6 DEF ServerStep

-----------------------------------------------------------------------------
(***************************************************************************)
(* The steps of the client and of the link, in the same terms.             *)
(***************************************************************************)
Dials ==
    /\ pc' = "hello" /\ cpc' = "hello" /\ s2c' = <<>> /\ c2s' = <<Hello>>

Hangs == cpc' \in {"ok", "failed"} /\ UNCHANGED <<c2s, link>>

Greeted == cpc = "hello" /\ cpc' = "hash" /\ s2c # <<>> /\ UNCHANGED <<c2s, link>>

Idles == UNCHANGED <<cpc, todo, c2s, link>>

Declares ==
    /\ cpc = "hash" /\ cpc' = "req" /\ UNCHANGED link
    /\ \E f : f.type = "MANIFEST" /\ Sends(f)

Asks ==
    /\ cpc = "req" /\ cpc' = "send" /\ UNCHANGED <<c2s, link>>
    /\ \E j \in 1 .. Len(s2c) : s2c[j].type = "REQ_CHUNKS" /\ todo' = s2c[j].body.indices

Feeds ==
    /\ cpc = "send" /\ cpc' = "send" /\ UNCHANGED link
    /\ \E i \in todo : /\ i = Min(todo) /\ todo' = todo \ {i} /\ i \in 0 .. Count - 1
                       /\ Sends(ChunkOf(i, Piece(i), Piece(i)))

Ends ==
    /\ cpc = "send" /\ cpc' = "ack" /\ todo = {} /\ UNCHANGED link
    /\ Sends(CompleteOf(Pieces))

Drops == c2s' = <<>> /\ link' = "broken" /\ UNCHANGED <<cpc, todo>>

QuietClient == Hangs \/ Greeted \/ Idles \/ Declares \/ Asks \/ Feeds \/ Ends \/ Drops

\* What the client's steps leave alone.
Untouched == UNCHANGED <<src, pc, s2c, got, resume, inorder, hasher, next, chunks, final>>

LEMMA TurnsDial ==
    ASSUME Dials
    PROVE  Genuine' /\ Turns' /\ Filling' /\ Silent'
<1>1. Len(c2s') = 1 /\ c2s'[1].type = "HELLO" /\ s2c' = <<>>
  BY DEF Dials, Hello, Frame
<1>2. Genuine'
  BY <1>1 DEF Genuine, GenuineFrame
<1>3. Turns' /\ Filling' /\ Silent'
  BY <1>1 DEF Dials, Turns, Filling, Filled, Silent
<1> QED
  BY <1>2, <1>3

\* Steps that send nothing.
LEMMA TurnsWait ==
    ASSUME Basics, Turns, Filling, Silent, Once, Sendable(src), Untouched,
           Hangs \/ Greeted \/ Idles \/ Drops \/ Asks
    PROVE  Turns' /\ Filling' /\ Silent' /\ Consumes
<1>1. /\ pc' = pc /\ s2c' = s2c /\ got' = got /\ resume' = resume /\ inorder' = inorder
      /\ hasher' = hasher /\ next' = next /\ chunks' = chunks /\ final' = final /\ src' = src
  BY DEF Untouched
<1>2. Count' = Count /\ Count \in Nat /\ SourceManifest' = SourceManifest /\ next \in Nat
  BY <1>1, SourceUnchanged, CountCovers DEF Basics, TypeOK
<1>3. Silent'
  BY <1>1, Zenon DEF Silent
<1>4. Streamed => Streamed'
  BY <1>1, <1>2, Zenon DEF Streamed, Upto, Whole
<1>5. c2s' = c2s \/ c2s' = <<>>
  BY DEF Hangs, Greeted, Idles, Drops, Asks
<1>6. Consumes
  BY <1>5 DEF Consumes
<1>7. ASSUME Turns', link' = "up" => /\ pc \in Filled /\ resume => Covered'
                                     /\ pc \in Filled /\ ~resume => Ordered'
      PROVE  Turns' /\ Filling' /\ Silent' /\ Consumes
  BY <1>1, <1>2, <1>3, <1>4, <1>6, <1>7 DEF Filling
<1>8. CASE Hangs
  <2>1. cpc' \in {"ok", "failed"} /\ c2s' = c2s /\ link' = link
    BY <1>8 DEF Hangs
  <2>2. Turns'
    BY <1>1, <2>1 DEF Turns
  <2>3. (Covered => Covered') /\ (Ordered => Ordered')
    BY <1>1, <1>2, <2>1 DEF Covered, Ordered
  <2> QED
    BY <1>7, <2>1, <2>2, <2>3, Zenon DEF Filling
<1>9. CASE Greeted
  <2>1. cpc = "hello" /\ cpc' = "hash" /\ c2s' = c2s /\ s2c # <<>>
    BY <1>9 DEF Greeted
  <2>2. Turns' /\ pc \notin Filled
    BY <1>1, <2>1 DEF Turns, Filled
  <2> QED
    BY <1>7, <2>2
<1>10. CASE Idles
  <2>1. cpc' = cpc /\ c2s' = c2s /\ link' = link /\ todo' = todo
    BY <1>10 DEF Idles
  <2>2. Turns'
    BY <1>1, <2>1, Zenon DEF Turns
  <2>3. (Covered => Covered') /\ (Ordered => Ordered')
    BY <1>1, <1>2, <2>1, Zenon DEF Covered, Ordered
  <2> QED
    BY <1>7, <2>1, <2>2, <2>3, Zenon DEF Filling
<1>11. CASE Drops
  <2>1. cpc' = cpc /\ c2s' = <<>> /\ link' = "broken"
    BY <1>11 DEF Drops
  <2>2. Turns'
    BY <1>1, <2>1 DEF Turns
  <2> QED
    BY <1>7, <2>1, <2>2
<1>12. CASE Asks
  <2>1. PICK j \in 1 .. Len(s2c) : s2c[j].type = "REQ_CHUNKS" /\ todo' = s2c[j].body.indices
    BY <1>12 DEF Asks
  <2>2. cpc = "req" /\ cpc' = "send" /\ c2s' = c2s /\ link' = link
    BY <1>12 DEF Asks
  <2>3. pc \notin {"hello", "manifest", "load", "open"}
    BY <2>1 DEF Once, NoRequest
  <2>4. Turns'
    BY <1>1, <2>2, <2>3 DEF Turns
  <2>5. pc \in Filled => c2s' = <<>>
    BY <2>2 DEF Turns
  <2>6. ASSUME pc \in Filled, Covered PROVE Covered'
    <3>1. 0 .. Count - 1 \subseteq todo' \cup got
      BY <2>1, <2>2, <2>6 DEF Covered
    <3> QED
      BY <1>1, <1>2, <2>2, <2>5, <2>6, <3>1 DEF Covered
  <2>7. ASSUME pc \in Filled, Streamed, Ordered PROVE Ordered'
    <3>1. todo' = next .. Count - 1 /\ next <= Count
      BY <2>1, <2>2, <2>7 DEF Ordered, Streamed
    <3>2. c2s' = <<>> /\ Len(c2s') = 0 /\ \A k \in 1 .. Len(c2s') : FALSE
      BY <2>5, <2>7
    <3>3. next' + Len(c2s') = next /\ Count' = Count
      BY <1>1, <1>2, <3>2
    <3>4. cpc' = "send"
      BY <2>2
    <3> QED
      BY <3>1, <3>2, <3>3, <3>4, Zenon DEF Ordered
  <2> QED
    BY <1>7, <2>2, <2>4, <2>6, <2>7, Zenon DEF Filling
<1> QED
  BY <1>8, <1>9, <1>10, <1>11, <1>12

LEMMA TurnsDeclare ==
    ASSUME Basics, Genuine, Turns, Filling, Silent, Untouched, Declares
    PROVE  Genuine' /\ Turns' /\ Filling' /\ Silent'
<1>1. pc' = pc /\ s2c' = s2c /\ got' = got /\ resume' = resume /\ inorder' = inorder
      /\ hasher' = hasher /\ next' = next /\ chunks' = chunks /\ final' = final /\ src' = src
  BY DEF Untouched
<1>2. PICK f : f.type = "MANIFEST" /\ Sends(f)
  BY DEF Declares
<1>3. cpc = "hash" /\ cpc' = "req"
  BY DEF Declares
<1>4. Genuine'
  <2>1. GenuineFrame(f)
    BY <1>2 DEF GenuineFrame
  <2> QED
    BY <1>1, <1>2, <2>1, GenuineSent
<1>5. Len(c2s') = Len(c2s) + 1
  BY <1>2, Appended, InFlightType
<1>6. pc \notin {"hello", "load", "open", "chunks", "save"} /\ (pc = "manifest" => c2s = <<>>)
  BY <1>3 DEF Turns, Filled
<1>7. Turns'
  BY <1>1, <1>3, <1>5, <1>6 DEF Turns, Filled
<1>8. Streamed => Streamed'
  BY <1>1, Zenon DEF Streamed, Upto, Whole, Count
<1>9. Count' = Count /\ SourceManifest' = SourceManifest
  BY <1>1, SourceUnchanged
<1>10. Filling' /\ Silent'
  BY <1>1, <1>6, <1>8, <1>9 DEF Filling, Filled, Silent
<1> QED
  BY <1>4, <1>7, <1>10

\* One chunk, or COMPLETE, more in flight.
LEMMA TurnsSend ==
    ASSUME Basics, Genuine, Turns, Filling, Silent, Once, Sendable(src), Untouched,
           cpc = "send", cpc' \in {"send", "ack"}, link' = link,
           NEW f, Sends(f), GenuineFrame(f), f.type \in {"CHUNK", "COMPLETE"},
           pc \in Filled /\ resume /\ Covered => Covered',
           pc \in Filled /\ Streamed /\ Ordered => Ordered'
    PROVE  Genuine' /\ Turns' /\ Filling' /\ Silent'
<1>1. pc' = pc /\ s2c' = s2c /\ got' = got /\ resume' = resume /\ inorder' = inorder
      /\ hasher' = hasher /\ next' = next /\ chunks' = chunks /\ final' = final /\ src' = src
  BY DEF Untouched
<1>2. /\ Len(c2s') = Len(c2s) + 1 /\ Len(c2s) \in Nat
      /\ \A k \in 1 .. Len(c2s) : c2s'[k] = c2s[k]
      /\ c2s'[Len(c2s) + 1] = f
      /\ \A k \in 1 .. Len(c2s') : k \in 1 .. Len(c2s) \/ k = Len(c2s) + 1
  BY Appended, InFlightType
<1>3. Genuine'
  BY <1>1, GenuineSent
<1>4. pc \notin {"hello", "manifest", "load", "open"}
  BY DEF Turns
<1>5. pc \in Filled => \A k \in 1 .. Len(c2s') : c2s'[k].type \in {"CHUNK", "COMPLETE"}
  BY <1>2, Zenon DEF Turns
<1>6. Turns'
  BY <1>1, <1>4, <1>5 DEF Turns
<1>7. Streamed => Streamed'
  BY <1>1, Zenon DEF Streamed, Upto, Whole, Count
<1>8. Count' = Count /\ SourceManifest' = SourceManifest
  BY <1>1, SourceUnchanged
<1>9. Filling'
  BY <1>1, <1>7, <1>8 DEF Filling
<1>10. Silent'
  BY <1>1, Zenon DEF Silent
<1> QED
  BY <1>3, <1>6, <1>9, <1>10

\* What was carried is carried still, and so is the chunk just sent.
LEMMA CarriedSent ==
    ASSUME Basics, NEW f, Sends(f)
    PROVE  /\ \A i : \A k \in 0 .. Len(c2s) : Carried(c2s, i, k) => Carried(c2s', i, k)
           /\ \A i : Carried(c2s, i, Len(c2s)) => Carried(c2s', i, Len(c2s'))
           /\ f.type = "CHUNK" => Carried(c2s', f.body.index, Len(c2s'))
<1>1. /\ Len(c2s') = Len(c2s) + 1 /\ Len(c2s) \in Nat
      /\ \A k \in 1 .. Len(c2s) : c2s'[k] = c2s[k]
      /\ c2s'[Len(c2s) + 1] = f
  BY Appended, InFlightType
<1>2. ASSUME NEW i, NEW k \in 0 .. Len(c2s), Carried(c2s, i, k)
      PROVE  Carried(c2s', i, k) /\ Carried(c2s', i, Len(c2s'))
  <2>1. PICK l \in 1 .. k : c2s[l].type = "CHUNK" /\ c2s[l].body.index = i
    BY <1>2 DEF Carried
  <2>2. l \in 1 .. Len(c2s) /\ l \in 1 .. Len(c2s')
    BY <1>1, <2>1
  <2> QED
    BY <1>1, <2>1, <2>2, Zenon DEF Carried
<1>3. Len(c2s) \in 0 .. Len(c2s) /\ Len(c2s) + 1 \in 1 .. Len(c2s')
  BY <1>1
<1>4. f.type = "CHUNK" => Carried(c2s', f.body.index, Len(c2s'))
  BY <1>1, <1>3, Zenon DEF Carried
<1> QED
  BY <1>2, <1>3, <1>4

LEMMA TurnsFeed ==
    ASSUME Basics, Genuine, Turns, Filling, Silent, Once, Sendable(src), Untouched, Feeds
    PROVE  Genuine' /\ Turns' /\ Filling' /\ Silent'
<1>1. /\ got' = got /\ resume' = resume /\ next' = next /\ s2c' = s2c
      /\ cpc = "send" /\ cpc' = "send" /\ link' = link
  BY DEF Untouched, Feeds
<1>2. PICK i \in todo : /\ i = Min(todo) /\ todo' = todo \ {i} /\ i \in 0 .. Count - 1
                        /\ Sends(ChunkOf(i, Piece(i), Piece(i)))
  BY DEF Feeds
<1> DEFINE f == ChunkOf(i, Piece(i), Piece(i))
<1>3. f.type = "CHUNK" /\ f.body.index = i
  BY DEF ChunkOf, Frame
<1>4. GenuineFrame(f)
  BY <1>2, <1>3, ZenonT(40) DEF GenuineFrame
<1>5. Sends(f)
  BY <1>2
<1> HIDE DEF f
<1>6. /\ Len(c2s') = Len(c2s) + 1 /\ Len(c2s) \in Nat
      /\ \A k \in 1 .. Len(c2s) : c2s'[k] = c2s[k]
      /\ c2s'[Len(c2s) + 1] = f
      /\ \A k \in 1 .. Len(c2s') : k \in 1 .. Len(c2s) \/ k = Len(c2s) + 1
  BY <1>5, Appended, InFlightType
<1>7. Count' = Count /\ Count \in Nat /\ next \in Nat
  BY SourceUnchanged, CountCovers, ZenonT(40) DEF Untouched, Basics, TypeOK
<1>8. ASSUME Covered PROVE Covered'
  <2>1. \A k \in 1 .. Len(c2s') : c2s'[k].type # "COMPLETE"
    <3>1. \A k \in 1 .. Len(c2s) : c2s[k].type # "COMPLETE"
      BY <1>1, <1>8, ZenonT(40) DEF Covered
    <3>2. f.type # "COMPLETE"
      BY <1>3
    <3> QED
      BY <1>6, <3>1, <3>2, Zenon
  <2>2. ASSUME NEW m \in 0 .. Count - 1 PROVE m \in got' \cup todo' \/ Carried(c2s', m, Len(c2s'))
    <3>1. m \in got \cup todo \/ Carried(c2s, m, Len(c2s))
      BY <1>1, <1>8, ZenonT(40) DEF Covered
    <3>2. Carried(c2s, m, Len(c2s)) => Carried(c2s', m, Len(c2s'))
      BY <1>5, CarriedSent
    <3>3. Carried(c2s', i, Len(c2s'))
      BY <1>3, <1>5, CarriedSent
    <3> QED
      BY <1>1, <1>2, <3>1, <3>2, <3>3
  <2>3. cpc' # "req"
    BY <1>1
  <2> QED
    BY <1>7, <2>1, <2>2, <2>3, Zenon DEF Covered
<1>9. ASSUME Ordered PROVE Ordered'
  <2> DEFINE n == next + Len(c2s)
  <2>1. n <= Count /\ todo = n .. Count - 1 /\ n \in Nat
    BY <1>1, <1>6, <1>7, <1>9 DEF Ordered
  <2>2. n \in todo /\ n < Count
    BY <1>2, <1>7, <2>1
  <2>3. Min(todo) = n
    <3>1. todo \in SUBSET Int /\ \A y \in todo : n <= y
      BY <2>1
    <3> HIDE DEF n
    <3> QED
      BY <2>2, <3>1, MinIs
  <2>4. i = n
    BY <1>2, <2>3, Zenon
  <2>5. next' + Len(c2s') = n + 1
    BY <1>1, <1>6, <1>7
  <2>6. todo' = n + 1 .. Count - 1 /\ n + 1 <= Count
    BY <1>2, <1>7, <2>1, <2>2, <2>4
  <2>7. ASSUME NEW k \in 1 .. Len(c2s')
        PROVE  /\ c2s'[k].type = "CHUNK" => c2s'[k].body.index = next' + k - 1
               /\ c2s'[k].type = "COMPLETE" => next' + k - 1 = Count'
    <3>1. CASE k \in 1 .. Len(c2s)
      BY <1>1, <1>6, <1>7, <1>9, <3>1, Zenon DEF Ordered
    <3>2. CASE k = Len(c2s) + 1
      <4>1. next' + k - 1 = n
        BY <1>1, <1>6, <1>7, <3>2
      <4>2. c2s'[k] = f
        BY <1>6, <3>2
      <4> QED
        BY <1>3, <2>4, <4>1, <4>2
    <3> QED
      BY <1>6, <3>1, <3>2
  <2> QED
    BY <1>1, <1>7, <2>5, <2>6, <2>7 DEF Ordered
<1> QED
  BY <1>1, <1>3, <1>4, <1>5, <1>8, <1>9, TurnsSend

LEMMA TurnsEnd ==
    ASSUME Basics, Genuine, Turns, Filling, Silent, Once, Sendable(src), Untouched, Ends
    PROVE  Genuine' /\ Turns' /\ Filling' /\ Silent'
<1>1. /\ got' = got /\ resume' = resume /\ next' = next /\ s2c' = s2c /\ todo = {}
      /\ cpc = "send" /\ cpc' = "ack" /\ link' = link
  BY DEF Untouched, Ends
<1> DEFINE f == CompleteOf(Pieces)
<1>2. f.type = "COMPLETE"
  BY DEF CompleteOf, Frame
<1>3. GenuineFrame(f) /\ Sends(f)
  BY <1>2 DEF GenuineFrame, Ends
<1> HIDE DEF f
<1>4. /\ Len(c2s') = Len(c2s) + 1 /\ Len(c2s) \in Nat
      /\ \A k \in 1 .. Len(c2s) : c2s'[k] = c2s[k]
      /\ c2s'[Len(c2s) + 1] = f
      /\ \A k \in 1 .. Len(c2s') : k \in 1 .. Len(c2s) \/ k = Len(c2s) + 1
  BY <1>3, Appended, InFlightType
<1>5. Count' = Count /\ Count \in Nat /\ next \in Nat
  BY SourceUnchanged, CountCovers DEF Untouched, Basics, TypeOK
<1>6. ASSUME Covered PROVE Covered'
  <2>1. ASSUME NEW k \in 1 .. Len(c2s'), c2s'[k].type = "COMPLETE", NEW m \in 0 .. Count - 1
        PROVE  m \in got' \/ Carried(c2s', m, k - 1)
    <3>1. k = Len(c2s) + 1
      BY <1>1, <1>4, <1>6, <2>1, Zenon DEF Covered
    <3>2. k - 1 = Len(c2s) /\ Len(c2s) \in 0 .. Len(c2s)
      BY <1>4, <3>1
    <3>3. m \in got \/ Carried(c2s, m, Len(c2s))
      BY <1>1, <1>6 DEF Covered
    <3> QED
      BY <1>1, <1>3, <3>2, <3>3, CarriedSent
  <2> QED
    BY <1>1, <1>5, <2>1, ZenonT(40) DEF Covered
<1>7. ASSUME Ordered PROVE Ordered'
  <2>1. next + Len(c2s) = Count
    <3> DEFINE n == next + Len(c2s)
    <3>1. n <= Count /\ n .. Count - 1 = {}
      BY <1>1, <1>7 DEF Ordered
    <3>2. n \in Int
      BY <1>4, <1>5
    <3> HIDE DEF n
    <3>3. n \notin n .. Count - 1
      BY <3>1
    <3>4. n = Count
      BY <1>5, <3>1, <3>2, <3>3
    <3> QED
      BY <3>4 DEF n
  <2>2. ASSUME NEW k \in 1 .. Len(c2s')
        PROVE  /\ c2s'[k].type = "CHUNK" => c2s'[k].body.index = next' + k - 1
               /\ c2s'[k].type = "COMPLETE" => next' + k - 1 = Count'
    <3>1. CASE k \in 1 .. Len(c2s)
      BY <1>1, <1>4, <1>5, <1>7, <3>1, Zenon DEF Ordered
    <3>2. CASE k = Len(c2s) + 1
      BY <1>1, <1>2, <1>4, <1>5, <2>1, <3>2
    <3> QED
      BY <1>4, <3>1, <3>2
  <2> QED
    BY <1>1, <2>2 DEF Ordered
<1> QED
  BY <1>1, <1>2, <1>3, <1>6, <1>7, TurnsSend

LEMMA TurnsClient ==
    ASSUME Basics, Genuine, Turns, Filling, Silent, Once, Sendable(src), Untouched, QuietClient
    PROVE  Genuine' /\ Turns' /\ Filling' /\ Silent'
<1>1. CASE Hangs \/ Greeted \/ Idles \/ Drops \/ Asks
  BY <1>1, TurnsWait, GenuineKept DEF Untouched
<1> QED
  BY <1>1, TurnsDeclare, TurnsFeed, TurnsEnd DEF QuietClient

LEMMA TalksQuietly ==
    ASSUME Basics, Stable, edits = 0, Sendable(src), src' = src,
           ClientStep \/ LinkDrops \/ SenderKilled \/ UNCHANGED tvars
    PROVE  Dials \/ (QuietClient /\ Untouched)
<1>1. CASE Connect
  BY <1>1, Zenon DEF Connect, Accept, Dials
<1>2. CASE ~Connect
  <2>1. UNCHANGED vars
    BY <1>2, Zenon DEF ClientStep, ConnectRefused, RecvHello, HashChunk, SendManifest, RecvReqChunks,
       SendChunk, SendComplete, RecvAck, ClientFails, LinkDrops, SenderKilled, tvars
  <2>2. Untouched
    BY <2>1, Zenon DEF Untouched, vars, disk, session, progress, counters
  <2>3. CASE \/ ConnectRefused \/ RecvAck \/ ClientFails \/ SenderKilled
             \/ RecvHello /\ ClientReturn("failed")
             \/ RecvReqChunks /\ ClientReturn("failed")
    <3>1. UNCHANGED <<c2s, link>> /\ cpc' \in {"ok", "failed"}
      BY <2>3, Zenon DEF ConnectRefused, RecvAck, ClientFails, SenderKilled, RecvHello, RecvReqChunks,
         ClientReturn, wire
    <3> QED
      BY <2>2, <3>1 DEF QuietClient, Hangs
  <2>4. CASE RecvHello /\ ~ClientReturn("failed")
    <3>1. cpc = "hello" /\ cpc' = "hash" /\ UNCHANGED <<c2s, link>> /\ Arrived
      BY <2>4, Zenon DEF RecvHello, wire
    <3>2. s2c # <<>>
      BY <3>1 DEF Arrived, Basics, TransferTypeOK
    <3> QED
      BY <2>2, <3>1, <3>2 DEF QuietClient, Greeted
  <2>5. CASE HashChunk
    BY <2>2, <2>5, Zenon DEF HashChunk, wire, QuietClient, Idles
  <2>6. CASE SendManifest
    <3> DEFINE f == ManifestOf(size, hashed)
    <3>1. cpc = "hash" /\ cpc' = "req" /\ UNCHANGED link /\ Sends(f)
      BY <2>6, Zenon DEF SendManifest, Send, Sends
    <3>2. f.type = "MANIFEST"
      BY DEF ManifestOf, Frame
    <3> HIDE DEF f
    <3> QED
      BY <2>2, <3>1, <3>2, Zenon DEF QuietClient, Declares
  <2>7. CASE RecvReqChunks /\ ~ClientReturn("failed")
    <3>1. /\ cpc = "req" /\ cpc' = "send" /\ UNCHANGED <<c2s, link>> /\ Arrived
          /\ Incoming.type = "REQ_CHUNKS" /\ todo' = Incoming.body.indices
      BY <2>7, Zenon DEF RecvReqChunks, wire
    <3>2. PICK j \in 1 .. Len(s2c) : Incoming = s2c[j]
      BY <3>1, IncomingIs
    <3>3. s2c[j].type = "REQ_CHUNKS" /\ todo' = s2c[j].body.indices
      BY <3>1, <3>2, Zenon
    <3> QED
      BY <2>2, <3>1, <3>3, Zenon DEF QuietClient, Asks
  <2>8. cpc = "send" => /\ size = Whole /\ hashed \in Seq(Files) /\ Len(hashed) = Count
                        /\ \A j \in 1 .. Len(hashed) : hashed[j] = Piece(j - 1)
    BY DEF Stable, Basics, ClientGone, Whole, Count, Piece
  <2>9. ASSUME NEW i \in todo, SendChunk(i) PROVE QuietClient /\ Untouched
    <3>1. /\ cpc = "send" /\ cpc' = "send" /\ i = Min(todo) /\ todo' = todo \ {i}
          /\ UNCHANGED link /\ Sends(ChunkOf(i, hashed[i + 1], ReadAt(src, size, i)))
      BY <2>9, Zenon DEF SendChunk, Send, Sends
    <3>2. i \in 0 .. Count - 1 /\ Count \in Nat
      BY <2>8, <2>9, <3>1, CountCovers DEF Basics, TransferTypeOK, Count
    <3>3. i + 1 \in 1 .. Len(hashed) /\ (i + 1) - 1 = i
      BY <2>8, <3>1, <3>2
    <3>4. hashed[i + 1] = Piece(i) /\ ReadAt(src, size, i) = Piece(i)
      BY <2>8, <3>1, <3>3, Zenon DEF Piece
    <3>5. Sends(ChunkOf(i, Piece(i), Piece(i)))
      BY <3>1, <3>4, Zenon
    <3> QED
      BY <2>2, <2>9, <3>1, <3>2, <3>5, Zenon DEF QuietClient, Feeds
  <2>10. CASE SendComplete
    <3>1. cpc = "send" /\ cpc' = "ack" /\ todo = {} /\ UNCHANGED link /\ Sends(CompleteOf(hashed))
      BY <2>10, Zenon DEF SendComplete, Send, Sends
    <3>2. hashed = Pieces
      <4>1. Pieces \in Seq(Files) /\ Len(Pieces) = Count /\ Count \in Nat
        BY SourceFields, CountCovers, ZenonT(40)
      <4>2. \A j \in 1 .. Count : Pieces[j] = Piece(j - 1)
        BY DEF Pieces
      <4> HIDE DEF Pieces
      <4> QED
        BY <2>8, <3>1, <4>1, <4>2
    <3> QED
      BY <2>2, <3>1, <3>2, Zenon DEF QuietClient, Ends
  <2>11. CASE LinkDrops \/ UNCHANGED tvars
    BY <2>2, <2>11, Zenon DEF LinkDrops, tvars, client, wire, QuietClient, Drops, Idles
  <2> QED
    BY <1>2, <2>3, <2>4, <2>5, <2>6, <2>7, <2>9, <2>10, <2>11, Zenon DEF ClientStep
<1> QED
  BY <1>1, <1>2

\* The step of the induction: a step that leaves the premises of NoSpuriousError
\* true found them true.
LEMMA ErrorInvStep ==
    ASSUME Basics, Stable, CountInv, ErrorInv, kills = 0 /\ faults = 0 => Kept,
           [TransferNext]_tvars
    PROVE  ErrorInv'
<1> SUFFICES ASSUME Calm' PROVE (Genuine /\ Turns /\ Filling /\ Silent)'
  BY DEF ErrorInv
<1>1. kills' = 0 /\ faults' = 0 /\ edits' = 0
  BY DEF Calm
<1>2. edits = 0 /\ faults = 0 /\ src' = src
  BY <1>1, QuietSteps
<1>3. kills = 0
  <2>1. kills \in Nat /\ (kills' = kills \/ kills' = kills + 1)
    <3>1. ClientMove \/ ServerMove
      BY <1>1, QuietSteps
    <3>2. kills' = kills \/ kills' = kills + 1
      BY <3>1, Zenon DEF ClientMove, Connects, ServerMove, Leaves, Greets, Loads, Opens, Takes,
                         Saves, Verifies, Delivers
    <3> QED
      BY <3>2 DEF Basics, TypeOK
  <2> QED
    BY <1>1, <2>1
<1>4. Sendable(src)
  <2>1. Sendable(src)' = Sendable(src)
    BY <1>2, Zenon DEF Sendable
  <2> QED
    BY <2>1 DEF Calm
<1>5. Genuine /\ Turns /\ Filling /\ Silent /\ SameManifest /\ Once /\ Kept
  BY <1>2, <1>3, <1>4 DEF ErrorInv, Calm, CountInv
<1>6. CASE ServerStep \/ ServerKilled
  <2>1. QuietServer
    BY <1>1, <1>4, <1>5, <1>6, ServesQuietly
  <2>2. UNCHANGED <<cpc, todo>> /\ (ServerStep => UNCHANGED link)
    BY <1>6, Zenon DEF ServerStep, ServerRecv, ServerRecvFails, ServerWork, ServerSendFails,
                ServerRestart, ServerKilled, client, wire
  <2>3. ~ServerKilled
    <3>1. ServerKilled => \E file : Die(file)
      BY Zenon DEF ServerKilled, Kill, KillInWrite
    <3> QED
      BY <1>1, <1>3, <3>1 DEF Die
  <2>4. Elsewhere
    BY <1>2, <1>6, <2>2, <2>3, Zenon DEF Elsewhere
  <2>5. man # None => man = SourceManifest
    BY <1>5 DEF SameManifest
  <2> QED
    BY <1>4, <1>5, <2>1, <2>4, <2>5, TurnsServer
<1>7. CASE ClientStep \/ LinkDrops \/ SenderKilled \/ UNCHANGED tvars
  <2>1. Dials \/ (QuietClient /\ Untouched)
    BY <1>2, <1>4, <1>7, TalksQuietly
  <2> QED
    BY <1>4, <1>5, <2>1, TurnsDial, TurnsClient
<1>8. ~EditSource
  BY <1>1, <1>2 DEF EditSource
<1> QED
  BY <1>6, <1>7, <1>8 DEF TransferNext

LEMMA ErrorInvInit ==
    ASSUME TransferInit
    PROVE  ErrorInv
<1>1. pc = "idle" /\ c2s = <<>> /\ s2c = <<>>
  BY DEF TransferInit, Init
<1> QED
  BY <1>1 DEF ErrorInv, Genuine, Turns, Filling, Filled, Silent

LEMMA ErrorInvShows ==
    ASSUME ErrorInv
    PROVE  NoSpuriousError
  BY Zenon DEF ErrorInv, Calm, Silent, NoSpuriousError

=============================================================================
