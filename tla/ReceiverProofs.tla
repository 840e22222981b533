--------------------------- MODULE ReceiverProofs ---------------------------
(***************************************************************************)
(* Proofs about Receiver, for every set of byte values, all frames that    *)
(* may arrive, every manifest and any number of kills, faults and          *)
(* sessions.                                                               *)
(***************************************************************************)
EXTENDS Receiver, TLAPS

-----------------------------------------------------------------------------
(***************************************************************************)
(* Files.                                                                  *)
(***************************************************************************)

\* A positioned write yields a file that differs in the written range only,
\* extended by a hole of zeros when it lies past the end (FileSink::write_at
\* and the pre-sizing of FileSink::open).
LEMMA WriteAtFacts ==
    ASSUME NEW file \in Files, NEW at \in Nat, NEW data \in Files
    PROVE  /\ WriteAt(file, at, data) \in Files
           /\ Len(WriteAt(file, at, data)) =
                 IF data = <<>> \/ at + Len(data) <= Len(file) THEN Len(file)
                 ELSE at + Len(data)
<1> DEFINE n    == IF data = <<>> \/ at + Len(data) <= Len(file) THEN Len(file)
                   ELSE at + Len(data)
           e(j) == IF j \in at + 1 .. at + Len(data) THEN data[j - at]
                   ELSE IF j <= Len(file) THEN file[j] ELSE Zero
<1>1. n \in Nat /\ Len(data) \in Nat /\ Len(file) \in Nat
  BY DEF Files
<1>2. ASSUME NEW j \in 1 .. n PROVE e(j) \in Values
  <2>1. CASE j \in at + 1 .. at + Len(data)
    <3>1. j - at \in 1 .. Len(data)
      BY <1>1, <2>1
    <3>2. data[j - at] \in Values
      BY <3>1 DEF Files
    <3> QED
      BY <2>1, <3>2
  <2>2. CASE j \notin at + 1 .. at + Len(data) /\ j <= Len(file)
    <3>1. file[j] \in Values
      BY <1>1, <2>2 DEF Files
    <3> QED
      BY <2>2, <3>1
  <2>3. CASE j \notin at + 1 .. at + Len(data) /\ ~(j <= Len(file))
    BY <2>3, DataAssumption
  <2> QED
    BY <2>1, <2>2, <2>3
<1>3. WriteAt(file, at, data) = [j \in 1 .. n |-> e(j)]
  BY DEF WriteAt
<1> HIDE DEF n, e
<1>4. [j \in 1 .. n |-> e(j)] \in [1 .. n -> Values]
  BY <1>2
<1>5. [j \in 1 .. n |-> e(j)] \in Seq(Values)
  BY <1>1, <1>4
<1>6. Len([j \in 1 .. n |-> e(j)]) = n
  BY <1>1, <1>4, <1>5
<1> QED
  BY <1>3, <1>5, <1>6 DEF Files, n

\* Inside a file, nothing but the written range changes.
LEMMA WriteInside ==
    ASSUME NEW file \in Files, NEW at \in Nat, NEW data \in Files,
           at + Len(data) <= Len(file)
    PROVE  /\ Len(WriteAt(file, at, data)) = Len(file)
           /\ \A j \in 1 .. Len(file) :
                 WriteAt(file, at, data)[j] =
                    IF j \in at + 1 .. at + Len(data) THEN data[j - at] ELSE file[j]
<1>1. Len(file) \in Nat
  BY DEF Files
<1>2. Len(WriteAt(file, at, data)) = Len(file)
  BY WriteAtFacts
<1>3. ASSUME NEW j \in 1 .. Len(file)
      PROVE  WriteAt(file, at, data)[j] =
                IF j \in at + 1 .. at + Len(data) THEN data[j - at] ELSE file[j]
  BY <1>1 DEF WriteAt
<1> QED
  BY <1>2, <1>3

\* What an interrupted write(2) has written, it has written as meant.
LEMMA CutWrite ==
    ASSUME NEW file \in Files, NEW at \in Nat, NEW data \in Files, NEW k \in 0 .. Len(data)
    PROVE  WriteAt(file, at, Cut(data, k)) \in Files
<1>1. Cut(data, k) \in Files
  BY DEF Cut, Files
<1> QED
  BY <1>1, WriteAtFacts

\* The content of .partial once the stream is flushed is a file.
LEMMA FlushedType ==
    ASSUME NEW file \in Files, NEW b \in Seq(Pending)
    PROVE  Flushed(file, b) \in Files
<1>1. CASE b = <<>>
  BY <1>1 DEF Flushed
<1>2. CASE b # <<>>
  <2>1. b[1].at \in Nat /\ b[1].data \in Files
    <3>1. 1 \in 1 .. Len(b)
      BY <1>2
    <3>2. b[1] \in Pending
      BY <3>1
    <3> QED
      BY <3>2 DEF Pending
  <2> QED
    BY Zenon, <1>2, <2>1, WriteAtFacts DEF Flushed
<1> QED
  BY <1>1, <1>2

\* The single byte of FileSink::open makes an empty file of total bytes, all
\* zero: pending until the stream is flushed.
LEMMA PresizeFacts ==
    ASSUME NEW total \in Nat
    PROVE  /\ Presize(total) \in Seq(Pending)
           /\ Len(Presize(total)) <= 1
           /\ Flushed(<<>>, Presize(total)) \in Files
           /\ Len(Flushed(<<>>, Presize(total))) = total
<1>1. <<>> \in Files
  BY DEF Files
<1>2. CASE total = 0
  BY <1>1, <1>2 DEF Presize, Flushed
<1>3. CASE total > 0
  <2> DEFINE w == [at |-> total - 1, data |-> <<Zero>>]
  <2>1. <<Zero>> \in Files /\ Len(<<Zero>>) = 1 /\ <<Zero>> # <<>> /\ total - 1 \in Nat
    BY <1>3, DataAssumption DEF Files
  <2>2. w \in Pending
    BY <2>1 DEF Pending
  <2>3. Presize(total) = <<w>>
    BY <1>3 DEF Presize
  <2>4. Flushed(<<>>, <<w>>) = WriteAt(<<>>, total - 1, <<Zero>>)
    BY DEF Flushed
  <2>5. /\ WriteAt(<<>>, total - 1, <<Zero>>) \in Files
        /\ Len(WriteAt(<<>>, total - 1, <<Zero>>)) = total
    <3> DEFINE z  == <<Zero>>
               e  == <<>>
               at == total - 1
    <3>1. /\ e \in Files /\ z \in Files /\ at \in Nat /\ z # <<>>
          /\ Len(e) = 0 /\ Len(z) = 1 /\ at + 1 = total
      BY <1>1, <2>1
    <3> HIDE DEF z, e, at
    <3>2. /\ WriteAt(e, at, z) \in Files
          /\ Len(WriteAt(e, at, z)) = IF z = <<>> \/ at + Len(z) <= Len(e) THEN Len(e)
                                      ELSE at + Len(z)
      <4>1. e \in Files /\ at \in Nat /\ z \in Files
        BY Zenon, <3>1
      <4> QED
        BY ZenonT(30), <4>1, WriteAtFacts
    <3>3. WriteAt(e, at, z) \in Files /\ Len(WriteAt(e, at, z)) = total
      BY <1>3, <3>1, <3>2
    <3> QED
      BY <3>3 DEF z, e, at
  <2> QED
    BY <2>2, <2>3, <2>4, <2>5
<1> QED
  BY <1>2, <1>3

\* Feeding a chunk to a hasher appends its bytes.
LEMMA UpdateFacts ==
    ASSUME NEW h \in Files, NEW d \in Files
    PROVE  /\ Update(h, d) \in Files
           /\ Len(Update(h, d)) = Len(h) + Len(d)
           /\ \A j \in 1 .. Len(h) + Len(d) :
                 Update(h, d)[j] = IF j <= Len(h) THEN h[j] ELSE d[j - Len(h)]
  BY DEF Update, Files

-----------------------------------------------------------------------------
(***************************************************************************)
(* Shape: the type invariant and what ties the program counter to the      *)
(* session's variables.  TypeOK is not inductive alone: View is a file     *)
(* only because nothing is pending unless .partial exists.                 *)
(***************************************************************************)
Starting == {"idle", "down", "hello", "manifest", "load", "open"}
Sinking  == {"chunks", "save", "verify", "finalize"}

Shape ==
    /\ TypeOK
    /\ pc \notin Sinking => buf = <<>>
    /\ pc \in Sinking \cup {"rename2"} => partial # None
    /\ pc \notin {"idle", "down", "hello", "manifest"} => man # None
    /\ pc \in Starting => hasher = <<>> /\ next = 0 /\ bytes = 0 /\ chunks = 0
    /\ pc \in Starting \ {"open"} => got = {} /\ ~resume

LEMMA ViewType ==
    ASSUME Shape
    PROVE  /\ View \in Files \cup {None}
           /\ partial # None => View \in Files
           /\ pc \in Sinking => View \in Files
           /\ buf = <<>> => View = partial
<1>1. CASE buf = <<>>
  BY <1>1 DEF Shape, TypeOK, View, Flushed, Sinking
<1>2. CASE buf # <<>>
  <2>1. partial \in Files /\ buf \in Seq(Pending)
    BY <1>2 DEF Shape, TypeOK
  <2> QED
    BY <1>2, <2>1, FlushedType DEF View
<1> QED
  BY <1>1, <1>2

\* Whatever part of the pending write reaches .partial, a file is left.
LEMMA PartlyFlushedType ==
    ASSUME Shape, NEW file \in PartlyFlushed
    PROVE  file \in Files \cup {None}
<1>1. CASE buf = <<>>
  BY <1>1 DEF PartlyFlushed, Shape, TypeOK
<1>2. CASE buf # <<>>
  <2>1. partial \in Files /\ buf \in Seq(Pending)
    BY <1>2 DEF Shape, TypeOK
  <2>2. buf[1] \in Pending
    BY <1>2, <2>1
  <2>3. buf[1].at \in Nat /\ buf[1].data \in Files
    BY <2>2 DEF Pending
  <2>4. PICK k \in 0 .. Len(buf[1].data) :
           file = WriteAt(partial, buf[1].at, Cut(buf[1].data, k))
    BY <1>2 DEF PartlyFlushed
  <2> QED
    BY <2>1, <2>3, <2>4, CutWrite
<1> QED
  BY <1>1, <1>2

LEMMA ReturnShape ==
    ASSUME Shape, NEW file \in Files \cup {None}, NEW reply \in Seq(ServerFrames),
           Return(file, reply), kills' \in Nat, faults' \in Nat
    PROVE  Shape'
<1>1. s2c' \in Seq(ServerFrames)
  BY DEF Shape, TypeOK, Return
<1>2. hasher' \in Files /\ buf' \in Seq(Pending) /\ Len(buf') <= 1
  BY DEF Return, ResetSession, Files
<1> QED
  BY Zenon, <1>1, <1>2 DEF Shape, TypeOK, Return, ResetSession, Starting, Sinking

LEMMA ErrorFrameType ==
    ASSUME NEW code \in ErrorCodes
    PROVE  <<ErrorFrame(code)>> \in Seq(ServerFrames)
  BY DEF ErrorFrame, Frame, ServerFrames

LEMMA RefuseShape ==
    ASSUME Shape, NEW verdict \in ErrorCodes \cup {"drop"}, Refuse(verdict)
    PROVE  Shape'
<1> DEFINE reply == IF verdict = "drop" THEN <<>> ELSE <<ErrorFrame(verdict)>>
<1>1. reply \in Seq(ServerFrames)
  BY ErrorFrameType
<1>2. PICK file \in PartlyFlushed : /\ Return(file, reply)
                                    /\ IF file = View THEN UNCHANGED counters ELSE Fault
  BY Zenon DEF Refuse
<1>3. kills' \in Nat /\ faults' \in Nat
  BY <1>2 DEF Shape, TypeOK, counters, Fault
<1>4. file \in Files \cup {None}
  BY PartlyFlushedType
<1> HIDE DEF reply
<1> QED
  BY <1>1, <1>2, <1>3, <1>4, ReturnShape

LEMMA FaultShape ==
    ASSUME Shape, NEW file \in Files \cup {None}, Fault, Return(file, InternalError)
    PROVE  Shape'
<1>1. InternalError \in Seq(ServerFrames)
  BY ErrorFrameType DEF InternalError, ErrorCodes
<1>2. kills' \in Nat /\ faults' \in Nat
  BY DEF Fault, Shape, TypeOK
<1> QED
  BY <1>1, <1>2, ReturnShape

LEMMA VerdictTypes ==
    ASSUME Shape, NEW f
    PROVE  /\ HelloVerdict(f) # "ok" => HelloVerdict(f) \in ErrorCodes \cup {"drop"}
           /\ ManifestVerdict(f) # "ok" => ManifestVerdict(f) \in ErrorCodes \cup {"drop"}
           /\ ChunkVerdict(f) \notin {"chunk", "complete"} =>
                 ChunkVerdict(f) \in ErrorCodes \cup {"drop"}
           /\ VerifyVerdict # "ok" => VerifyVerdict \in ErrorCodes \cup {"drop"}
  BY DEF HelloVerdict, ManifestVerdict, ChunkVerdict, VerifyVerdict, ErrorCodes

\* What the checks of the server guarantee of a frame they let through.
LEMMA AcceptedFrames ==
    ASSUME NEW f \in ClientFrames \cup {None}
    PROVE  /\ ManifestVerdict(f) = "ok" => f.body \in Manifests
           /\ ChunkVerdict(f) = "complete" => f.body.final_root_hash \in Digests
           /\ ChunkVerdict(f) = "chunk" =>
                 /\ f.body.index \in Nat
                 /\ f.body.data \in Files
                 /\ ~(Offset(f.body.index) + Len(f.body.data) > man.file_size)
<1>1. ManifestVerdict(f) = "ok" => f.body \in Manifests
  BY DEF ManifestVerdict, IsFrame, ClientFrames
<1>2. ChunkVerdict(f) = "complete" => f.body \in CompleteMsg
  BY DEF ChunkVerdict, ClientFrames
<1>3. ChunkVerdict(f) = "chunk" => f.body \in ChunkMsg
  BY DEF ChunkVerdict, ClientFrames
<1>4. ChunkVerdict(f) = "chunk" =>
         ~(Offset(f.body.index) + Len(f.body.data) > man.file_size)
  BY DEF ChunkVerdict
<1> QED
  BY <1>1, <1>2, <1>3, <1>4 DEF CompleteMsg, ChunkMsg

LEMMA OffsetFacts ==
    ASSUME man \in Manifests, NEW i \in Nat
    PROVE  /\ Offset(i) \in Nat /\ Offset(0) = 0
           /\ Offset(i + 1) = Offset(i) + man.chunk_size
           /\ man.chunk_size \in Nat /\ man.file_size \in Nat
<1>1. man.chunk_size \in Nat /\ man.file_size \in Nat
  BY DEF Manifests, ManifestMsg
<1> QED
  BY <1>1 DEF Offset

\* The operands of an accepted chunk's write, and what an interrupted one leaves.
LEMMA ChunkFacts ==
    ASSUME Shape, NEW f \in ClientFrames \cup {None}, pc = "chunks",
           ChunkVerdict(f) = "chunk"
    PROVE  /\ f.body.index \in Nat /\ f.body.data \in Files
           /\ Offset(f.body.index) \in Nat /\ View \in Files
           /\ PartlyWritten(f.body) \subseteq Files
<1>1. f.body.index \in Nat /\ f.body.data \in Files
  BY Zenon, AcceptedFrames
<1>2. View \in Files /\ man \in Manifests
  BY ViewType DEF Sinking, Shape, TypeOK
<1>3. Offset(f.body.index) \in Nat
  BY <1>1, <1>2, OffsetFacts
<1>4. ASSUME NEW file \in PartlyWritten(f.body) PROVE file \in Files
  <2>1. PICK k \in 0 .. Len(f.body.data) :
           file = WriteAt(View, Offset(f.body.index), Cut(f.body.data, k))
    BY <1>4 DEF PartlyWritten
  <2> QED
    BY Zenon, <1>1, <1>2, <1>3, <2>1, CutWrite
<1> QED
  BY <1>1, <1>2, <1>3, <1>4

LEMMA ShapeReceive ==
    ASSUME Shape, NEW f \in ClientFrames \cup {None}, Receive(f)
    PROVE  Shape'
<1>1. CASE RefuseHello(f)
  BY <1>1, RefuseShape, VerdictTypes DEF RefuseHello
<1>2. CASE AnswerHello(f)
  <2>1. Frame("HELLO", [version |-> kProtocolVersion]) \in ServerFrames
    BY DataAssumption DEF Frame, ServerFrames, HelloMsg
  <2>2. s2c' \in Seq(ServerFrames)
    BY <1>2, <2>1 DEF AnswerHello, Shape, TypeOK
  <2> QED
    BY <1>2, <2>2 DEF AnswerHello, Shape, TypeOK, disk, session, progress, counters,
                      Starting, Sinking
<1>3. CASE RefuseManifest(f)
  BY <1>3, RefuseShape, VerdictTypes DEF RefuseManifest
<1>4. CASE TakeManifest(f)
  <2>1. man' \in Manifests /\ man' # None
    BY <1>4, AcceptedFrames, NoneAssumption DEF TakeManifest
  <2> QED
    BY <1>4, <2>1 DEF TakeManifest, Shape, TypeOK, disk, progress, counters, Starting,
                      Sinking
<1>5. CASE RefuseChunk(f)
  BY <1>5, RefuseShape, VerdictTypes DEF RefuseChunk
<1>6. CASE TakeComplete(f)
  <2>1. final' \in Digests
    BY <1>6, AcceptedFrames DEF TakeComplete
  <2> QED
    BY <1>6, <2>1 DEF TakeComplete, Shape, TypeOK, disk, progress, counters, Starting,
                      Sinking
<1>7. ASSUME NEW mode \in WriteModes, WriteChunk(f, mode) PROVE Shape'
  <2> DEFINE c == f.body
  <2>1. c.index \in Nat /\ c.data \in Files /\ Offset(c.index) \in Nat
    <3>1. ChunkVerdict(f) = "chunk" /\ pc = "chunks"
      BY Zenon, <1>7 DEF WriteChunk
    <3> QED
      BY Zenon, <3>1, ChunkFacts
  <2>2. View \in Files /\ hasher \in Files
    BY <1>7, ViewType DEF WriteChunk, Sinking, Shape, TypeOK
  <2>3. hasher' \in Files
    BY <1>7, <2>1, <2>2, UpdateFacts DEF WriteChunk
  <2>4. Len(c.data) \in Nat
    BY <2>1 DEF Files
  <2>5. partial' \in Files /\ partial' # None
    <3>1. WriteAt(View, Offset(c.index), c.data) \in Files
      BY Zenon, <2>1, <2>2, WriteAtFacts
    <3>2. partial' \in {View, WriteAt(View, Offset(c.index), c.data)}
      BY <1>7 DEF WriteChunk
    <3>3. partial' \in Files
      BY <2>2, <3>1, <3>2
    <3> QED
      BY <3>3, NoneAssumption
  <2>6. buf' \in Seq(Pending) /\ Len(buf') <= 1
    <3>1. [at |-> Offset(c.index), data |-> c.data] \in Pending
      BY <2>1 DEF Pending
    <3> QED
      BY <1>7, <3>1 DEF WriteChunk
  <2>7. /\ got' \in SUBSET Nat /\ bytes' \in Nat /\ chunks' \in Nat /\ next' \in Nat
    <3>2. got' \in SUBSET Nat
      BY Zenon, <1>7, <2>1 DEF WriteChunk, Shape, TypeOK
    <3> QED
      BY <1>7, <2>4, <3>2 DEF WriteChunk, Shape, TypeOK
  <2>8. inorder' \in BOOLEAN
    BY <1>7, Zenon DEF WriteChunk, Shape, TypeOK
  <2> QED
    BY <1>7, <2>3, <2>5, <2>6, <2>7, <2>8 DEF WriteChunk, Shape, TypeOK, counters, Starting,
                                        Sinking
<1>8. CASE WriteFails(f)
  <2>1. PICK file \in PartlyFlushed \cup PartlyWritten(f.body) : Return(file, InternalError)
    BY <1>8 DEF WriteFails
  <2>2. file \in Files \cup {None}
    BY Zenon, <1>8, ChunkFacts, PartlyFlushedType DEF WriteFails
  <2> QED
    BY <1>8, <2>1, <2>2, FaultShape DEF WriteFails
<1> QED
  BY <1>1, <1>2, <1>3, <1>4, <1>5, <1>6, <1>7, <1>8 DEF Receive

\* What open() leaves, whether it reuses .partial or not: a file, and at most
\* the pending byte of the pre-sizing.
LEMMA OpenedFacts ==
    ASSUME Shape, pc = "open", NEW reuse \in BOOLEAN, reuse => Reusable
    PROVE  /\ Opened(reuse).file \in Files
           /\ Opened(reuse).buf \in Seq(Pending)
           /\ Len(Opened(reuse).buf) <= 1
           /\ Flushed(Opened(reuse).file, Opened(reuse).buf) \in Files
<1>1. man \in Manifests
  BY DEF Shape, TypeOK
<1>2. man.file_size \in Nat
  BY <1>1 DEF Manifests, ManifestMsg
<1>3. CASE reuse
  <2>1. partial \in Files
    BY <1>3 DEF Reusable, Shape, TypeOK
  <2> QED
    BY <1>3, <2>1 DEF Opened, Flushed
<1>4. CASE ~reuse
  <2>1. Opened(reuse).file = <<>> /\ Opened(reuse).buf = Presize(man.file_size)
    BY <1>4 DEF Opened
  <2>2. <<>> \in Files
    BY DEF Files
  <2> QED
    BY <1>2, <2>1, <2>2, PresizeFacts
<1> QED
  BY <1>3, <1>4

LEMMA ShapeOpen ==
    ASSUME Shape, NEW reuse \in BOOLEAN, OpenSink(reuse)
    PROVE  Shape'
<1>1. pc = "open" /\ (reuse => Reusable)
  BY DEF OpenSink
<1>2. /\ partial' \in Files /\ partial' # None
      /\ buf' \in Seq(Pending) /\ Len(buf') <= 1
  BY <1>1, OpenedFacts, NoneAssumption DEF OpenSink
<1>3. s2c' \in Seq(ServerFrames)
  <2>1. Missing \in SUBSET Nat
    <3>1. man.chunk_count \in Nat
      BY <1>1 DEF Shape, TypeOK, Manifests, ManifestMsg
    <3> QED
      BY <3>1 DEF Missing
  <2>2. Frame("REQ_CHUNKS", [indices |-> Missing]) \in ServerFrames
    BY <2>1 DEF Frame, ServerFrames
  <2> QED
    BY <2>2 DEF OpenSink, Shape, TypeOK
<1>4. kills' \in Nat /\ faults' \in Nat
  BY DEF OpenSink, Fault, counters, Shape, TypeOK
<1>5. inorder' \in BOOLEAN
  BY Zenon DEF OpenSink
<1> QED
  BY <1>2, <1>3, <1>4, <1>5 DEF OpenSink, Shape, TypeOK, Starting, Sinking

LEMMA ShapeWork ==
    ASSUME Shape, Work
    PROVE  Shape'
<1>1. CASE LoadResume
  <2>1. got' \in SUBSET Nat
    BY <1>1 DEF LoadResume, Resumable, Sidecars, Shape, TypeOK
  <2> QED
    BY <1>1, <2>1 DEF LoadResume, Shape, TypeOK, disk, counters, Starting, Sinking
<1>2. CASE LoadFresh
  BY <1>2 DEF LoadFresh, Fault, Shape, TypeOK, session, progress, counters, Starting,
              Sinking
<1>3. ASSUME NEW reuse \in BOOLEAN, OpenSink(reuse) PROVE Shape'
  BY <1>3, ShapeOpen
<1>4. CASE OpenFails
  <2>1. PICK file \in {partial, <<>>} : Return(file, InternalError)
    BY <1>4 DEF OpenFails
  <2>2. file \in Files \cup {None}
    <3>1. <<>> \in Files
      BY DEF Files
    <3> QED
      BY <2>1, <3>1 DEF Shape, TypeOK
  <2> QED
    BY <1>4, <2>1, <2>2, FaultShape DEF OpenFails
<1>5. CASE SaveState
  <2>1. man \in Manifests /\ man.chunk_count \in Nat
    <3>1. man \in Manifests
      BY <1>5 DEF SaveState, Shape, TypeOK
    <3> QED
      BY <3>1 DEF Manifests, ManifestMsg
  <2>2. [id |-> blake3(man), count |-> man.chunk_count, got |-> got] \in Sidecars
    BY <2>1 DEF Sidecars, blake3, Shape, TypeOK
  <2>3. ftxstate' \in Sidecars \cup {None} /\ kills' \in Nat /\ faults' \in Nat
    BY <1>5, <2>2 DEF SaveState, Fault, counters, Shape, TypeOK
  <2> QED
    BY <1>5, <2>3 DEF SaveState, Shape, TypeOK, session, progress, Starting, Sinking
<1>6. CASE RefuseTransfer
  BY <1>6, RefuseShape, VerdictTypes DEF RefuseTransfer
<1>7. CASE PassTransfer
  <2>1. View \in Files /\ partial \in Files
    BY <1>7, ViewType DEF PassTransfer, Sinking, Shape, TypeOK
  <2>2. partial' \in Files /\ partial' # None
    BY <1>7, <2>1, NoneAssumption DEF PassTransfer
  <2>3. buf' \in Seq(Pending) /\ Len(buf') <= 1
    BY <1>7 DEF PassTransfer, Shape, TypeOK
  <2> QED
    BY <1>7, <2>2, <2>3 DEF PassTransfer, Shape, TypeOK, progress, counters, Starting,
                            Sinking
<1>8. CASE FlushFails
  <2>1. PICK file \in PartlyFlushed : Return(file, InternalError)
    BY <1>8 DEF FlushFails
  <2>2. file \in Files \cup {None}
    BY PartlyFlushedType
  <2> QED
    BY <1>8, <2>1, <2>2, FaultShape DEF FlushFails
<1>9. CASE Finalize
  <2>1. View \in Files
    BY <1>9, ViewType DEF Finalize, Sinking
  <2> QED
    BY <1>9, <2>1 DEF Finalize, Shape, TypeOK, progress, counters, Starting, Sinking
<1>10. CASE FinalizeRemoves
  <2>1. View \in Files /\ View # None
    BY <1>10, ViewType, NoneAssumption DEF FinalizeRemoves, Sinking
  <2> QED
    BY SMTT(60), <1>10, <2>1 DEF FinalizeRemoves, Fault, Shape, TypeOK, progress, Starting, Sinking
<1>11. CASE RenameAgain
  BY <1>11 DEF RenameAgain, Shape, TypeOK, session, progress, counters, Starting, Sinking
<1>12. CASE RenameFails
  <2>1. InternalError \in Seq(ServerFrames)
    BY ErrorFrameType DEF InternalError, ErrorCodes
  <2>2. kills' \in Nat /\ faults' \in Nat /\ partial \in Files \cup {None}
    BY <1>12 DEF RenameFails, counters, Shape, TypeOK
  <2> QED
    BY Zenon, <1>12, <2>1, <2>2, ReturnShape DEF RenameFails
<1>13. CASE Cleanup
  BY <1>13 DEF Cleanup, Fault, Shape, TypeOK, session, progress, counters, Starting,
               Sinking
<1>14. CASE SendAck
  <2>1. LastIndex \in Nat
    BY <1>14 DEF SendAck, LastIndex, Shape, TypeOK, Manifests, ManifestMsg
  <2>2. <<Frame("ACK", [last_index |-> LastIndex])>> \in Seq(ServerFrames)
    BY <2>1 DEF Frame, ServerFrames
  <2>3. kills' \in Nat /\ faults' \in Nat /\ partial \in Files \cup {None}
    BY <1>14 DEF SendAck, counters, Shape, TypeOK
  <2> QED
    BY Zenon, <1>14, <2>2, <2>3, ReturnShape DEF SendAck
<1> QED
  BY <1>1, <1>2, <1>3, <1>4, <1>5, <1>6, <1>7, <1>8, <1>9, <1>10, <1>11, <1>12, <1>13,
     <1>14 DEF Work

LEMMA ShapeKill ==
    ASSUME Shape, NEW file \in Files \cup {None}, Die(file)
    PROVE  Shape'
<1>1. hasher' \in Files /\ buf' \in Seq(Pending) /\ Len(buf') <= 1
  BY DEF Die, ResetSession, Files
<1>2. kills' \in Nat /\ next' \in Nat /\ bytes' \in Nat /\ chunks' \in Nat
  BY DEF Die, ResetSession, Shape, TypeOK
<1>3. TypeOK'
  BY Zenon, <1>1, <1>2 DEF Die, ResetSession, Shape, TypeOK
<1> QED
  BY <1>3 DEF Die, ResetSession, Shape, Starting, Sinking

LEMMA ShapeKillInWrite ==
    ASSUME Shape, NEW f \in ClientFrames \cup {None}, KillInWrite(f)
    PROVE  Shape'
<1>1. PICK file \in PartlyWritten(f.body) : Die(file)
  BY DEF KillInWrite
<1>2. file \in Files
  BY Zenon, ChunkFacts DEF KillInWrite
<1> QED
  BY <1>1, <1>2, ShapeKill

LEMMA ShapeSendFails ==
    ASSUME Shape, SendFails
    PROVE  Shape'
<1>1. <<>> \in Seq(ServerFrames) /\ kills' \in Nat /\ faults' \in Nat
  BY DEF SendFails, OpenUnsent, AckUnsent, counters, Shape, TypeOK
<1>2. CASE OpenUnsent
  <2>1. Reusable \in BOOLEAN
    BY DEF Reusable
  <2>2. Flushed(Opened(Reusable).file, Opened(Reusable).buf) \in Files
    BY <1>2, <2>1, OpenedFacts DEF OpenUnsent
  <2> QED
    BY Zenon, <1>1, <1>2, <2>2, ReturnShape DEF OpenUnsent
<1>3. CASE AckUnsent
  <2>1. partial \in Files \cup {None}
    BY DEF Shape, TypeOK
  <2> QED
    BY Zenon, <1>1, <1>3, <2>1, ReturnShape DEF AckUnsent
<1> QED
  BY <1>2, <1>3 DEF SendFails

LEMMA ShapeOthers ==
    ASSUME Shape, Accept \/ Kill \/ Restart \/ UNCHANGED vars
    PROVE  Shape'
<1>1. CASE Accept
  BY <1>1 DEF Accept, Shape, TypeOK, disk, session, progress, counters, Starting, Sinking
<1>2. CASE Kill
  <2>1. PICK file \in PartlyFlushed \cup {partial} : Die(file)
    BY <1>2 DEF Kill
  <2>2. file \in Files \cup {None}
    BY PartlyFlushedType DEF Shape, TypeOK
  <2> QED
    BY <2>1, <2>2, ShapeKill
<1>3. CASE Restart
  BY <1>3 DEF Restart, Shape, TypeOK, disk, session, progress, counters, Starting, Sinking
<1>4. CASE UNCHANGED vars
  BY SMTT(60), <1>4 DEF vars, Shape, TypeOK, disk, session, progress, counters, Starting, Sinking
<1> QED
  BY <1>1, <1>2, <1>3, <1>4

LEMMA InitShape == Init => Shape
<1>1. <<>> \in Files /\ <<>> \in Seq(Pending) /\ Len(<<>>) <= 1 /\ <<>> \in Seq(ServerFrames)
  BY DEF Files
<1>2. 0 \in Nat /\ {} \in SUBSET Nat
  OBVIOUS
<1>3. Init => TypeOK
  BY ZenonT(30), <1>1, <1>2 DEF Init, TypeOK
<1> QED
  BY <1>3 DEF Init, Shape, Starting, Sinking

LEMMA NextShape ==
    ASSUME Shape, [Next]_vars
    PROVE  Shape'
<1>1. ASSUME NEW f \in PeerFrames \cup {None}, Receive(f) \/ KillInWrite(f)
      PROVE  Shape'
  <2>1. f \in ClientFrames \cup {None}
    BY ReceiverAssumption
  <2> QED
    BY <1>1, <2>1, ShapeReceive, ShapeKillInWrite
<1> QED
  BY <1>1, ShapeWork, ShapeSendFails, ShapeOthers DEF Next

\* Every variable of the receiver keeps its type, whatever the peer sends and
\* wherever handle_session_ is killed.
THEOREM TypeCorrect == Spec => []TypeOK
<1>1. Init => Shape
  BY InitShape
<1>2. Shape /\ [Next]_vars => Shape'
  BY NextShape
<1>3. Shape => TypeOK
  BY DEF Shape
<1> QED
  BY <1>1, <1>2, <1>3, PTL DEF Spec

-----------------------------------------------------------------------------
(***************************************************************************)
(* The running root hash and the file.                                     *)
(***************************************************************************)

\* Buffered or not, an accepted chunk is in the file as the sink will leave it.
LEMMA WriteChunkView ==
    ASSUME Shape, NEW f \in ClientFrames \cup {None}, NEW mode \in WriteModes,
           WriteChunk(f, mode)
    PROVE  /\ View \in Files
           /\ f.body.index \in Nat /\ f.body.data \in Files
           /\ View' = WriteAt(View, Offset(f.body.index), f.body.data)
<1> DEFINE at == Offset(f.body.index)
           d  == f.body.data
<1>1. f.body.index \in Nat /\ d \in Files /\ at \in Nat /\ View \in Files
  <2>1. ChunkVerdict(f) = "chunk" /\ pc = "chunks"
    BY Zenon DEF WriteChunk
  <2> QED
    BY Zenon, <2>1, ChunkFacts
<1>2. View' = Flushed(partial', buf')
  BY DEF View
<1>3. mode \in {"buffered", "direct"}
  BY SMTT(30), ReceiverAssumption
<1>4. CASE mode = "direct"
  <2>1. partial' = WriteAt(View, at, d) /\ buf' = <<>>
    BY <1>4 DEF WriteChunk
  <2> QED
    BY <1>1, <1>2, <2>1 DEF Flushed
<1>5. CASE mode = "buffered" /\ d # <<>>
  <2> DEFINE w == [at |-> at, data |-> d]
  <2>1. partial' = View /\ buf' = <<w>>
    BY <1>5 DEF WriteChunk
  <2>2. Flushed(View, <<w>>) = WriteAt(View, at, d)
    BY DEF Flushed
  <2> QED
    BY Zenon, <1>1, <1>2, <2>1, <2>2
<1>6. CASE mode = "buffered" /\ d = <<>>
  <2>1. partial' = View /\ buf' = <<>>
    BY <1>6 DEF WriteChunk
  <2>2. View' = View
    BY <1>2, <2>1 DEF Flushed
  <2>3. WriteAt(View, at, d) = View
    <3> HIDE DEF at, d
    <3>1. at + Len(<<>>) = at /\ Len(View) \in Nat
      BY <1>1 DEF Files
    <3>2. WriteAt(View, at, <<>>) \in Files /\ Len(WriteAt(View, at, <<>>)) = Len(View)
      BY <1>1, <1>6, WriteAtFacts
    <3>3. \A j \in 1 .. Len(View) : WriteAt(View, at, <<>>)[j] = View[j]
      BY <1>1, <3>1 DEF WriteAt
    <3> QED
      BY <1>1, <1>6, <3>2, <3>3 DEF Files
  <2> QED
    BY <1>1, <2>2, <2>3
<1> QED
  BY <1>1, <1>3, <1>4, <1>5, <1>6

LEMMA DeclaredType ==
    ASSUME NEW m \in Manifests, NEW i \in Nat, i < m.chunk_count
    PROVE  Declared(m, i) \in Files /\ Len(Declared(m, i)) \in Nat
<1>1. m.chunk_hashes \in Seq(Digests) /\ Len(m.chunk_hashes) = m.chunk_count
  BY DEF Manifests, ManifestMsg
<1>2. m.chunk_hashes[i + 1] \in Digests
  BY <1>1
<1> QED
  BY <1>2 DEF Digests, Declared, Files

LEMMA FittingChunk ==
    ASSUME NEW m \in Manifests, ChunksFit(m), NEW i \in Nat, i < m.chunk_count
    PROVE  Len(Declared(m, i)) <= m.chunk_size
<1>1. m.chunk_count \in Nat
  BY DEF Manifests, ManifestMsg
<1>2. i \in 0 .. m.chunk_count - 1
  BY <1>1
<1> QED
  BY <1>2, Zenon DEF ChunksFit

\* The chunk that the checks let through is the declared one, within the file.
LEMMA ChunkDeclared ==
    ASSUME Shape, NEW f \in ClientFrames, pc = "chunks", ChunkVerdict(f) = "chunk"
    PROVE  /\ f.body.index \in Nat /\ f.body.index < man.chunk_count
           /\ Declared(man, f.body.index) = f.body.data
           /\ f.body.index * man.chunk_size + Len(f.body.data) <= man.file_size
           /\ man \in Manifests
<1>1. /\ f.body.index \in Nat /\ f.body.data \in Files /\ Offset(f.body.index) \in Nat
      /\ ~(Offset(f.body.index) + Len(f.body.data) > man.file_size)
  BY Zenon, ChunkFacts, AcceptedFrames
<1>2. man \in Manifests
  BY DEF Shape, TypeOK
<1>3. man.chunk_count \in Nat /\ man.file_size \in Nat /\ Len(f.body.data) \in Nat
  BY <1>1, <1>2 DEF Manifests, ManifestMsg, Files
<1>4. /\ ~(f.body.index >= man.chunk_count)
      /\ blake3(f.body.data) = f.body.hash
      /\ man.chunk_hashes[f.body.index + 1] = f.body.hash
  BY DEF ChunkVerdict
<1>5. Declared(man, f.body.index) = blake3(f.body.data).digest
  BY <1>4 DEF Declared
<1>6. Declared(man, f.body.index) = f.body.data
  BY <1>5 DEF blake3
<1>7. f.body.index * man.chunk_size = Offset(f.body.index)
  BY Zenon DEF Offset
<1>8. /\ Offset(f.body.index) + Len(f.body.data) <= man.file_size
      /\ f.body.index < man.chunk_count
  BY <1>1, <1>3, <1>4
<1> QED
  BY <1>1, <1>2, <1>6, <1>7, <1>8, Zenon

LEMMA HashedWrite ==
    ASSUME Shape, HashedIsWritten, NEW f \in ClientFrames,
           NEW mode \in WriteModes, WriteChunk(f, mode)
    PROVE  HashedIsWritten'
<1> DEFINE at == Offset(next)
           d  == f.body.data
           h  == Len(hasher)
           n  == man.file_size
<1>1. SUFFICES ASSUME inorder /\ f.body.index = next
               PROVE  HashedIsWritten'
  BY ZenonT(30) DEF WriteChunk, HashedIsWritten
<1>2. View \in Files /\ d \in Files /\ View' = WriteAt(View, at, d)
  BY <1>1, WriteChunkView
<1>3. /\ hasher' = Update(hasher, d) /\ next' = next + 1
      /\ bytes' = bytes + Len(d) /\ man' = man /\ resume' = resume
  BY <1>1 DEF WriteChunk
<1>4. /\ ~resume /\ Len(View) = n /\ bytes = h
      /\ ChunksFit(man) => /\ h <= at /\ h <= n
                           /\ h \in {at, n} => \A j \in 1 .. h : View[j] = hasher[j]
  BY <1>1 DEF HashedIsWritten, WriteChunk
<1>5. man \in Manifests /\ hasher \in Files /\ next \in Nat
  BY DEF WriteChunk, Shape, TypeOK
<1>6. /\ at \in Nat /\ n \in Nat /\ man.chunk_size \in Nat /\ h \in Nat /\ Len(d) \in Nat
      /\ Offset(next)' = at + man.chunk_size
  <2>1. Offset(next)' = Offset(next + 1)
    BY <1>3 DEF Offset
  <2>2. h \in Nat /\ Len(d) \in Nat
    BY <1>2, <1>5 DEF Files
  <2>3. /\ Offset(next) \in Nat /\ n \in Nat /\ man.chunk_size \in Nat
        /\ Offset(next + 1) = Offset(next) + man.chunk_size
    BY Zenon, <1>5, OffsetFacts
  <2> QED
    BY Zenon, <2>1, <2>2, <2>3
<1>7. at + Len(d) <= n
  <2>1. f.body.index * man.chunk_size + Len(f.body.data) <= man.file_size
    BY Zenon, ChunkDeclared DEF WriteChunk
  <2> QED
    BY Zenon, <1>1, <2>1 DEF Offset
<1>8. /\ Len(View') = n
      /\ \A j \in 1 .. n :
            View'[j] = IF j \in at + 1 .. at + Len(d) THEN d[j - at] ELSE View[j]
  <2> HIDE DEF at, d, n
  <2>1. at + Len(d) <= Len(View)
    BY Zenon, <1>4, <1>7
  <2>2. /\ Len(WriteAt(View, at, d)) = Len(View)
        /\ \A j \in 1 .. Len(View) :
              WriteAt(View, at, d)[j] =
                 IF j \in at + 1 .. at + Len(d) THEN d[j - at] ELSE View[j]
    BY Zenon, <1>2, <1>6, <2>1, WriteInside
  <2> QED
    BY Zenon, <1>2, <1>4, <2>2
<1>9. /\ Len(hasher') = h + Len(d)
      /\ \A j \in 1 .. h + Len(d) : hasher'[j] = IF j <= h THEN hasher[j] ELSE d[j - h]
  <2> HIDE DEF d
  <2> QED
    BY Zenon, <1>2, <1>3, <1>5, UpdateFacts
<1>10. bytes' = Len(hasher')
  BY Zenon, <1>3, <1>4, <1>9
<1>11. ASSUME ChunksFit(man)
       PROVE  /\ Len(hasher') <= Offset(next)' /\ Len(hasher') <= n
              /\ Len(hasher') \in {Offset(next)', n} =>
                     \A j \in 1 .. Len(hasher') : View'[j] = hasher'[j]
  <2>1. h <= at /\ h <= n /\ (h \in {at, n} => \A j \in 1 .. h : View[j] = hasher[j])
    BY Zenon, <1>4, <1>11
  <2>2. Len(d) <= man.chunk_size
    <3>1. /\ f.body.index \in Nat /\ f.body.index < man.chunk_count /\ man \in Manifests
          /\ Declared(man, f.body.index) = f.body.data
      BY Zenon, ChunkDeclared DEF WriteChunk
    <3> QED
      BY Zenon, <1>11, <3>1, FittingChunk
  \* The hashed prefix meets the bound again only if it met it before, and the
  \* chunk then lies right behind it.
  <2>3. ASSUME Len(hasher') \in {Offset(next)', n}
        PROVE  \A j \in 1 .. Len(hasher') : View'[j] = hasher'[j]
    <3> HIDE DEF at, d, h, n
    <3>1. h = at
      <4>1. Len(hasher') = h + Len(d) /\ h <= at
        BY Zenon, <2>1, <1>9
      <4> QED
        BY <1>6, <1>7, <2>2, <2>3, <4>1
    <3>2. \A j \in 1 .. h : View[j] = hasher[j]
      BY <2>1, <3>1
    <3>3. ASSUME NEW j \in 1 .. h + Len(d) PROVE View'[j] = hasher'[j]
      <4>1. j \in 1 .. n /\ j \in Int
        BY <1>6, <1>7, <3>1
      <4>2. View'[j] = IF j \in at + 1 .. at + Len(d) THEN d[j - at] ELSE View[j]
        BY Zenon, <1>8, <4>1
      <4>3. hasher'[j] = IF j <= h THEN hasher[j] ELSE d[j - h]
        BY Zenon, <1>9, <3>3
      <4>4. CASE j <= h
        <5>1. j \in 1 .. h /\ j \notin at + 1 .. at + Len(d)
          BY <1>6, <3>1, <4>4
        <5> QED
          BY Zenon, <3>2, <4>2, <4>3, <4>4, <5>1
      <4>5. CASE ~(j <= h)
        <5>1. j \in at + 1 .. at + Len(d) /\ j - at = j - h
          BY <1>6, <3>1, <4>5
        <5> QED
          BY Zenon, <4>2, <4>3, <4>5, <5>1
      <4> QED
        BY Zenon, <4>4, <4>5
    <3> QED
      BY Zenon, <1>9, <3>3
  <2>4. Len(hasher') <= Offset(next)' /\ Len(hasher') <= n
    <3> HIDE DEF at, d, h, n
    <3>1. Len(hasher') = h + Len(d)
      BY Zenon, <1>9
    <3> QED
      BY <1>6, <1>7, <2>1, <2>2, <3>1
  <2> QED
    BY Zenon, <2>3, <2>4
<1>12. /\ inorder' /\ Len(View)' = Len(View') /\ n' = n
       /\ ChunksFit(man)' => ChunksFit(man)
  BY <1>1, <1>3, Zenon DEF WriteChunk, ChunksFit, Declared
<1> HIDE DEF d, at, h
<1> QED
  BY <1>3, <1>4, <1>8, <1>10, <1>11, <1>12 DEF HashedIsWritten

\* A return or a kill leaves the CHUNK loop.
LEMMA HashedIdle ==
    ASSUME pc' \notin {"chunks", "save", "verify"}
    PROVE  HashedIsWritten'
  BY DEF HashedIsWritten

LEMMA HashedOpen ==
    ASSUME Shape, NEW reuse \in BOOLEAN, OpenSink(reuse)
    PROVE  HashedIsWritten'
<1> SUFFICES ASSUME inorder'
             PROVE  HashedIsWritten'
  BY DEF HashedIsWritten
<1>1. ~resume /\ ~reuse
  BY Zenon DEF OpenSink, Reusable
<1>2. man.file_size \in Nat
  <2>1. man \in Manifests
    BY DEF OpenSink, Shape, TypeOK
  <2> QED
    BY <2>1 DEF Manifests, ManifestMsg
<1>3. partial' = <<>> /\ buf' = Presize(man.file_size)
  BY <1>1 DEF OpenSink, Opened
<1>4. Len(View') = man.file_size
  BY <1>2, <1>3, PresizeFacts DEF View
<1>5. hasher' = <<>> /\ next' = 0 /\ bytes' = 0 /\ man' = man /\ resume' = resume
  BY DEF OpenSink, Shape, Starting
<1>6. Offset(next)' = 0
  <2>1. man.chunk_size \in Nat
    BY DEF OpenSink, Shape, TypeOK, Manifests, ManifestMsg
  <2> QED
    BY <1>5, <2>1 DEF Offset
<1> QED
  BY <1>1, <1>2, <1>4, <1>5, <1>6 DEF HashedIsWritten

LEMMA HashedSame ==
    ASSUME HashedIsWritten, inorder' => inorder,
           pc' \in {"chunks", "save", "verify"} => pc \in {"chunks", "save", "verify"},
           UNCHANGED <<partial, buf, man, resume, hasher, next, bytes>>
    PROVE  HashedIsWritten'
<1>1. View' = View
  BY DEF View, Flushed
<1>2. Offset(next)' = Offset(next)
  BY DEF Offset
<1> QED
  BY <1>1, <1>2 DEF HashedIsWritten

LEMMA HashedReceive ==
    ASSUME Shape, HashedIsWritten, NEW f \in ClientFrames \cup {None}, Receive(f)
    PROVE  HashedIsWritten'
<1>1. CASE RefuseHello(f) \/ RefuseManifest(f) \/ RefuseChunk(f) \/ WriteFails(f)
  BY <1>1, HashedIdle DEF RefuseHello, RefuseManifest, RefuseChunk, WriteFails, Refuse,
                          Return
<1>2. CASE AnswerHello(f) \/ TakeManifest(f)
  BY <1>2, HashedIdle DEF AnswerHello, TakeManifest
<1>3. CASE TakeComplete(f)
  BY <1>3, HashedSame DEF TakeComplete, disk, progress
<1>4. ASSUME NEW mode \in WriteModes, WriteChunk(f, mode) PROVE HashedIsWritten'
  <2>1. f \in ClientFrames
    BY <1>4, Zenon DEF WriteChunk, ChunkVerdict
  <2> QED
    BY <1>4, <2>1, HashedWrite
<1> QED
  BY <1>1, <1>2, <1>3, <1>4 DEF Receive

LEMMA HashedWork ==
    ASSUME Shape, HashedIsWritten, Work
    PROVE  HashedIsWritten'
<1>1. CASE LoadResume \/ LoadFresh
  BY <1>1, HashedIdle DEF LoadResume, LoadFresh
<1>2. ASSUME NEW reuse \in BOOLEAN, OpenSink(reuse) PROVE HashedIsWritten'
  BY <1>2, HashedOpen
<1>3. CASE OpenFails \/ RefuseTransfer \/ FlushFails \/ RenameFails \/ SendAck
  BY <1>3, HashedIdle DEF OpenFails, RefuseTransfer, FlushFails, RenameFails, SendAck,
                          Refuse, Return
<1>4. CASE SaveState
  BY <1>4, HashedSame DEF SaveState, session, progress
<1>5. CASE PassTransfer \/ Finalize \/ FinalizeRemoves \/ RenameAgain \/ Cleanup
  BY <1>5, HashedIdle DEF PassTransfer, Finalize, FinalizeRemoves, RenameAgain, Cleanup
<1> QED
  BY <1>1, <1>2, <1>3, <1>4, <1>5 DEF Work

LEMMA HashedOthers ==
    ASSUME HashedIsWritten, NEW f,
           Accept \/ KillInWrite(f) \/ SendFails \/ Kill \/ Restart \/ UNCHANGED vars
    PROVE  HashedIsWritten'
<1>1. CASE Accept \/ Restart
  BY <1>1, HashedIdle DEF Accept, Restart
<1>2. CASE KillInWrite(f) \/ Kill
  BY <1>2, HashedIdle DEF KillInWrite, Kill, Die
<1>3. CASE SendFails
  BY <1>3, HashedIdle DEF SendFails, OpenUnsent, AckUnsent, Return
<1>4. CASE UNCHANGED vars
  BY <1>4, HashedSame DEF vars, disk, session, progress
<1> QED
  BY <1>1, <1>2, <1>3, <1>4

LEMMA NextHashed ==
    ASSUME Shape, HashedIsWritten, [Next]_vars
    PROVE  HashedIsWritten'
<1>1. ASSUME NEW f \in PeerFrames \cup {None}, Receive(f) \/ KillInWrite(f)
      PROVE  HashedIsWritten'
  <2>1. f \in ClientFrames \cup {None}
    BY ReceiverAssumption
  <2> QED
    BY <1>1, <2>1, HashedReceive, HashedOthers
<1> QED
  BY <1>1, HashedWork, HashedOthers DEF Next

\* On the in-order path, if no declared chunk is longer than chunk_size, the
\* running root hash is the hash of what .partial will hold once all bytes are
\* counted: handle_session_ may then skip the read back.
THEOREM HashedIsWrittenAlways == Spec => []HashedIsWritten
<1>1. Init => Shape /\ HashedIsWritten
  BY InitShape DEF Init, HashedIsWritten
<1>2. Shape /\ HashedIsWritten /\ [Next]_vars => (Shape /\ HashedIsWritten)'
  BY NextShape, NextHashed
<1> QED
  BY <1>1, <1>2, PTL DEF Spec

-----------------------------------------------------------------------------
(***************************************************************************)
(* What has been verified stays what is delivered: from the root check to  *)
(* the rename, and from the rename to the ACK.  The read back verifies the *)
(* file itself, the running hash only if the declared chunks fit.          *)
(***************************************************************************)
Verified ==
    /\ pc = "finalize" => (Vouched => blake3(View) = man.root_hash) /\ man.root_hash = final
    /\ pc = "rename2" => (Vouched => blake3(partial) = man.root_hash) /\ man.root_hash = final
    /\ pc \in {"cleanup", "ack"} =>
          dest # None /\ (Vouched => blake3(dest) = man.root_hash) /\ partial = None

Delivering == {"finalize", "rename2", "cleanup", "ack"}

LEMMA VouchedSame ==
    ASSUME inorder' = inorder, man' = man
    PROVE  Vouched' = Vouched
  BY Zenon DEF Vouched, ChunksFit, Declared

LEMMA VerifiedIdle ==
    ASSUME pc' \notin Delivering
    PROVE  Verified'
  BY DEF Verified, Delivering

\* The checks after COMPLETE make the root hash that of the whole .partial.
LEMMA PassVerified ==
    ASSUME Shape, HashedIsWritten, PassTransfer
    PROVE  Verified'
<1>1. /\ Inventory
      /\ ActualRoot = man.root_hash /\ ActualRoot = final
  BY DEF PassTransfer, VerifyVerdict
<1>2. View \in Files
  BY ViewType DEF PassTransfer, Sinking
<1>3. View' = View
  <2>1. CASE inorder
    BY <2>1 DEF PassTransfer, View, Flushed
  <2>2. CASE ~inorder
    <3>1. partial' = View /\ buf' = <<>>
      BY <2>2 DEF PassTransfer
    <3>2. View' = Flushed(partial', buf')
      BY DEF View
    <3> QED
      BY <3>1, <3>2 DEF Flushed
  <2> QED
    BY <2>1, <2>2
<1>4. ASSUME Vouched PROVE blake3(View) = ActualRoot
  <2>1. CASE inorder
    <3>1. /\ ~resume /\ Len(View) = man.file_size /\ bytes = Len(hasher)
          /\ Len(hasher) \in {Offset(next), man.file_size} =>
                \A j \in 1 .. Len(hasher) : View[j] = hasher[j]
      <4>1. ChunksFit(man)
        BY <1>4, <2>1 DEF Vouched
      <4> QED
        BY <2>1, <4>1 DEF HashedIsWritten, PassTransfer
    <3>2. bytes = man.file_size
      BY <1>1, <3>1 DEF Inventory
    <3>3. hasher \in Files
      BY DEF Shape, TypeOK
    <3>4. Len(View) = Len(hasher) /\ \A j \in 1 .. Len(View) : View[j] = hasher[j]
      BY <3>1, <3>2
    <3>5. View = hasher
      BY <1>2, <3>3, <3>4 DEF Files
    <3> QED
      BY <2>1, <3>5 DEF ActualRoot
  <2>2. CASE ~inorder
    BY <2>2 DEF ActualRoot
  <2> QED
    BY <2>1, <2>2
<1>5. Vouched' = Vouched
  BY VouchedSame DEF PassTransfer, progress
<1> QED
  BY <1>1, <1>3, <1>4, <1>5 DEF Verified, PassTransfer

LEMMA VerifiedWork ==
    ASSUME Shape, HashedIsWritten, Verified, Work
    PROVE  Verified'
<1>1. CASE LoadResume \/ LoadFresh \/ SaveState
  BY <1>1, VerifiedIdle DEF LoadResume, LoadFresh, SaveState, Delivering
<1>2. ASSUME NEW reuse \in BOOLEAN, OpenSink(reuse) PROVE Verified'
  BY <1>2, VerifiedIdle DEF OpenSink, Delivering
<1>3. CASE OpenFails \/ RefuseTransfer \/ FlushFails \/ RenameFails \/ SendAck
  BY <1>3, VerifiedIdle DEF OpenFails, RefuseTransfer, FlushFails, RenameFails, SendAck,
                            Refuse, Return, Delivering
<1>4. CASE PassTransfer
  BY <1>4, PassVerified
<1>5. CASE Finalize
  <2>1. View # None
    BY <1>5, ViewType, NoneAssumption DEF Finalize, Sinking
  <2>2. Vouched' = Vouched
    BY <1>5, VouchedSame DEF Finalize, progress
  <2> QED
    BY <1>5, <2>1, <2>2 DEF Finalize, Verified
<1>6. CASE FinalizeRemoves
  <2>1. Vouched' = Vouched
    BY <1>6, VouchedSame DEF FinalizeRemoves, progress
  <2> QED
    BY <1>6, <2>1 DEF FinalizeRemoves, Verified
<1>7. CASE RenameAgain
  <2>1. Vouched' = Vouched
    BY <1>7, VouchedSame DEF RenameAgain, session, progress
  <2> QED
    BY <1>7, <2>1 DEF RenameAgain, Verified, Shape, session
<1>8. CASE Cleanup
  <2>1. Vouched' = Vouched
    BY <1>8, VouchedSame DEF Cleanup, session, progress
  <2> QED
    BY <1>8, <2>1 DEF Cleanup, Verified, session
<1> QED
  BY SMTT(30), <1>1, <1>2, <1>3, <1>4, <1>5, <1>6, <1>7, <1>8 DEF Work

LEMMA VerifiedOthers ==
    ASSUME Verified, NEW f,
           \/ Receive(f) \/ KillInWrite(f) \/ Accept \/ SendFails \/ Kill \/ Restart
           \/ UNCHANGED vars
    PROVE  Verified'
<1>1. CASE RefuseHello(f) \/ RefuseManifest(f) \/ RefuseChunk(f) \/ WriteFails(f)
  BY <1>1, VerifiedIdle DEF RefuseHello, RefuseManifest, RefuseChunk, WriteFails, Refuse,
                            Return, Delivering
<1>2. CASE AnswerHello(f) \/ TakeManifest(f) \/ TakeComplete(f)
  BY SMTT(30), <1>2, VerifiedIdle DEF AnswerHello, TakeManifest, TakeComplete, Delivering
<1>3. ASSUME NEW mode \in WriteModes, WriteChunk(f, mode) PROVE Verified'
  BY <1>3, VerifiedIdle DEF WriteChunk, Delivering
<1>4. CASE Accept \/ Restart
  BY <1>4, VerifiedIdle DEF Accept, Restart, Delivering
<1>5. CASE KillInWrite(f) \/ Kill
  BY <1>5, VerifiedIdle DEF KillInWrite, Kill, Die, Delivering
<1>6. CASE SendFails
  BY <1>6, VerifiedIdle DEF SendFails, OpenUnsent, AckUnsent, Return, Delivering
<1>7. CASE UNCHANGED vars
  <2>1. View' = View
    BY <1>7 DEF vars, disk, session, View, Flushed
  <2>2. Vouched' = Vouched
    BY <1>7, VouchedSame DEF vars, session, progress
  <2> QED
    BY <1>7, <2>1, <2>2 DEF vars, disk, session, Verified
<1> QED
  BY <1>1, <1>2, <1>3, <1>4, <1>5, <1>6, <1>7 DEF Receive

-----------------------------------------------------------------------------
(***************************************************************************)
(* .partial is never shorter than the manifest's file_size: open() reuses  *)
(* no shorter file and pre-sizes a new one, a write shortens none.         *)
(***************************************************************************)
Sized ==
    /\ pc \in Sinking => Len(View) >= man.file_size
    /\ pc = "rename2" => Len(partial) >= man.file_size
    /\ pc \in {"cleanup", "ack"} => Len(dest) >= man.file_size

LEMMA SizedIdle ==
    ASSUME pc' \in Starting
    PROVE  Sized'
  BY DEF Sized, Starting, Sinking

LEMMA SizedSame ==
    ASSUME Sized, pc' \in Sinking => pc \in Sinking, View' = View, man' = man,
           pc' \notin {"rename2", "cleanup", "ack"}
    PROVE  Sized'
  BY Zenon DEF Sized

LEMMA SizedOpen ==
    ASSUME Shape, NEW reuse \in BOOLEAN, OpenSink(reuse)
    PROVE  Sized'
<1>1. man.file_size \in Nat
  <2>1. man \in Manifests
    BY DEF OpenSink, Shape, TypeOK
  <2> QED
    BY <2>1 DEF Manifests, ManifestMsg
<1>2. pc' = "chunks" /\ man' = man
  BY Zenon DEF OpenSink
<1>3. Len(View') >= man.file_size
  <2>1. CASE reuse
    <3>1. Reusable /\ partial' = partial /\ buf' = <<>>
      BY <2>1, Zenon DEF OpenSink, Opened
    <3>2. View' = partial
      BY <3>1 DEF View, Flushed
    <3> QED
      BY <3>1, <3>2 DEF Reusable
  <2>2. CASE ~reuse
    <3>1. partial' = <<>> /\ buf' = Presize(man.file_size)
      BY <2>2 DEF OpenSink, Opened
    <3>2. Len(View') = man.file_size
      BY <1>1, <3>1, PresizeFacts DEF View
    <3> QED
      BY <1>1, <3>2
  <2> QED
    BY <2>1, <2>2
<1> QED
  BY <1>2, <1>3 DEF Sized

LEMMA SizedWrite ==
    ASSUME Shape, Sized, NEW f \in ClientFrames \cup {None}, NEW mode \in WriteModes,
           WriteChunk(f, mode)
    PROVE  Sized'
<1> DEFINE at == Offset(f.body.index)
           d  == f.body.data
<1>1. View \in Files /\ f.body.index \in Nat /\ d \in Files /\ View' = WriteAt(View, at, d)
  BY WriteChunkView
<1>2. pc = "chunks" /\ pc' = "save" /\ man' = man
  BY Zenon DEF WriteChunk
<1>3. man \in Manifests
  BY <1>2 DEF Shape, TypeOK
<1>4. at \in Nat /\ man.file_size \in Nat
  BY <1>1, <1>3, OffsetFacts
<1>5. Len(View) >= man.file_size
  BY <1>2 DEF Sized, Sinking
<1> HIDE DEF at, d
<1>6. Len(View) \in Nat /\ Len(d) \in Nat
  BY <1>1 DEF Files
<1>7. Len(View') = IF d = <<>> \/ at + Len(d) <= Len(View) THEN Len(View) ELSE at + Len(d)
  BY <1>1, <1>4, WriteAtFacts, Zenon
<1>8. Len(View') >= man.file_size
  BY <1>4, <1>5, <1>6, <1>7
<1> QED
  BY <1>2, <1>8 DEF Sized

LEMMA SizedWork ==
    ASSUME Shape, Sized, Work
    PROVE  Sized'
<1>1. CASE LoadResume \/ LoadFresh
  BY <1>1, SizedIdle DEF LoadResume, LoadFresh, Starting
<1>2. ASSUME NEW reuse \in BOOLEAN, OpenSink(reuse) PROVE Sized'
  BY <1>2, SizedOpen
<1>3. CASE OpenFails \/ RefuseTransfer \/ FlushFails \/ RenameFails \/ SendAck
  BY <1>3, SizedIdle DEF OpenFails, RefuseTransfer, FlushFails, RenameFails, SendAck,
                         Refuse, Return, Starting
<1>4. CASE SaveState
  <2>1. View' = View /\ man' = man /\ pc = "save" /\ pc' = "chunks"
    BY <1>4 DEF SaveState, session, View, Flushed
  <2> QED
    BY <2>1, SizedSame DEF Sinking
<1>5. CASE PassTransfer
  <2>1. man' = man /\ pc = "verify" /\ pc' = "finalize"
    BY <1>5 DEF PassTransfer
  <2>2. View' = View
    <3>1. CASE inorder
      BY <1>5, <3>1 DEF PassTransfer, View, Flushed
    <3>2. CASE ~inorder
      <4>1. partial' = View /\ buf' = <<>> /\ View' = Flushed(partial', buf')
        BY <1>5, <3>2 DEF PassTransfer, View
      <4> QED
        BY <4>1, Zenon DEF Flushed
    <3> QED
      BY <3>1, <3>2
  <2> QED
    BY <2>1, <2>2, SizedSame DEF Sinking
<1>6. CASE Finalize
  BY <1>6 DEF Finalize, Sized, Sinking
<1>7. CASE FinalizeRemoves
  BY <1>7 DEF FinalizeRemoves, Sized, Sinking
<1>8. CASE RenameAgain
  BY <1>8 DEF RenameAgain, Sized, Sinking, session
<1>9. CASE Cleanup
  BY <1>9 DEF Cleanup, Sized, Sinking, session
<1> QED
  BY <1>1, <1>2, <1>3, <1>4, <1>5, <1>6, <1>7, <1>8, <1>9, Zenon DEF Work

LEMMA SizedOthers ==
    ASSUME Shape, Sized, NEW f \in ClientFrames \cup {None},
           \/ Receive(f) \/ KillInWrite(f) \/ Accept \/ SendFails \/ Kill \/ Restart
           \/ UNCHANGED vars
    PROVE  Sized'
<1>1. CASE RefuseHello(f) \/ RefuseManifest(f) \/ RefuseChunk(f) \/ WriteFails(f)
  BY <1>1, SizedIdle DEF RefuseHello, RefuseManifest, RefuseChunk, WriteFails, Refuse,
                         Return, Starting
<1>2. CASE AnswerHello(f) \/ TakeManifest(f)
  BY <1>2, SizedIdle DEF AnswerHello, TakeManifest, Starting
<1>3. CASE TakeComplete(f)
  <2>1. View' = View /\ man' = man /\ pc = "chunks" /\ pc' = "verify"
    BY <1>3 DEF TakeComplete, disk, View, Flushed
  <2> QED
    BY <2>1, SizedSame DEF Sinking
<1>4. ASSUME NEW mode \in WriteModes, WriteChunk(f, mode) PROVE Sized'
  BY <1>4, SizedWrite
<1>5. CASE Accept \/ Restart
  BY <1>5, SizedIdle DEF Accept, Restart, Starting
<1>6. CASE KillInWrite(f) \/ Kill
  BY <1>6, SizedIdle DEF KillInWrite, Kill, Die, Starting
<1>7. CASE SendFails
  BY <1>7, SizedIdle DEF SendFails, OpenUnsent, AckUnsent, Return, Starting
<1>8. CASE UNCHANGED vars
  <2>1. View' = View
    BY <1>8 DEF vars, disk, session, View, Flushed
  <2> QED
    BY <1>8, <2>1 DEF vars, disk, session, Sized
<1> QED
  BY <1>1, <1>2, <1>3, <1>4, <1>5, <1>6, <1>7, <1>8, Zenon DEF Receive

IInv == Shape /\ HashedIsWritten /\ Verified /\ Sized

LEMMA NextIInv ==
    ASSUME IInv, [Next]_vars
    PROVE  IInv'
<1>1. Shape' /\ HashedIsWritten'
  BY NextShape, NextHashed DEF IInv
<1>2. Verified'
  BY VerifiedWork, VerifiedOthers DEF IInv, Next
<1>3. Sized'
  <2>1. PeerFrames \cup {None} \subseteq ClientFrames \cup {None}
    BY ReceiverAssumption
  <2>2. None \in ClientFrames \cup {None} /\ Shape /\ Sized
    BY DEF IInv
  <2> QED
    BY <2>1, <2>2, SizedWork, SizedOthers, Zenon DEF Next
<1> QED
  BY <1>1, <1>2, <1>3 DEF IInv

LEMMA IInvAlways == Spec => []IInv
<1>1. Init => IInv
  BY InitShape DEF Init, IInv, HashedIsWritten, Verified, Sized, Sinking
<1>2. IInv /\ [Next]_vars => IInv'
  BY NextIInv
<1> QED
  BY <1>1, <1>2, PTL DEF Spec

\* Only the two renames of finalize() give dest a new file.
LEMMA DestChanges ==
    ASSUME [Next]_vars, dest' \notin {dest, None}
    PROVE  Finalize \/ RenameAgain
<1>1. ASSUME NEW f, Receive(f) \/ KillInWrite(f)
      PROVE  dest' = dest
  BY ZenonT(30), <1>1 DEF Receive, RefuseHello, AnswerHello, RefuseManifest, TakeManifest, RefuseChunk,
              TakeComplete, WriteChunk, WriteFails, KillInWrite, Refuse, Return, Die, disk
<1>2. CASE Work
  BY ZenonT(30), <1>2 DEF Work, LoadResume, LoadFresh, OpenSink, OpenFails, SaveState, RefuseTransfer,
              PassTransfer, FlushFails, FinalizeRemoves, RenameFails, Cleanup, SendAck,
              Refuse, Return, disk
<1>3. ASSUME Accept \/ SendFails \/ Kill \/ Restart \/ UNCHANGED vars
      PROVE  dest' = dest
  BY <1>3 DEF Accept, SendFails, OpenUnsent, AckUnsent, Kill, Restart, Return, Die, disk,
              vars
<1> QED
  BY SMTT(30), <1>1, <1>2, <1>3 DEF Next

LEMMA DeliveryStep ==
    ASSUME IInv, [Next]_vars, dest' \notin {dest, None}
    PROVE  (Vouched => blake3(dest') = man.root_hash) /\ man.root_hash = final
<1>1. CASE Finalize
  BY <1>1 DEF Finalize, IInv, Verified
<1>2. CASE RenameAgain
  BY <1>2 DEF RenameAgain, IInv, Verified
<1> QED
  BY <1>1, <1>2, DestChanges

\* Whatever frames arrive, wherever the server is killed and whichever operation
\* fails, a file reaches the destination only when the manifest and COMPLETE name
\* the same root hash, and it is the hash of that file whenever handle_session_
\* read .partial back, and on the in-order path if the manifest declares no chunk
\* longer than its chunk_size (steps 3 and 4).
THEOREM DestinationIntegrity == Spec => Integrity
<1>1. IInv /\ [Next]_vars =>
         [dest' \notin {dest, None} =>
             (Vouched => blake3(dest') = man.root_hash) /\ man.root_hash = final]_vars
  BY DeliveryStep
<1> QED
  BY <1>1, IInvAlways, PTL DEF Spec, Integrity

-----------------------------------------------------------------------------
(***************************************************************************)
(* The steps in which nothing fails.                                       *)
(***************************************************************************)

\* What .partial may be left as when the session returns ...
Returned ==
    \/ pc # "cleanup" /\ partial' = View
    \/ pc = "open" /\ partial' = Flushed(Opened(Reusable).file, Opened(Reusable).buf)

\* ... and when it is killed.
Killed ==
    \/ partial' \in PartlyFlushed \cup {partial}
    \/ \E f \in ClientFrames :
          /\ pc = "chunks" /\ ChunkVerdict(f) = "chunk"
          /\ partial' \in PartlyWritten(f.body)

Leave ==
    /\ pc' \in {"idle", "down"}
    /\ ResetSession
    /\ UNCHANGED <<dest, ftxstate>>
    /\ (Returned /\ kills' = kills) \/ (Killed /\ kills' # kills)

\* A step outside the transfer proper.
Pause ==
    /\ UNCHANGED <<disk, session, kills>>
    /\ pc' = pc \/ {pc, pc'} \subseteq {"idle", "down", "hello", "manifest"}

Save ==
    /\ SaveState
    /\ ftxstate' = [id |-> blake3(man), count |-> man.chunk_count, got |-> got]

Advance ==
    \/ \E f \in ClientFrames : TakeManifest(f) \/ TakeComplete(f)
    \/ \E f \in ClientFrames, mode \in WriteModes : WriteChunk(f, mode)
    \/ LoadResume
    \/ LoadFresh /\ ftxstate' = None
    \/ \E reuse \in BOOLEAN : OpenSink(reuse) /\ reuse = Reusable
    \/ Save
    \/ PassTransfer
    \/ Finalize
    \/ RenameAgain
    \/ Cleanup /\ ftxstate' = None

LEMMA NoFault ==
    ASSUME Shape, faults' = 0
    PROVE  ~Fault
  BY DEF Fault, Shape, TypeOK

LEMMA RefuseLeaves ==
    ASSUME Shape, NEW verdict, Refuse(verdict), faults' = 0, pc # "cleanup"
    PROVE  Leave /\ faults = 0
<1>1. PICK file \in PartlyFlushed :
         /\ Return(file, IF verdict = "drop" THEN <<>> ELSE <<ErrorFrame(verdict)>>)
         /\ IF file = View THEN UNCHANGED counters ELSE Fault
  BY Zenon DEF Refuse
<1>2. file = View /\ UNCHANGED counters
  BY <1>1, NoFault
<1> QED
  BY <1>1, <1>2 DEF Return, Leave, Returned, counters

LEMMA QuietReceive ==
    ASSUME Shape, NEW f \in ClientFrames \cup {None}, Receive(f), faults' = 0
    PROVE  faults = 0 /\ (Leave \/ Pause \/ Advance)
<1>1. CASE RefuseHello(f) \/ RefuseManifest(f) \/ RefuseChunk(f)
  BY <1>1, RefuseLeaves DEF RefuseHello, RefuseManifest, RefuseChunk
<1>2. CASE AnswerHello(f)
  BY <1>2 DEF AnswerHello, Pause, counters
<1>3. CASE TakeManifest(f)
  <2>1. f \in ClientFrames /\ faults = 0
    BY <1>3 DEF TakeManifest, ManifestVerdict, IsFrame, counters
  <2> QED
    BY <1>3, <2>1 DEF Advance
<1>4. CASE TakeComplete(f)
  <2>1. f \in ClientFrames /\ faults = 0
    BY <1>4 DEF TakeComplete, ChunkVerdict, counters
  <2> QED
    BY <1>4, <2>1 DEF Advance
<1>5. ASSUME NEW mode \in WriteModes, WriteChunk(f, mode)
      PROVE  faults = 0 /\ Advance
  <2>1. f \in ClientFrames /\ faults = 0
    BY <1>5, Zenon DEF WriteChunk, ChunkVerdict, counters
  <2> QED
    BY Zenon, <1>5, <2>1 DEF Advance
<1>6. ~WriteFails(f)
  BY NoFault DEF WriteFails
<1> QED
  BY <1>1, <1>2, <1>3, <1>4, <1>5, <1>6 DEF Receive

LEMMA QuietWork ==
    ASSUME Shape, Work, faults' = 0
    PROVE  faults = 0 /\ (Leave \/ Pause \/ Advance)
<1>1. CASE LoadResume \/ PassTransfer \/ Finalize \/ RenameAgain
  BY <1>1 DEF LoadResume, PassTransfer, Finalize, RenameAgain, Advance, counters
<1>2. CASE LoadFresh
  BY <1>2, NoFault DEF LoadFresh, Advance, counters
<1>3. ASSUME NEW reuse \in BOOLEAN, OpenSink(reuse)
      PROVE  faults = 0 /\ Advance
  <2>1. reuse = Reusable /\ UNCHANGED counters
    BY <1>3, NoFault DEF OpenSink
  <2> QED
    BY Zenon, <1>3, <2>1 DEF Advance, counters
<1>4. CASE SaveState
  BY <1>4, NoFault DEF SaveState, Save, Advance, counters
<1>5. CASE RefuseTransfer
  BY <1>5, RefuseLeaves DEF RefuseTransfer
<1>6. CASE OpenFails \/ FlushFails \/ FinalizeRemoves
  BY <1>6, NoFault DEF OpenFails, FlushFails, FinalizeRemoves
<1>7. CASE RenameFails
  <2>1. View = partial
    BY <1>7, ViewType DEF RenameFails, Shape, Sinking
  <2> QED
    BY <1>7, <2>1 DEF RenameFails, Return, Leave, Returned, counters
<1>8. CASE Cleanup
  BY <1>8, NoFault DEF Cleanup, Advance, counters
<1>9. CASE SendAck
  <2>1. View = partial
    BY <1>9, ViewType DEF SendAck, Shape, Sinking
  <2> QED
    BY <1>9, <2>1 DEF SendAck, Return, Leave, Returned, counters
<1> QED
  BY SMTT(30), <1>1, <1>2, <1>3, <1>4, <1>5, <1>6, <1>7, <1>8, <1>9 DEF Work

LEMMA DieLeaves ==
    ASSUME Shape, NEW file, Die(file), partial' = file => Killed, faults' = 0
    PROVE  faults = 0 /\ Leave
  BY DEF Die, Leave, Shape, TypeOK

LEMMA QuietOthers ==
    ASSUME Shape, NEW f \in ClientFrames \cup {None},
           Accept \/ KillInWrite(f) \/ SendFails \/ Kill \/ Restart \/ UNCHANGED vars,
           faults' = 0
    PROVE  faults = 0 /\ (Leave \/ Pause \/ Advance)
<1>1. CASE Accept \/ Restart
  BY <1>1 DEF Accept, Restart, Pause, counters
<1>2. CASE KillInWrite(f)
  <2>1. PICK file \in PartlyWritten(f.body) : Die(file)
    BY <1>2 DEF KillInWrite
  <2>2. f \in ClientFrames /\ pc = "chunks" /\ ChunkVerdict(f) = "chunk"
    BY <1>2 DEF KillInWrite, ChunkVerdict
  <2>3. partial' = file => Killed
    BY Zenon, <2>1, <2>2 DEF Killed
  <2> QED
    BY <2>1, <2>3, DieLeaves
<1>3. CASE OpenUnsent
  BY <1>3 DEF OpenUnsent, Return, Leave, Returned, counters
<1>4. CASE AckUnsent
  <2>1. View = partial
    BY <1>4, ViewType DEF AckUnsent, Shape, Sinking
  <2> QED
    BY <1>4, <2>1 DEF AckUnsent, Return, Leave, Returned, counters
<1>5. CASE Kill
  <2>1. PICK file \in PartlyFlushed \cup {partial} : Die(file)
    BY <1>5 DEF Kill
  <2>2. partial' = file => Killed
    BY <2>1 DEF Killed
  <2> QED
    BY <2>1, <2>2, DieLeaves
<1>6. CASE UNCHANGED vars
  BY <1>6 DEF vars, Pause, counters
<1> QED
  BY <1>1, <1>2, <1>3, <1>4, <1>5, <1>6 DEF SendFails

LEMMA QuietStep ==
    ASSUME Shape, [Next]_vars, faults' = 0
    PROVE  faults = 0 /\ (Leave \/ Pause \/ Advance)
<1>1. ASSUME NEW f \in PeerFrames \cup {None}, Receive(f) \/ KillInWrite(f)
      PROVE  faults = 0 /\ (Leave \/ Pause \/ Advance)
  <2>1. f \in ClientFrames \cup {None}
    BY ReceiverAssumption
  <2> QED
    BY <1>1, <2>1, QuietReceive, QuietOthers
<1> QED
  BY <1>1, QuietWork, QuietOthers DEF Next

-----------------------------------------------------------------------------
(***************************************************************************)
(* The sidecar and the manifest.  Between the load and the removal, a      *)
(* sidecar is about the manifest of the session, and the session knows at  *)
(* least the chunks it records.                                            *)
(***************************************************************************)
Tracked ==
    faults = 0 =>
        /\ pc # "rename2"
        /\ pc \in {"open"} \cup Sinking /\ ftxstate # None =>
              Resumable(ftxstate, man) /\ ftxstate.got \subseteq got
        /\ pc = "open" =>
              IF resume THEN ftxstate # None /\ got = ftxstate.got
              ELSE ftxstate = None /\ got = {}
        /\ pc = "ack" => ftxstate = None

LEMMA TrackedAdvance ==
    ASSUME Shape, Tracked, Advance, faults = 0
    PROVE  Tracked'
<1>1. ASSUME NEW f \in ClientFrames, TakeManifest(f)
      PROVE  Tracked'
  BY <1>1, ZenonT(40) DEF TakeManifest, Tracked, Sinking
<1>2. ASSUME NEW f \in ClientFrames, TakeComplete(f)
      PROVE  Tracked'
  BY <1>2 DEF TakeComplete, Tracked, Sinking, disk, progress, Resumable
<1>3. ASSUME NEW f \in ClientFrames, NEW mode \in WriteModes, WriteChunk(f, mode)
      PROVE  Tracked'
  <2>1. /\ pc = "chunks" /\ pc' = "save" /\ got \subseteq got'
        /\ ftxstate' = ftxstate /\ man' = man
    BY <1>3 DEF WriteChunk
  <2> QED
    BY <2>1 DEF Tracked, Sinking, Resumable
<1>4. CASE LoadResume
  BY <1>4 DEF LoadResume, Tracked, Sinking, disk, Resumable
<1>5. CASE LoadFresh /\ ftxstate' = None
  BY <1>5 DEF LoadFresh, Tracked, Sinking, session, progress, Shape, Starting
<1>6. ASSUME NEW reuse \in BOOLEAN, OpenSink(reuse)
      PROVE  Tracked'
  BY <1>6 DEF OpenSink, Tracked, Sinking, Resumable
<1>7. CASE Save
  BY <1>7 DEF Save, SaveState, Tracked, Sinking, Resumable, session, progress
<1>8. CASE PassTransfer
  BY <1>8, ZenonT(40) DEF PassTransfer, Tracked, Sinking, Resumable, progress
<1>9. CASE Finalize \/ RenameAgain
  BY <1>9 DEF Finalize, RenameAgain, Tracked, Sinking
<1>10. CASE Cleanup /\ ftxstate' = None
  BY <1>10 DEF Cleanup, Tracked, Sinking
<1> QED
  BY <1>1, <1>2, <1>3, <1>4, <1>5, <1>6, <1>7, <1>8, <1>9, <1>10 DEF Advance

LEMMA NextTracked ==
    ASSUME Shape, Tracked, [Next]_vars
    PROVE  Tracked'
<1> SUFFICES ASSUME faults' = 0 PROVE Tracked'
  BY DEF Tracked
<1>1. faults = 0 /\ (Leave \/ Pause \/ Advance)
  BY QuietStep
<1>2. CASE Leave
  BY <1>2 DEF Leave, Tracked, Sinking
<1>3. CASE Pause
  BY <1>1, <1>3 DEF Pause, Tracked, Sinking, Resumable, disk, session, progress
<1> QED
  BY <1>1, <1>2, <1>3, TrackedAdvance

LEMMA TrackedAlways == Spec => [](Shape /\ Tracked)
<1>1. Init => Shape /\ Tracked
  BY InitShape DEF Init, Tracked, Sinking
<1>2. Shape /\ Tracked /\ [Next]_vars => (Shape /\ Tracked)'
  BY NextShape, NextTracked
<1> QED
  BY <1>1, <1>2, PTL DEF Spec

\* Without a failing operation, the sidecar gives up a recorded chunk only for
\* another manifest or after delivery, in any number of sessions cut short at any
\* point (ResumeState::save after every chunk, ResumeState::remove).
THEOREM NoGroundLost == Spec => NoLostGround
<1>1. ASSUME Shape, Tracked, [Next]_vars, faults' = 0, ftxstate # None, ftxstate' # ftxstate
      PROVE  \/ pc = "cleanup"
             \/ pc = "load" /\ ~Resumable(ftxstate, man)
             \/ /\ ftxstate' # None
                /\ ftxstate'.id = ftxstate.id
                /\ ftxstate.got \subseteq ftxstate'.got
  <2>1. faults = 0 /\ (Leave \/ Pause \/ Advance)
    BY <1>1, QuietStep
  <2>2. Advance
    BY <1>1, <2>1 DEF Leave, Pause, disk
  <2>3. CASE Save
    <3>1. Resumable(ftxstate, man) /\ ftxstate.got \subseteq got
      BY <1>1, <2>1, <2>3 DEF Save, SaveState, Tracked, Sinking
    <3>2. ftxstate' # None
      <4>1. man \in Manifests /\ got \in SUBSET Nat
        BY <1>1, <2>3 DEF Save, SaveState, Shape, TypeOK
      <4>2. man.chunk_count \in Nat
        BY <4>1 DEF Manifests, ManifestMsg
      <4>3. ftxstate' \in Sidecars
        BY <2>3, <4>1, <4>2 DEF Save, Sidecars, blake3
      <4> QED
        BY <4>3, ReceiverAssumption
    <3>3. ftxstate'.id = blake3(man) /\ ftxstate'.got = got
      BY <2>3 DEF Save
    <3> QED
      BY <3>1, <3>2, <3>3 DEF Resumable
  <2>4. CASE LoadFresh \/ Cleanup
    BY <2>4 DEF LoadFresh, Cleanup
  <2>5. CASE \/ \E f \in ClientFrames : TakeManifest(f) \/ TakeComplete(f)
             \/ \E f \in ClientFrames, mode \in WriteModes : WriteChunk(f, mode)
             \/ LoadResume
             \/ \E reuse \in BOOLEAN : OpenSink(reuse)
             \/ PassTransfer \/ Finalize \/ RenameAgain
    BY <1>1, <2>5, ZenonT(40) DEF TakeManifest, TakeComplete, WriteChunk, LoadResume, OpenSink,
                      PassTransfer, Finalize, RenameAgain, disk
  <2> QED
    BY <2>2, <2>3, <2>4, <2>5, Zenon DEF Advance
<1> QED
  BY <1>1, TrackedAlways, PTL DEF Spec, NoLostGround

-----------------------------------------------------------------------------
(***************************************************************************)
(* The ACK.                                                                *)
(***************************************************************************)

\* Of all that the server sends, only SendAck sends an ACK.
LEMMA AckStep ==
    ASSUME Shape, [Next]_vars, Len(s2c') > Len(s2c), s2c'[Len(s2c')].type = "ACK"
    PROVE  SendAck
<1>1. s2c \in Seq(ServerFrames) /\ Len(s2c) \in Nat
  BY DEF Shape, TypeOK
<1>2. ASSUME NEW g, g \in ServerFrames, g.type # "ACK", s2c' = s2c \o <<g>>
      PROVE  FALSE
  BY <1>1, <1>2
<1>3. s2c' # s2c /\ s2c' # <<>> /\ s2c' # s2c \o <<>>
  BY <1>1
<1>4. ASSUME NEW code \in ErrorCodes, s2c' = s2c \o <<ErrorFrame(code)>>
      PROVE  FALSE
  <2>1. ErrorFrame(code) \in ServerFrames /\ ErrorFrame(code).type = "ERROR"
    BY DEF ErrorFrame, Frame, ServerFrames
  <2> QED
    BY <1>2, <1>4, <2>1
<1>5. ASSUME NEW verdict \in ErrorCodes \cup {"drop"}, Refuse(verdict)
      PROVE  FALSE
  BY <1>3, <1>4, <1>5 DEF Refuse, Return
<1>6. ASSUME NEW file, Return(file, InternalError)
      PROVE  FALSE
  BY <1>4, <1>6 DEF Return, InternalError, ErrorCodes
<1>7. ASSUME NEW f \in ClientFrames \cup {None}, Receive(f) \/ KillInWrite(f)
      PROVE  FALSE
  <2>1. CASE RefuseHello(f) \/ RefuseManifest(f) \/ RefuseChunk(f)
    BY <1>5, <2>1, VerdictTypes DEF RefuseHello, RefuseManifest, RefuseChunk
  <2>2. CASE AnswerHello(f)
    <3> DEFINE g == Frame("HELLO", [version |-> kProtocolVersion])
    <3>1. g \in ServerFrames /\ g.type # "ACK"
      BY DataAssumption DEF Frame, ServerFrames, HelloMsg
    <3>2. s2c' = Append(s2c, g)
      BY <2>2 DEF AnswerHello
    <3>3. s2c' = s2c \o <<g>>
      BY <1>1, <3>1, <3>2
    <3> HIDE DEF g
    <3> QED
      BY <1>2, <3>1, <3>3
  <2>3. CASE WriteFails(f)
    BY <1>6, <2>3 DEF WriteFails
  <2>4. CASE TakeManifest(f) \/ TakeComplete(f) \/ KillInWrite(f)
    BY <1>3, <2>4 DEF TakeManifest, TakeComplete, KillInWrite, Die
  <2>5. ASSUME NEW mode \in WriteModes, WriteChunk(f, mode)
        PROVE  FALSE
    BY <1>3, <2>5, ZenonT(40) DEF WriteChunk
  <2> QED
    BY <1>7, <2>1, <2>2, <2>3, <2>4, <2>5, ZenonT(40) DEF Receive
<1>8. ASSUME NEW reuse \in BOOLEAN, OpenSink(reuse)
      PROVE  FALSE
  <2> DEFINE g == Frame("REQ_CHUNKS", [indices |-> Missing])
  <2>1. Missing \in SUBSET Nat
    <3>1. man.chunk_count \in Nat
      BY <1>8 DEF OpenSink, Shape, TypeOK, Manifests, ManifestMsg
    <3> QED
      BY <3>1 DEF Missing
  <2>2. g \in ServerFrames /\ g.type # "ACK"
    BY <2>1, ZenonT(40) DEF Frame, ServerFrames
  <2>3. s2c' = Append(s2c, g)
    BY <1>8 DEF OpenSink
  <2>4. s2c' = s2c \o <<g>>
    BY <1>1, <2>2, <2>3
  <2> HIDE DEF g
  <2> QED
    BY <1>2, <2>2, <2>4
<1>9. ASSUME Work, ~SendAck
      PROVE  FALSE
  <2>1. CASE OpenFails \/ FlushFails \/ RenameFails
    BY <1>6, <2>1 DEF OpenFails, FlushFails, RenameFails
  <2>2. CASE RefuseTransfer
    BY <1>5, <2>2, VerdictTypes DEF RefuseTransfer
  <2>3. CASE \/ LoadResume \/ LoadFresh \/ SaveState \/ PassTransfer \/ Finalize
             \/ FinalizeRemoves \/ RenameAgain \/ Cleanup
    BY <1>3, <2>3, ZenonT(40) DEF LoadResume, LoadFresh, SaveState, PassTransfer, Finalize,
                      FinalizeRemoves, RenameAgain, Cleanup
  <2> QED
    BY <1>8, <1>9, <2>1, <2>2, <2>3 DEF Work
<1>10. ~(Accept \/ SendFails \/ Kill \/ Restart \/ UNCHANGED vars)
  BY <1>3 DEF Accept, SendFails, OpenUnsent, AckUnsent, Kill, Restart, Return, Die, vars
<1>11. PeerFrames \cup {None} \subseteq ClientFrames \cup {None}
  BY ReceiverAssumption
<1> QED
  BY <1>7, <1>9, <1>10, <1>11 DEF Next

\* An ACK leaves the server only when the destination has been written and nothing
\* is left to resume; the destination then holds the content of the manifest, if
\* .partial was read back or the declared chunks fit (steps 4 and 5 of
\* handle_session_).
THEOREM AckDelivered == Spec => AckMeansDelivered
<1>1. ASSUME IInv, Tracked, [Next]_vars, Len(s2c') > Len(s2c),
             s2c'[Len(s2c')].type = "ACK"
      PROVE  /\ dest # None /\ (Vouched => blake3(dest) = man.root_hash)
             /\ partial = None
             /\ faults = 0 => ftxstate = None
  <2>1. pc = "ack"
    BY <1>1, AckStep DEF IInv, SendAck
  <2> QED
    BY <1>1, <2>1, ZenonT(40) DEF IInv, Verified, Tracked
<1> QED
  BY <1>1, IInvAlways, TrackedAlways, PTL DEF Spec, AckMeansDelivered

-----------------------------------------------------------------------------
(***************************************************************************)
(* What the sidecar records is in .partial.  The size is part of the       *)
(* invariant: a .partial that is too short would be truncated by open(),   *)
(* with the bits of its chunks still set.                                  *)
(***************************************************************************)
Held(m, done, file) ==
    /\ Len(file) = m.file_size
    /\ \A i \in done : i < m.chunk_count
    /\ ChunksFit(m) => \A i \in done : OnDisk(m, i, file)

\* Chunks of at most s bytes at multiples of s lie apart.
LEMMA ChunksApart ==
    ASSUME NEW i \in Nat, NEW c \in Nat, i # c, NEW s \in Nat, NEW k \in 1 .. s,
           NEW l \in 0 .. s
    PROVE  i * s + k \notin c * s + 1 .. c * s + l
<1>1. ASSUME NEW a \in Nat, NEW b \in Nat, a < b PROVE a * s + s <= b * s
  <2>1. PICK d \in Nat : b = a + 1 + d
    <3>1. b - a - 1 \in Nat /\ b = a + 1 + (b - a - 1)
      BY <1>1
    <3> QED
      BY <3>1
  <2>2. b * s = a * s + s + d * s /\ d * s \in Nat /\ a * s \in Nat
    BY <2>1
  <2> QED
    BY <2>2
<1>2. i * s \in Nat /\ c * s \in Nat
  OBVIOUS
<1>3. CASE i < c
  <2>1. i * s + s <= c * s
    BY <1>1, <1>3
  <2> QED
    BY <1>2, <2>1
<1>4. CASE c < i
  <2>1. c * s + s <= i * s
    BY <1>1, <1>4
  <2> QED
    BY <1>2, <2>1
<1> QED
  BY <1>3, <1>4

\* Writing one more chunk leaves the others as they are.
LEMMA HeldWrite ==
    ASSUME NEW m \in Manifests, NEW file \in Files, NEW done \in SUBSET Nat,
           Held(m, done, file), NEW c \in Nat, c < m.chunk_count,
           c * m.chunk_size + Len(Declared(m, c)) <= m.file_size
    PROVE  Held(m, done \cup {c}, WriteAt(file, c * m.chunk_size, Declared(m, c)))
<1> DEFINE d   == Declared(m, c)
           s   == m.chunk_size
           at  == c * s
           new == WriteAt(file, at, d)
<1>1. s \in Nat /\ m.file_size \in Nat /\ m.chunk_count \in Nat
  BY DEF Manifests, ManifestMsg
<1>2. d \in Files /\ Len(d) \in Nat /\ at \in Nat /\ Len(file) = m.file_size
  BY <1>1, DeclaredType DEF Held
<1>3. /\ Len(new) = Len(file)
      /\ \A j \in 1 .. Len(file) :
            new[j] = IF j \in at + 1 .. at + Len(d) THEN d[j - at] ELSE file[j]
  <2>1. at + Len(d) <= Len(file)
    BY <1>2
  <2> HIDE DEF d, at
  <2> QED
    BY Zenon, <1>2, <2>1, WriteInside
<1>4. ASSUME ChunksFit(m), NEW i \in done \cup {c}
      PROVE  OnDisk(m, i, new)
  <2>1. CASE i = c
    <3>1. ASSUME NEW k \in 1 .. Len(d)
          PROVE  at + k <= Len(new) /\ new[at + k] = d[k]
      <4>1. at + Len(d) <= Len(file)
        BY <1>2
      <4> HIDE DEF d, at, new
      <4>2. at + k \in 1 .. Len(file) /\ at + k \in at + 1 .. at + Len(d) /\ (at + k) - at = k
            /\ at + k <= Len(file)
        BY <1>1, <1>2, <4>1
      <4> QED
        BY <1>3, <4>2
    <3>2. OnDisk(m, c, new)
      BY <3>1 DEF OnDisk
    <3> QED
      BY <2>1, <3>2
  <2>2. CASE i # c
    <3>1. i \in done /\ i \in Nat
      BY <2>2
    <3>2. i < m.chunk_count /\ OnDisk(m, i, file)
      BY <1>4, <3>1 DEF Held
    <3>3. Len(Declared(m, i)) \in Nat /\ Len(Declared(m, i)) <= s
      BY <1>4, <3>1, <3>2, DeclaredType, FittingChunk
    <3>4. ASSUME NEW k \in 1 .. Len(Declared(m, i))
          PROVE  i * s + k <= Len(new) /\ new[i * s + k] = Declared(m, i)[k]
      <4>1. i * s + k <= Len(file) /\ file[i * s + k] = Declared(m, i)[k]
        BY <3>2, <3>4 DEF OnDisk
      <4>2. k \in 1 .. s /\ Len(d) \in 0 .. s /\ i * s \in Nat
        <5>1. Len(d) <= s
          BY <1>4, FittingChunk
        <5> HIDE DEF d, s
        <5>2. i * s \in Nat
          BY <1>1, <3>1
        <5> QED
          BY <1>1, <1>2, <3>3, <5>1, <5>2
      <4>3. i * s + k \notin at + 1 .. at + Len(d)
        <5> HIDE DEF d, s
        <5> QED
          BY Zenon, <1>1, <2>2, <3>1, <4>2, ChunksApart
      <4> HIDE DEF d, at, new, s
      <4>4. i * s + k \in 1 .. Len(file)
        BY <1>1, <1>2, <4>1, <4>2
      <4> QED
        BY <1>3, <4>1, <4>3, <4>4
    <3>5. OnDisk(m, i, new)
      BY <3>4 DEF OnDisk
    <3> QED
      BY <3>5
  <2> QED
    BY <2>1, <2>2
<1> HIDE DEF d, s, at, new
<1>5. Held(m, done \cup {c}, new)
  BY <1>2, <1>3, <1>4 DEF Held
<1> QED
  BY <1>5 DEF new, at, d, s

Retained ==
    kills = 0 /\ faults = 0 =>
        /\ ftxstate # None /\ pc # "cleanup" =>
              partial # None /\ Held(ftxstate.id.digest, ftxstate.got, View)
        /\ pc \in Sinking => Held(man, got, View)

LEMMA HeldFewer ==
    ASSUME NEW m, NEW done, NEW fewer \in SUBSET done, NEW file, Held(m, done, file)
    PROVE  Held(m, fewer, file)
  BY DEF Held

\* A sidecar of the session's manifest is about that manifest.
LEMMA OwnSidecar ==
    ASSUME Resumable(ftxstate, man)
    PROVE  ftxstate.id.digest = man
  BY DEF Resumable, blake3

LEMMA RetainedOpen ==
    ASSUME Shape, Tracked, Retained, pc = "open", kills = 0, faults = 0
    PROVE  /\ Held(man, got, Flushed(Opened(Reusable).file, Opened(Reusable).buf))
           /\ Flushed(Opened(Reusable).file, Opened(Reusable).buf) # None
<1>1. man \in Manifests /\ man.file_size \in Nat
  <2>1. man \in Manifests
    BY DEF Shape, TypeOK
  <2> QED
    BY <2>1 DEF Manifests, ManifestMsg
<1>2. CASE resume
  <2>1. ftxstate # None /\ got = ftxstate.got /\ ftxstate.id.digest = man
    BY <1>2, OwnSidecar DEF Tracked
  <2>2. partial # None /\ Held(man, got, View) /\ View = partial
    BY <2>1, ViewType DEF Retained, Shape, Sinking
  <2>3. Reusable
    BY <1>1, <1>2, <2>2 DEF Reusable, Held
  <2>4. Flushed(Opened(Reusable).file, Opened(Reusable).buf) = partial
    BY <2>3, ZenonT(40) DEF Opened, Flushed
  <2> QED
    BY <2>2, <2>4
<1>3. CASE ~resume
  <2>1. got = {} /\ ~Reusable
    BY <1>3 DEF Tracked, Reusable
  <2>2. /\ Opened(Reusable).file = <<>>
        /\ Opened(Reusable).buf = Presize(man.file_size)
    BY <2>1 DEF Opened
  <2>3. /\ Flushed(<<>>, Presize(man.file_size)) \in Files
        /\ Len(Flushed(<<>>, Presize(man.file_size))) = man.file_size
    BY <1>1, PresizeFacts, Zenon
  <2> QED
    BY <2>1, <2>2, <2>3, NoneAssumption DEF Held
<1> QED
  BY <1>2, <1>3 DEF Shape, TypeOK

LEMMA RetainedWrite ==
    ASSUME Shape, Tracked, Retained, NEW f \in ClientFrames, NEW mode \in WriteModes,
           WriteChunk(f, mode), kills = 0, faults = 0
    PROVE  Held(man, got', View') /\ View' \in Files
<1> DEFINE c == f.body
<1>1. pc = "chunks" /\ ChunkVerdict(f) = "chunk" /\ got' = got \cup {c.index}
  BY Zenon DEF WriteChunk
<1>2. /\ c.index \in Nat /\ c.index < man.chunk_count /\ Declared(man, c.index) = c.data
      /\ c.index * man.chunk_size + Len(c.data) <= man.file_size /\ man \in Manifests
  BY Zenon, <1>1, ChunkDeclared
<1>4. View \in Files /\ View' = WriteAt(View, c.index * man.chunk_size, c.data)
  BY WriteChunkView DEF Offset
<1>5. Held(man, got, View) /\ got \in SUBSET Nat
  BY <1>1 DEF Retained, Sinking, Shape, TypeOK
<1> HIDE DEF c
<1>6. Held(man, got', View')
  BY Zenon, <1>1, <1>2, <1>4, <1>5, HeldWrite
<1>7. c.index * man.chunk_size \in Nat /\ c.data \in Files
  <2>1. man.chunk_size \in Nat /\ c.index \in Nat /\ c.data \in Files
    BY <1>2, DeclaredType DEF Manifests, ManifestMsg
  <2> QED
    BY <2>1
<1> QED
  BY Zenon, <1>4, <1>6, <1>7, WriteAtFacts

\* With the sidecar about the session's manifest, the two halves are one.
LEMMA RetainedSinking ==
    ASSUME kills' = 0, faults' = 0, Tracked', pc' \in Sinking, partial' # None,
           Held(man, got, View)'
    PROVE  Retained'
<1>1. ASSUME ftxstate' # None PROVE Held(ftxstate.id.digest, ftxstate.got, View)'
  <2>1. ftxstate'.id.digest = man' /\ ftxstate'.got \subseteq got'
    BY <1>1 DEF Tracked, Resumable, blake3
  <2>2. Held(man', got', View')
    OBVIOUS
  <2>3. Held(man', ftxstate'.got, View')
    BY <2>1, <2>2, HeldFewer
  <2> QED
    BY <2>1, <2>3
<1> QED
  BY <1>1 DEF Retained

LEMMA RetainedAdvance ==
    ASSUME Shape, Shape', Tracked, Tracked', Retained, Advance,
           kills = 0, kills' = 0, faults = 0, faults' = 0
    PROVE  Retained'
<1>1. ASSUME NEW f \in ClientFrames, TakeManifest(f)
      PROVE  Retained'
  <2>1. View' = View /\ pc = "manifest" /\ pc' = "load" /\ UNCHANGED disk
    BY <1>1 DEF TakeManifest, View, Flushed, disk
  <2> QED
    BY <2>1 DEF Retained, Sinking, disk
<1>2. ASSUME NEW f \in ClientFrames, TakeComplete(f)
      PROVE  Retained'
  <2>1. View' = View /\ pc = "chunks" /\ pc' = "verify" /\ UNCHANGED <<disk, man, got>>
    BY <1>2 DEF TakeComplete, View, Flushed, disk, progress
  <2> QED
    BY <2>1 DEF Retained, Sinking, disk
<1>3. ASSUME NEW f \in ClientFrames, NEW mode \in WriteModes, WriteChunk(f, mode)
      PROVE  Retained'
  <2>1. Held(man, got', View') /\ man' = man /\ pc' = "save"
    BY <1>3, RetainedWrite, ZenonT(40) DEF WriteChunk
  <2>2. pc' \in Sinking /\ partial' # None
    BY <2>1 DEF Shape, Sinking
  <2> QED
    BY <2>1, <2>2, RetainedSinking
<1>4. CASE LoadResume
  <2>1. View' = View /\ pc = "load" /\ pc' = "open" /\ UNCHANGED disk
    BY <1>4 DEF LoadResume, View, Flushed, disk
  <2> QED
    BY <2>1 DEF Retained, Sinking, disk
<1>5. CASE LoadFresh /\ ftxstate' = None
  BY <1>5 DEF LoadFresh, Retained, Sinking
<1>6. ASSUME NEW reuse \in BOOLEAN, OpenSink(reuse), reuse = Reusable
      PROVE  Retained'
  <2>1. /\ pc = "open" /\ pc' = "chunks" /\ man' = man /\ got' = got
        /\ partial' = Opened(Reusable).file /\ buf' = Opened(Reusable).buf
    BY <1>6 DEF OpenSink
  <2>2. View' = Flushed(Opened(Reusable).file, Opened(Reusable).buf)
    BY <2>1 DEF View
  <2>3. Held(man, got, View)' /\ pc' \in Sinking /\ partial' # None
    BY <2>1, <2>2, RetainedOpen, ZenonT(40) DEF Shape, Sinking
  <2> QED
    BY <2>3, RetainedSinking
<1>7. CASE Save
  <2>1. /\ pc = "save" /\ pc' = "chunks" /\ UNCHANGED <<partial, buf, man, got>>
    BY <1>7 DEF Save, SaveState, session, progress
  <2>2. View' = View
    BY <2>1 DEF View, Flushed
  <2>3. Held(man, got, View)' /\ pc' \in Sinking /\ partial' # None
    BY <2>1, <2>2 DEF Retained, Sinking, Shape
  <2> QED
    BY <2>3, RetainedSinking
<1>8. CASE PassTransfer
  <2>1. pc = "verify" /\ pc' = "finalize" /\ UNCHANGED <<man, got, ftxstate>>
    BY <1>8 DEF PassTransfer, progress
  <2>2. View' = View
    BY <1>8 DEF PassTransfer, View, Flushed
  <2>3. Held(man, got, View)' /\ pc' \in Sinking /\ partial' # None
    BY <2>1, <2>2 DEF Retained, Sinking, Shape
  <2> QED
    BY <2>3, RetainedSinking
<1>9. CASE Finalize
  BY <1>9 DEF Finalize, Retained, Sinking
<1>10. CASE RenameAgain
  BY <1>10 DEF RenameAgain, Tracked
<1>11. CASE Cleanup /\ ftxstate' = None
  BY <1>11 DEF Cleanup, Retained, Sinking
<1> QED
  BY <1>1, <1>2, <1>3, <1>4, <1>5, <1>6, <1>7, <1>8, <1>9, <1>10, <1>11 DEF Advance

LEMMA NextRetained ==
    ASSUME Shape, Tracked, Retained, [Next]_vars
    PROVE  Retained'
<1> SUFFICES ASSUME kills' = 0, faults' = 0 PROVE Retained'
  BY DEF Retained
<1>1. faults = 0 /\ (Leave \/ Pause \/ Advance)
  BY QuietStep
<1>2. kills = 0
  <2>1. kills' = kills \/ kills' = kills + 1
    <3>1. ASSUME NEW f \in PeerFrames \cup {None}, Receive(f) \/ KillInWrite(f)
          PROVE  kills' = kills \/ kills' = kills + 1
      BY ZenonT(30), <3>1
         DEF Receive, RefuseHello, AnswerHello, RefuseManifest, TakeManifest, RefuseChunk,
             TakeComplete, WriteChunk, WriteFails, KillInWrite, Refuse, Die, Fault, counters
    <3>2. ASSUME Work PROVE kills' = kills
      BY ZenonT(30), <3>2
         DEF Work, LoadResume, LoadFresh, OpenSink, OpenFails, SaveState, RefuseTransfer,
             PassTransfer, FlushFails, Finalize, FinalizeRemoves, RenameAgain, RenameFails,
             Cleanup, SendAck, Refuse, Fault, counters
    <3>3. ASSUME Accept \/ SendFails \/ Kill \/ Restart \/ UNCHANGED vars
          PROVE  kills' = kills \/ kills' = kills + 1
      BY <3>3 DEF Accept, SendFails, OpenUnsent, AckUnsent, Kill, Restart, Die, counters, vars
    <3> QED
      BY <3>1, <3>2, <3>3 DEF Next
  <2> QED
    BY <2>1 DEF Shape, TypeOK
<1>3. Shape' /\ Tracked'
  BY NextShape, NextTracked
<1>4. CASE Leave
  <2>1. Returned /\ ftxstate' = ftxstate /\ pc' \in {"idle", "down"} /\ buf' = <<>>
    BY <1>2, <1>4 DEF Leave, ResetSession
  <2>2. View' = partial'
    BY <2>1 DEF View, Flushed
  <2>3. SUFFICES ASSUME ftxstate # None
                 PROVE  partial' # None /\ Held(ftxstate.id.digest, ftxstate.got, partial')
    BY <2>1, <2>2 DEF Retained, Sinking
  <2>4. CASE partial' = View /\ pc # "cleanup"
    <3>1. partial # None /\ Held(ftxstate.id.digest, ftxstate.got, View)
      BY <1>1, <1>2, <2>3, <2>4 DEF Retained
    <3> QED
      BY <2>4, <3>1, ViewType, NoneAssumption
  <2>5. CASE pc = "open" /\ partial' = Flushed(Opened(Reusable).file, Opened(Reusable).buf)
    <3>1. Held(man, got, partial') /\ partial' # None
      BY <1>1, <1>2, <2>5, RetainedOpen
    <3>2. ftxstate.id.digest = man /\ ftxstate.got \subseteq got
      BY <1>1, <2>3, <2>5, OwnSidecar DEF Tracked
    <3> QED
      BY <3>1, <3>2, HeldFewer
  <2> QED
    BY <2>1, <2>4, <2>5 DEF Returned
<1>5. CASE Pause
  <2>1. View' = View /\ UNCHANGED <<disk, man, got>>
    BY <1>5 DEF Pause, session, progress, disk, View, Flushed
  <2> QED
    BY <1>1, <1>2, <1>5, <2>1 DEF Pause, Retained, Sinking, disk
<1> QED
  BY <1>1, <1>2, <1>3, <1>4, <1>5, RetainedAdvance

LEMMA RetainedAlways == Spec => [](Shape /\ Retained)
<1>1. Init => Retained
  BY DEF Init, Retained, Sinking
<1>2. Shape /\ Tracked /\ Retained /\ [Next]_vars => Retained'
  BY NextRetained
<1> QED
  BY <1>1, <1>2, TrackedAlways, PTL DEF Spec

\* As long as nothing was killed and no operation failed, every chunk that the
\* sidecar records is in .partial or in the buffer of the sink's stream, if the
\* manifest declares none longer than chunk_size, through any number of dropped
\* and resumed sessions with any manifests.
THEOREM RecordedIsHeldAlways == Spec => []RecordedIsHeld
<1>1. Shape /\ Retained => RecordedIsHeld
  BY DEF Retained, Held, RecordedIsHeld
<1> QED
  BY <1>1, RetainedAlways, PTL

-----------------------------------------------------------------------------
(***************************************************************************)
(* A sidecar and the .partial beside it are of one manifest, also after a  *)
(* kill in the middle of a write.  What is pending is part of the          *)
(* invariant, since a kill may let any prefix of it through.               *)
(***************************************************************************)
OwnedAt(m, j, v) ==
    \/ v = Zero
    \/ \E i \in 0 .. m.chunk_count - 1 :
          /\ j - i * m.chunk_size \in 1 .. Len(Declared(m, i))
          /\ v = Declared(m, i)[j - i * m.chunk_size]

Owned(m, file) == \A j \in 1 .. Len(file) : OwnedAt(m, j, file[j])

OwnWrite(m, at, data) ==
    \/ data = <<Zero>>
    \/ \E i \in 0 .. m.chunk_count - 1 : at = i * m.chunk_size /\ data = Declared(m, i)

LEMMA OwnedWrite ==
    ASSUME NEW m \in Manifests, NEW file \in Files, Owned(m, file), NEW at \in Nat,
           NEW data \in Files, OwnWrite(m, at, data), NEW k \in 0 .. Len(data)
    PROVE  /\ Owned(m, WriteAt(file, at, Cut(data, k)))
           /\ Owned(m, WriteAt(file, at, data))
<1>1. Len(data) \in Nat /\ Len(file) \in Nat
  BY DEF Files
<1>2. ASSUME NEW l \in 0 .. Len(data)
      PROVE  Owned(m, WriteAt(file, at, Cut(data, l)))
  <2> DEFINE d   == Cut(data, l)
             new == WriteAt(file, at, d)
  <2>1. d \in Files /\ Len(d) = l /\ \A k1 \in 1 .. l : d[k1] = data[k1]
    <3>1. d = SubSeq(data, 1, l) /\ data \in Seq(Values)
      BY Zenon DEF Cut, Files
    <3>2. l \in Nat /\ l <= Len(data)
      BY <1>1
    <3> HIDE DEF d
    <3>3. d \in Seq(Values) /\ Len(d) = l /\ \A k1 \in 1 .. l : d[k1] = data[k1]
      BY <3>1, <3>2, SMTT(30)
    <3> QED
      BY <3>3, Zenon DEF Files
  <2>2. l \in Nat /\ l <= Len(data)
    BY <1>1
  <2> HIDE DEF d
  <2>3. new \in Files /\ Len(new) \in Nat
    BY <2>1, WriteAtFacts DEF Files
  <2>4. ASSUME NEW j \in 1 .. Len(new)
        PROVE  OwnedAt(m, j, new[j])
    <3>1. new[j] = IF j \in at + 1 .. at + l THEN d[j - at]
                   ELSE IF j <= Len(file) THEN file[j] ELSE Zero
      <4>1. Len(new) = IF d = <<>> \/ at + Len(d) <= Len(file) THEN Len(file)
                       ELSE at + Len(d)
        BY Zenon, <2>1, WriteAtFacts
      <4> QED
        BY <2>1, <4>1 DEF WriteAt
    <3>2. CASE j \in at + 1 .. at + l
      <4>1. j - at \in 1 .. l /\ j - at \in 1 .. Len(data)
        BY <1>1, <2>2, <3>2
      <4>2. new[j] = data[j - at]
        BY <2>1, <3>1, <3>2, <4>1
      <4>3. CASE data = <<Zero>>
        <5>1. j - at = 1
          BY <4>1, <4>3
        <5>2. data[1] = Zero
          BY <4>3
        <5>3. new[j] = Zero
          BY <4>2, <5>1, <5>2, Zenon
        <5> QED
          BY <5>3, Zenon DEF OwnedAt
      <4>4. CASE \E i \in 0 .. m.chunk_count - 1 :
                    at = i * m.chunk_size /\ data = Declared(m, i)
        BY <4>1, <4>2, <4>4, ZenonT(40) DEF OwnedAt
      <4> QED
        BY <4>3, <4>4 DEF OwnWrite
    <3>3. CASE j \notin at + 1 .. at + l /\ j <= Len(file)
      <4>1. j \in Nat /\ j >= 1
        BY <2>3
      <4>2. j \in 1 .. Len(file)
        BY <1>1, <3>3, <4>1
      <4>3. new[j] = file[j]
        BY <3>1, <3>3, Zenon
      <4> QED
        BY <4>2, <4>3, Zenon DEF Owned
    <3>4. CASE j \notin at + 1 .. at + l /\ ~(j <= Len(file))
      BY <3>1, <3>4, Zenon DEF OwnedAt
    <3> QED
      BY <3>2, <3>3, <3>4
  <2> QED
    BY <2>4, ZenonT(40) DEF Owned, d
<1>3. Cut(data, Len(data)) = data
  BY DEF Cut, Files
<1>4. Len(data) \in 0 .. Len(data)
  BY <1>1
<1> QED
  BY Zenon, <1>2, <1>3, <1>4

Consistent ==
    faults = 0 =>
        /\ ftxstate # None /\ partial # None => Owned(ftxstate.id.digest, partial)
        /\ pc \in Sinking =>
              /\ Owned(man, partial)
              /\ buf # <<>> => OwnWrite(man, buf[1].at, buf[1].data)

\* Whatever part of the pending write gets through, the file is the manifest's.
LEMMA OwnedFlush ==
    ASSUME Shape, Consistent, faults = 0, pc \in Sinking
    PROVE  Owned(man, View) /\ \A file \in PartlyFlushed : Owned(man, file)
<1>1. man \in Manifests /\ partial \in Files /\ Owned(man, partial)
  BY DEF Shape, TypeOK, Sinking, Consistent
<1>2. CASE buf = <<>>
  BY <1>1, <1>2 DEF View, Flushed, PartlyFlushed
<1>3. CASE buf # <<>>
  <2> DEFINE at == buf[1].at
             d  == buf[1].data
  <2>1. at \in Nat /\ d \in Files /\ OwnWrite(man, at, d)
    <3>1. buf[1] \in Pending
      BY <1>3 DEF Shape, TypeOK
    <3> QED
      BY <1>3, <3>1 DEF Pending, Consistent
  <2>2. View = WriteAt(partial, at, d)
    BY <1>3 DEF View, Flushed
  <2>3. PartlyFlushed = {WriteAt(partial, at, Cut(d, k)) : k \in 0 .. Len(d)}
    BY <1>3 DEF PartlyFlushed
  <2>4. 0 \in 0 .. Len(d)
    BY <2>1 DEF Files
  <2> HIDE DEF at, d
  <2>5. Owned(man, View)
    BY Zenon, <1>1, <2>1, <2>2, <2>4, OwnedWrite
  <2>6. ASSUME NEW file \in PartlyFlushed PROVE Owned(man, file)
    <3>1. PICK k \in 0 .. Len(d) : file = WriteAt(partial, at, Cut(d, k))
      BY Zenon, <2>3, <2>6
    <3> QED
      BY Zenon, <1>1, <2>1, <3>1, OwnedWrite
  <2> QED
    BY <2>5, <2>6
<1> QED
  BY <1>2, <1>3

\* An accepted chunk, complete or cut, keeps the file the manifest's.
LEMMA OwnedChunk ==
    ASSUME Shape, Consistent, faults = 0, NEW f \in ClientFrames, pc = "chunks",
           ChunkVerdict(f) = "chunk"
    PROVE  /\ OwnWrite(man, Offset(f.body.index), f.body.data)
           /\ Owned(man, WriteAt(View, Offset(f.body.index), f.body.data))
           /\ \A file \in PartlyWritten(f.body) : Owned(man, file)
<1> DEFINE at == Offset(f.body.index)
           d  == f.body.data
<1>1. at \in Nat /\ d \in Files /\ View \in Files
  BY Zenon, ChunkFacts
<1>2. /\ f.body.index \in Nat /\ f.body.index < man.chunk_count
      /\ Declared(man, f.body.index) = d /\ man \in Manifests
  BY Zenon, ChunkDeclared
<1>3. OwnWrite(man, at, d)
  <2>1. f.body.index \in 0 .. man.chunk_count - 1
    BY <1>2 DEF Manifests, ManifestMsg
  <2> QED
    BY Zenon, <1>2, <2>1 DEF OwnWrite, Offset
<1>4. Owned(man, View)
  BY OwnedFlush DEF Sinking
<1>5. 0 \in 0 .. Len(d)
  BY <1>1 DEF Files
<1>6. PartlyWritten(f.body) = {WriteAt(View, at, Cut(d, k)) : k \in 0 .. Len(d)}
  BY DEF PartlyWritten
<1> HIDE DEF at, d
<1>7. Owned(man, WriteAt(View, at, d))
  BY Zenon, <1>1, <1>2, <1>3, <1>4, <1>5, OwnedWrite
<1>8. ASSUME NEW file \in PartlyWritten(f.body) PROVE Owned(man, file)
  <2>1. PICK k \in 0 .. Len(d) : file = WriteAt(View, at, Cut(d, k))
    BY Zenon, <1>6, <1>8
  <2> QED
    BY Zenon, <1>1, <1>2, <1>3, <1>4, <2>1, OwnedWrite
<1> QED
  BY <1>3, <1>7, <1>8 DEF at, d

\* So does open(): it keeps a .partial only for the sidecar's manifest.
LEMMA OwnedOpen ==
    ASSUME Shape, Tracked, Consistent, faults = 0, pc = "open"
    PROVE  /\ Owned(man, Opened(Reusable).file)
           /\ Owned(man, Flushed(Opened(Reusable).file, Opened(Reusable).buf))
           /\ Opened(Reusable).buf # <<>> =>
                 OwnWrite(man, Opened(Reusable).buf[1].at, Opened(Reusable).buf[1].data)
<1>1. man \in Manifests /\ man.file_size \in Nat
  <2>1. man \in Manifests
    BY DEF Shape, TypeOK
  <2> QED
    BY <2>1, ZenonT(40) DEF Manifests, ManifestMsg
<1>2. CASE Reusable
  <2>1. ftxstate # None /\ ftxstate.id.digest = man /\ partial # None
    BY <1>2, OwnSidecar, ZenonT(40) DEF Reusable, Tracked
  <2>2. Owned(man, partial)
    BY <2>1 DEF Consistent
  <2> QED
    BY <1>2, <2>2, ZenonT(40) DEF Opened, Flushed
<1>3. CASE ~Reusable
  <2>1. Opened(Reusable).file = <<>> /\ Opened(Reusable).buf = Presize(man.file_size)
    BY <1>3 DEF Opened
  <2>2. Owned(man, <<>>) /\ <<>> \in Files
    BY DEF Owned, Files
  <2>3. CASE man.file_size = 0
    <3>1. Presize(man.file_size) = <<>>
      BY <2>3 DEF Presize
    <3>2. Flushed(<<>>, <<>>) = <<>>
      BY DEF Flushed
    <3> QED
      BY <2>1, <2>2, <3>1, <3>2, Zenon
  <2>4. CASE man.file_size > 0
    <3> DEFINE at == man.file_size - 1
               z  == <<Zero>>
    <3>1. Presize(man.file_size) = <<[at |-> at, data |-> z]>>
      BY <2>4 DEF Presize
    <3>2. at \in Nat /\ z \in Files /\ OwnWrite(man, at, z) /\ 0 \in 0 .. Len(z)
      BY <1>1, <2>4, DataAssumption DEF OwnWrite, Files
    <3>3. Flushed(<<>>, <<[at |-> at, data |-> z]>>) = WriteAt(<<>>, at, z)
      BY DEF Flushed
    <3> HIDE DEF at, z
    <3>4. Owned(man, WriteAt(<<>>, at, z))
      BY Zenon, <1>1, <2>2, <3>2, OwnedWrite
    <3>5. <<[at |-> at, data |-> z]>>[1] = [at |-> at, data |-> z]
      OBVIOUS
    <3>6. /\ Opened(Reusable).buf[1] = [at |-> at, data |-> z]
          /\ Flushed(Opened(Reusable).file, Opened(Reusable).buf) = WriteAt(<<>>, at, z)
      BY <2>1, <3>1, <3>3, <3>5, Zenon
    <3>7. OwnWrite(man, Opened(Reusable).buf[1].at, Opened(Reusable).buf[1].data)
      <4>1. [at |-> at, data |-> z].at = at /\ [at |-> at, data |-> z].data = z
        OBVIOUS
      <4> QED
        BY <3>2, <3>6, <4>1, Zenon
    <3> QED
      BY <2>1, <2>2, <3>4, <3>6, <3>7, Zenon
  <2>5. man.file_size = 0 \/ man.file_size > 0
    BY <1>1
  <2> QED
    BY <2>3, <2>4, <2>5, Zenon
<1> QED
  BY <1>2, <1>3, ZenonT(40)

LEMMA ConsistentSinking ==
    ASSUME Tracked', faults' = 0, pc' \in Sinking, Owned(man, partial)',
           buf' # <<>> => OwnWrite(man, buf[1].at, buf[1].data)'
    PROVE  Consistent'
<1>1. ftxstate' # None => ftxstate'.id.digest = man'
  BY DEF Tracked, Resumable, blake3
<1>2. Owned(man', partial')
  OBVIOUS
<1>3. ftxstate' # None => Owned(ftxstate'.id.digest, partial')
  BY <1>1, <1>2
<1> QED
  BY <1>3 DEF Consistent

LEMMA ConsistentAdvance ==
    ASSUME Shape, Tracked, Tracked', Consistent, Advance, faults = 0, faults' = 0
    PROVE  Consistent'
<1>1. ASSUME NEW f \in ClientFrames, TakeManifest(f)
      PROVE  Consistent'
  BY <1>1 DEF TakeManifest, Consistent, Sinking, disk
<1>2. ASSUME NEW f \in ClientFrames, TakeComplete(f)
      PROVE  Consistent'
  BY <1>2 DEF TakeComplete, Consistent, Sinking, disk
<1>3. ASSUME NEW f \in ClientFrames, NEW mode \in WriteModes, WriteChunk(f, mode)
      PROVE  Consistent'
  <2> DEFINE at == Offset(f.body.index)
             d  == f.body.data
  <2>1. pc = "chunks" /\ ChunkVerdict(f) = "chunk" /\ pc' = "save" /\ man' = man
    BY <1>3, ZenonT(40) DEF WriteChunk
  <2>2. Owned(man, View) /\ OwnWrite(man, at, d) /\ Owned(man, WriteAt(View, at, d))
    BY Zenon, <2>1, OwnedFlush, OwnedChunk DEF Sinking
  <2>3. /\ partial' \in {View, WriteAt(View, at, d)}
        /\ buf' \in {<<>>, <<[at |-> at, data |-> d]>>}
    BY <1>3, Zenon DEF WriteChunk
  <2> HIDE DEF at, d
  <2>4. Owned(man', partial') /\ pc' \in Sinking
    BY <2>1, <2>2, <2>3 DEF Sinking
  <2>5. buf' # <<>> => OwnWrite(man', buf'[1].at, buf'[1].data)
    BY <2>1, <2>2, <2>3
  <2> QED
    BY <2>4, <2>5, ConsistentSinking
<1>4. CASE LoadResume
  BY <1>4 DEF LoadResume, Consistent, Sinking, disk
<1>5. CASE LoadFresh /\ ftxstate' = None
  BY <1>5 DEF LoadFresh, Consistent, Sinking
<1>6. ASSUME NEW reuse \in BOOLEAN, OpenSink(reuse), reuse = Reusable
      PROVE  Consistent'
  <2>1. /\ pc = "open" /\ pc' = "chunks" /\ man' = man
        /\ partial' = Opened(Reusable).file /\ buf' = Opened(Reusable).buf
    BY <1>6 DEF OpenSink
  <2>2. Owned(man', partial') /\ pc' \in Sinking
    BY <2>1, OwnedOpen, ZenonT(40) DEF Sinking
  <2>3. buf' # <<>> => OwnWrite(man', buf'[1].at, buf'[1].data)
    BY <2>1, OwnedOpen, ZenonT(40)
  <2> QED
    BY <2>2, <2>3, ConsistentSinking
<1>7. CASE Save
  <2>1. /\ pc = "save" /\ pc' = "chunks" /\ UNCHANGED <<partial, buf, man>>
    BY <1>7 DEF Save, SaveState, session
  <2>2. Owned(man', partial') /\ pc' \in Sinking
    BY <2>1 DEF Consistent, Sinking
  <2>3. buf' # <<>> => OwnWrite(man', buf'[1].at, buf'[1].data)
    BY <2>1 DEF Consistent, Sinking
  <2> QED
    BY <2>2, <2>3, ConsistentSinking
<1>8. CASE PassTransfer
  <2>1. /\ pc = "verify" /\ pc' = "finalize" /\ man' = man
        /\ partial' \in {partial, View} /\ buf' \in {<<>>, buf}
    BY <1>8 DEF PassTransfer
  <2>2. Owned(man, View)
    BY <2>1, OwnedFlush DEF Sinking
  <2>3. Owned(man', partial') /\ pc' \in Sinking
    BY <2>1, <2>2 DEF Consistent, Sinking
  <2>4. buf' # <<>> => OwnWrite(man', buf'[1].at, buf'[1].data)
    BY <2>1 DEF Consistent, Sinking
  <2> QED
    BY <2>3, <2>4, ConsistentSinking
<1>9. CASE Finalize
  BY <1>9 DEF Finalize, Consistent, Sinking
<1>10. CASE RenameAgain
  BY <1>10 DEF RenameAgain, Tracked
<1>11. CASE Cleanup /\ ftxstate' = None
  BY <1>11 DEF Cleanup, Consistent, Sinking
<1> QED
  BY <1>1, <1>2, <1>3, <1>4, <1>5, <1>6, <1>7, <1>8, <1>9, <1>10, <1>11 DEF Advance

LEMMA NextConsistent ==
    ASSUME Shape, Tracked, Consistent, [Next]_vars
    PROVE  Consistent'
<1> SUFFICES ASSUME faults' = 0 PROVE Consistent'
  BY DEF Consistent
<1>1. faults = 0 /\ (Leave \/ Pause \/ Advance)
  BY QuietStep
<1>2. Tracked'
  BY NextTracked
<1>3. CASE Leave
  <2>1. pc' \in {"idle", "down"} /\ ftxstate' = ftxstate /\ (Returned \/ Killed)
    BY <1>3 DEF Leave
  <2>2. SUFFICES ASSUME ftxstate # None, partial' # None
                 PROVE  Owned(ftxstate.id.digest, partial')
    BY <2>1 DEF Consistent, Sinking
  <2>3. CASE pc \in Sinking
    <3>1. ftxstate.id.digest = man
      BY <1>1, <2>2, <2>3, OwnSidecar DEF Tracked
    <3>2. /\ Owned(man, partial) /\ Owned(man, View)
          /\ \A file \in PartlyFlushed : Owned(man, file)
      BY <1>1, <2>3, OwnedFlush DEF Consistent
    <3>3. ASSUME NEW f \in ClientFrames, pc = "chunks", ChunkVerdict(f) = "chunk",
                 partial' \in PartlyWritten(f.body)
          PROVE  Owned(man, partial')
      BY Zenon, <1>1, <3>3, OwnedChunk
    <3>4. Owned(man, partial')
      BY <2>1, <2>3, <3>2, <3>3 DEF Returned, Killed, Sinking
    <3> QED
      BY <3>1, <3>4
  <2>4. CASE pc \notin Sinking
    <3>1. buf = <<>> /\ View = partial
      BY <2>4, ViewType DEF Shape
    <3>2. PartlyFlushed = {partial}
      BY <3>1 DEF PartlyFlushed
    <3>3. CASE pc = "open" /\ partial' = Flushed(Opened(Reusable).file, Opened(Reusable).buf)
      BY <1>1, <2>2, <3>3, OwnedOpen, OwnSidecar, ZenonT(40) DEF Tracked
    <3>4. CASE partial' = partial
      BY <1>1, <2>2, <3>4 DEF Consistent
    <3> QED
      BY <2>1, <2>4, <3>1, <3>2, <3>3, <3>4 DEF Returned, Killed, Sinking
  <2> QED
    BY <2>3, <2>4
<1>4. CASE Pause
  BY <1>1, <1>4 DEF Pause, Consistent, Sinking, disk, session
<1> QED
  BY <1>1, <1>2, <1>3, <1>4, ConsistentAdvance

LEMMA ConsistentAlways == Spec => []Consistent
<1>1. Init => Consistent
  BY DEF Init, Consistent, Sinking
<1>2. Shape /\ Tracked /\ Consistent /\ [Next]_vars => Consistent'
  BY NextConsistent
<1> QED
  BY <1>1, <1>2, TrackedAlways, PTL DEF Spec

\* Wherever the server was killed, inside a write(2) too, the bytes of .partial
\* belong to the manifest that the sidecar beside it names: handle_session_ removes
\* a stale sidecar before FileSink::open, and saves the new one after the write.
THEOREM SidecarOwnsPartialAlways == Spec => []SidecarOwnsPartial
<1>1. Consistent => SidecarOwnsPartial
  BY Zenon DEF Consistent, Owned, OwnedAt, SidecarOwnsPartial
<1> QED
  BY <1>1, ConsistentAlways, PTL

=============================================================================
