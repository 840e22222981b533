--------------------------- MODULE TransferProofs ---------------------------
(***************************************************************************)
(* Proofs about Transfer: what the two ends read and send; the inductive   *)
(* invariant TInv, step by step; and what follows from it: the server, fed *)
(* by any Client::send over any connection, goes through steps of          *)
(* Receiver, and a success of the client is a delivery.                    *)
(***************************************************************************)
EXTENDS Transfer, ReceiverProofs

-----------------------------------------------------------------------------
(***************************************************************************)
(* What the client sends.                                                  *)
(***************************************************************************)
LEMMA MinOfThree ==
    ASSUME NEW a \in Int, NEW b \in Int, NEW c \in Int
    PROVE  Min({a, b, c}) \in {a, b, c} /\ \A x \in {a, b, c} : Min({a, b, c}) <= x
<1> DEFINE S == {a, b, c}
<1>1. \E x \in S : \A y \in S : x <= y
  OBVIOUS
<1> HIDE DEF S
<1>2. Min(S) \in S /\ \A y \in S : Min(S) <= y
  BY <1>1 DEF Min
<1> QED
  BY <1>2 DEF S

\* FileSource::read_at never returns more than was asked for.
LEMMA ReadAtLength ==
    ASSUME NEW s \in Files, NEW n \in Nat, NEW i \in Nat
    PROVE  ReadAt(s, n, i) \in Files /\ Len(ReadAt(s, n, i)) <= ChunkSize
<1> DEFINE at == i * ChunkSize
           b  == (i + 1) * ChunkSize
           l  == Len(s)
           e  == Min({b, n, l})
           m  == at + 1
<1>1. ChunkSize \in Nat /\ at \in Nat /\ l \in Nat /\ b = at + ChunkSize /\ m \in Int
  BY TransferAssumption DEF Files
<1> HIDE DEF b, l
<1>2. b \in Int /\ n \in Int /\ l \in Int
  BY <1>1
<1>3. e \in {b, n, l} /\ \A x \in {b, n, l} : e <= x
  BY ZenonT(60), <1>2, MinOfThree
<1> HIDE DEF e, m
<1>4. e \in Int /\ e <= at + ChunkSize /\ e <= l
  BY <1>1, <1>3
<1>5. \A k \in m .. e : s[k] \in Values
  BY <1>1, <1>4 DEF Files, l, m
<1>6. /\ SubSeq(s, m, e) \in Files
      /\ Len(SubSeq(s, m, e)) = IF m <= e THEN e - m + 1 ELSE 0
  BY <1>1, <1>4, <1>5 DEF Files
<1>7. Len(SubSeq(s, m, e)) <= ChunkSize
  BY <1>1, <1>4, <1>6 DEF m
<1> QED
  BY <1>6, <1>7 DEF ReadAt, m, e, b, l

LEMMA ChunkCountType ==
    ASSUME NEW n \in Nat
    PROVE  ChunkCount(n) \in Nat
<1>1. ChunkSize \in Nat \ {0} /\ U32 \in Nat \ {0}
  BY TransferAssumption
<1> DEFINE q == (n + ChunkSize - 1) \div ChunkSize
<1>2. q \in Int
  BY <1>1
<1> HIDE DEF q
<1>3. q % U32 \in Nat
  BY <1>1, <1>2
<1> QED
  BY <1>3 DEF ChunkCount, q

LEMMA SizesType == Sizes \subseteq Nat
  BY TransferAssumption DEF Sizes, Files

\* A manifest of what a hash pass read declares no chunk longer than chunk_size.
LEMMA PassFits ==
    ASSUME NEW n \in Sizes, NEW d \in Passes(n)
    PROVE  ChunksFit(ManifestOf(n, d).body)
<1> DEFINE m == ManifestOf(n, d).body
<1>1. PICK s \in [1 .. ChunkCount(n) -> Sources] :
         d = [j \in 1 .. ChunkCount(n) |-> ReadAt(s[j], n, j - 1)]
  BY DEF Passes
<1>2. n \in Nat /\ ChunkCount(n) \in Nat
  BY SizesType, ChunkCountType
<1>3. Len(d) = ChunkCount(n)
  BY <1>1, <1>2
<1>4. /\ m.chunk_size = ChunkSize /\ m.chunk_count = ChunkCount(n)
      /\ m.chunk_hashes = [j \in 1 .. ChunkCount(n) |-> blake3(d[j])]
  BY <1>3 DEF ManifestOf, Frame
<1> HIDE DEF m
<1>5. ASSUME NEW i \in 0 .. m.chunk_count - 1
      PROVE  Len(Declared(m, i)) <= m.chunk_size
  <2>1. i \in Nat /\ i + 1 \in 1 .. ChunkCount(n) /\ (i + 1) - 1 = i
    BY <1>2, <1>4, <1>5
  <2>2. s[i + 1] \in Files
    BY <2>1, TransferAssumption
  <2>3. Declared(m, i) = ReadAt(s[i + 1], n, i)
    BY <1>1, <1>4, <2>1 DEF Declared, blake3
  <2> QED
    BY <1>2, <1>4, <2>1, <2>2, <2>3, ReadAtLength
<1> QED
  BY <1>5 DEF ChunksFit, m

\* An honest frame is one that Receiver expects; the chunks it declares fit.
LEMMA HonestFacts ==
    ASSUME NEW f \in HonestFrames
    PROVE  /\ f \in PeerFrames /\ f \in ClientFrames
           /\ f.type \in {"HELLO", "MANIFEST", "CHUNK", "COMPLETE"}
           /\ f.type = "MANIFEST" => ChunksFit(f.body)
<1>1. f \in PeerFrames /\ f \in ClientFrames
  BY TransferAssumption, ReceiverAssumption
<1>2. CASE f = Hello
  BY <1>1, <1>2 DEF Hello, Frame
<1>3. ASSUME NEW n \in Sizes, NEW d \in Passes(n), f = ManifestOf(n, d)
      PROVE  f.type = "MANIFEST" /\ ChunksFit(f.body)
  <2>1. f.type = "MANIFEST"
    BY <1>3 DEF ManifestOf, Frame
  <2> QED
    BY <1>3, <2>1, PassFits, Zenon
<1>4. ASSUME NEW d, f = CompleteOf(d)
      PROVE  f.type = "COMPLETE"
  BY <1>4 DEF CompleteOf, Frame
<1>5. ASSUME NEW i, NEW d, NEW e, f = ChunkOf(i, d, e)
      PROVE  f.type = "CHUNK"
  BY <1>5 DEF ChunkOf, Frame
<1>6. \/ f = Hello
      \/ \E n \in Sizes : \/ \E d \in Passes(n) : f = ManifestOf(n, d)
                          \/ \E d \in Passes(n) : f = CompleteOf(d)
                          \/ \E i \in 0 .. ChunkCount(n) - 1, s \in Sources, t \in Sources :
                                f = ChunkOf(i, ReadAt(s, n, i), ReadAt(t, n, i))
  BY DEF HonestFrames
<1> QED
  BY <1>1, <1>2, <1>3, <1>4, <1>5, <1>6

-----------------------------------------------------------------------------
(***************************************************************************)
(* The client's own variables.                                             *)
(***************************************************************************)
Requested == {"req", "send", "ack"}

Reads ==
    /\ TransferTypeOK
    /\ hashed \in Seq(Files)
    /\ ClientGone => size = 0 /\ hashed = <<>> /\ todo = {} /\ rd = 0
    /\ ~ClientGone => size \in Sizes
    /\ cpc \in Requested => Len(hashed) = ChunkCount(size)

LEMMA ReadsFacts ==
    ASSUME Reads
    PROVE  /\ size \in Nat /\ ChunkCount(size) \in Nat /\ Len(hashed) \in Nat
           /\ Len(c2s) \in Nat
<1>1. size \in Nat
  BY SizesType DEF Reads, TransferTypeOK
<1>2. Len(hashed) \in Nat /\ Len(c2s) \in Nat
  BY DEF Reads, TransferTypeOK
<1> QED
  BY <1>1, <1>2, ChunkCountType

\* The frames that the client builds from what it has read are honest.
LEMMA SentIsHonest ==
    ASSUME Reads, ~ClientGone, Len(hashed) = ChunkCount(size)
    PROVE  /\ ManifestOf(size, hashed) \in HonestFrames
           /\ CompleteOf(hashed) \in HonestFrames
           /\ \A i \in todo : ChunkOf(i, hashed[i + 1], ReadAt(src, size, i)) \in HonestFrames
<1> DEFINE n == ChunkCount(size)
<1>1. n \in Nat /\ size \in Sizes /\ src \in Sources
  BY ReadsFacts DEF Reads, TransferTypeOK
<1>2. \A j \in 1 .. n : \E s \in Sources : hashed[j] = ReadAt(s, size, j - 1)
  BY DEF Reads, TransferTypeOK
<1> HIDE DEF n
<1>3. hashed \in Passes(size)
  <2> DEFINE s == [j \in 1 .. n |-> CHOOSE t \in Sources : hashed[j] = ReadAt(t, size, j - 1)]
  <2>1. \A j \in 1 .. n : s[j] \in Sources /\ hashed[j] = ReadAt(s[j], size, j - 1)
    BY <1>2
  <2>2. s \in [1 .. n -> Sources]
    BY <2>1
  <2>3. hashed = [j \in 1 .. n |-> hashed[j]]
    BY DEF Reads, n
  <2> HIDE DEF s
  <2>4. hashed = [j \in 1 .. n |-> ReadAt(s[j], size, j - 1)]
    BY <2>1, <2>3
  <2> QED
    BY <2>2, <2>4 DEF Passes, n
<1>4. ManifestOf(size, hashed) \in HonestFrames /\ CompleteOf(hashed) \in HonestFrames
  BY <1>1, <1>3 DEF HonestFrames
<1>5. ASSUME NEW i \in todo
      PROVE  ChunkOf(i, hashed[i + 1], ReadAt(src, size, i)) \in HonestFrames
  <2>1. i \in 0 .. n - 1 /\ i + 1 \in 1 .. n /\ (i + 1) - 1 = i
    BY <1>1, <1>5 DEF Reads, TransferTypeOK, n
  <2>2. PICK s \in Sources : hashed[i + 1] = ReadAt(s, size, i)
    BY <1>2, <2>1
  <2> QED
    BY <1>1, <2>1, <2>2 DEF HonestFrames, n
<1> QED
  BY <1>4, <1>5

-----------------------------------------------------------------------------
(***************************************************************************)
(* The two ends of a connection.  As long as Client::send runs, the        *)
(* server's manifest, if any, is the one it sent; a request names chunks   *)
(* of that manifest, and an ACK means that its content, of at least the    *)
(* declared size, is at the destination, where the server leaves it until  *)
(* the next session.                                                       *)
(***************************************************************************)
Agreed ==
    /\ man # None => cpc \in Requested /\ man = ManifestOf(size, hashed).body
    /\ \A j \in 1 .. Len(c2s) :
          c2s[j].type = "MANIFEST" => cpc \in Requested /\ c2s[j] = ManifestOf(size, hashed)
    /\ \A j \in 1 .. Len(s2c) :
          s2c[j].type = "REQ_CHUNKS" =>
             cpc \in Requested /\ s2c[j].body.indices \subseteq 0 .. ChunkCount(size) - 1
    /\ \A j \in 1 .. Len(s2c) :
          s2c[j].type = "ACK" =>
             Ended /\ cpc \in Requested /\ dest = Concat(hashed) /\ Len(dest) >= size

Linked ==
    /\ pc \in {"idle", "down", "hello", "manifest"} => man = None
    /\ man # None => ChunksFit(man)
    /\ ~ClientGone => Agreed

TInv == IInv /\ Reads /\ Linked

LEMMA HeadIsHonest ==
    ASSUME TInv, c2s # <<>>
    PROVE  Head(c2s) \in PeerFrames /\ Head(c2s) \in ClientFrames
<1>1. Head(c2s) \in HonestFrames
  BY DEF TInv, Reads, TransferTypeOK
<1> QED
  BY <1>1, HonestFacts

LEMMA NoFrame == ~KillInWrite(None)
<1>1. ChunkVerdict(None) = "drop"
  BY DEF ChunkVerdict
<1> QED
  BY <1>1 DEF KillInWrite

\* Every step of the composed system is a step of Receiver or leaves it alone.
LEMMA Simulation ==
    ASSUME TInv, [TransferNext]_tvars
    PROVE  [Next]_vars
<1>1. CASE ClientStep
  <2>1. CASE Connect
    BY <2>1 DEF Connect, Next
  <2>2. CASE ~Connect
    BY <1>1, <2>2 DEF ClientStep, ConnectRefused, RecvHello, HashChunk, SendManifest,
                      RecvReqChunks, SendChunk, SendComplete, RecvAck, ClientFails
  <2> QED
    BY <2>1, <2>2
<1>2. CASE ServerRecv
  <2>1. c2s # <<>> /\ Receive(Head(c2s))
    BY <1>2 DEF ServerRecv
  <2> QED
    BY Zenon, <2>1, HeadIsHonest DEF Next
<1>3. CASE ServerRecvFails
  <2>1. Receive(None) /\ None \in PeerFrames \cup {None}
    BY <1>3 DEF ServerRecvFails
  <2> QED
    BY Zenon, <2>1, NoFrame DEF Next
<1>4. CASE ServerWork \/ ServerSendFails \/ ServerRestart
  BY <1>4 DEF ServerWork, ServerSendFails, ServerRestart, Next
<1>5. CASE ServerKilled
  <2>1. CASE Kill
    BY <2>1 DEF Next
  <2>2. CASE c2s # <<>> /\ KillInWrite(Head(c2s))
    BY Zenon, <2>2, HeadIsHonest DEF Next
  <2> QED
    BY <1>5, <2>1, <2>2 DEF ServerKilled
<1>6. CASE LinkDrops \/ SenderKilled \/ EditSource
  BY <1>6 DEF LinkDrops, SenderKilled, EditSource
<1>7. CASE UNCHANGED tvars
  BY <1>7 DEF tvars
<1> QED
  BY <1>1, <1>2, <1>3, <1>4, <1>5, <1>6, <1>7 DEF TransferNext, ServerStep

-----------------------------------------------------------------------------
(***************************************************************************)
(* What a step of the server other than Accept does to the session.        *)
(***************************************************************************)
Appends(g) == s2c' = Append(s2c, g)

Says ==
    \/ s2c' = s2c
    \/ \E g \in ServerFrames :
          /\ Appends(g)
          /\ \/ g.type \notin {"REQ_CHUNKS", "ACK"}
             \/ /\ g.type = "REQ_CHUNKS" /\ g.body.indices = Missing
                /\ pc = "open"
             \/ g.type = "ACK" /\ pc = "ack" /\ pc' = "idle" /\ dest' = dest

LEMMA SaysReply ==
    ASSUME Shape, NEW g \in ServerFrames, s2c' = s2c \o <<g>>
    PROVE  Appends(g)
  BY DEF Appends, Shape, TypeOK

LEMMA SaysNothing ==
    ASSUME Shape, s2c' = s2c \o <<>>
    PROVE  s2c' = s2c
  BY DEF Shape, TypeOK

LEMMA SaysError ==
    ASSUME Shape, NEW code \in ErrorCodes, s2c' = s2c \o <<ErrorFrame(code)>>
    PROVE  Says
<1>1. ErrorFrame(code) \in ServerFrames /\ ErrorFrame(code).type = "ERROR"
  BY DEF ErrorFrame, Frame, ServerFrames
<1> QED
  BY <1>1, SaysReply DEF Says

LEMMA SaysRefuse ==
    ASSUME Shape, NEW verdict \in ErrorCodes \cup {"drop"}, Refuse(verdict)
    PROVE  Says
<1>1. \/ s2c' = s2c \o <<>>
      \/ verdict \in ErrorCodes /\ s2c' = s2c \o <<ErrorFrame(verdict)>>
  BY DEF Refuse, Return
<1> QED
  BY <1>1, SaysNothing, SaysError DEF Says

LEMMA SaysInternal ==
    ASSUME Shape, NEW file, Return(file, InternalError)
    PROVE  Says
  BY SaysError DEF Return, InternalError, ErrorCodes

LEMMA SaysStep ==
    ASSUME Shape, [Next]_vars, ~Accept
    PROVE  Says
<1>1. ASSUME NEW f \in ClientFrames \cup {None}, Receive(f) \/ KillInWrite(f)
      PROVE  Says
  <2>1. CASE RefuseHello(f) \/ RefuseManifest(f) \/ RefuseChunk(f)
    BY <2>1, SaysRefuse, VerdictTypes DEF RefuseHello, RefuseManifest, RefuseChunk
  <2>2. CASE AnswerHello(f)
    <3> DEFINE g == Frame("HELLO", [version |-> kProtocolVersion])
    <3>1. g \in ServerFrames /\ g.type = "HELLO"
      BY DataAssumption DEF Frame, ServerFrames, HelloMsg
    <3>2. Appends(g)
      BY <2>2 DEF AnswerHello, Appends
    <3> HIDE DEF g
    <3> QED
      BY <3>1, <3>2 DEF Says
  <2>3. CASE WriteFails(f)
    BY <2>3, SaysInternal DEF WriteFails
  <2>4. CASE TakeManifest(f) \/ TakeComplete(f) \/ KillInWrite(f)
    BY <2>4 DEF TakeManifest, TakeComplete, KillInWrite, Die, Says
  <2>5. ASSUME NEW mode \in WriteModes, WriteChunk(f, mode)
        PROVE  Says
    BY <2>5 DEF WriteChunk, Says
  <2> QED
    BY <1>1, <2>1, <2>2, <2>3, <2>4, <2>5 DEF Receive
<1>2. CASE Work
  <2>1. CASE OpenFails \/ FlushFails \/ RenameFails
    BY <2>1, SaysInternal DEF OpenFails, FlushFails, RenameFails
  <2>2. CASE RefuseTransfer
    BY <2>2, SaysRefuse, VerdictTypes DEF RefuseTransfer
  <2>3. CASE \/ LoadResume \/ LoadFresh \/ SaveState \/ PassTransfer \/ Finalize
             \/ FinalizeRemoves \/ RenameAgain \/ Cleanup
    BY <2>3 DEF LoadResume, LoadFresh, SaveState, PassTransfer, Finalize,
                FinalizeRemoves, RenameAgain, Cleanup, Says
  <2>4. ASSUME NEW reuse \in BOOLEAN, OpenSink(reuse)
        PROVE  Says
    <3> DEFINE g == Frame("REQ_CHUNKS", [indices |-> Missing])
    <3>1. Missing \in SUBSET Nat
      <4>1. man.chunk_count \in Nat
        BY <2>4 DEF OpenSink, Shape, TypeOK, Manifests, ManifestMsg
      <4> QED
        BY <4>1 DEF Missing
    <3>2. g \in ServerFrames /\ g.type = "REQ_CHUNKS" /\ g.body.indices = Missing
      BY <3>1 DEF Frame, ServerFrames
    <3>3. Appends(g) /\ pc = "open"
      BY <2>4 DEF OpenSink, Appends
    <3> HIDE DEF g
    <3> QED
      BY <3>2, <3>3 DEF Says
  <2>5. CASE SendAck
    <3> DEFINE g == Frame("ACK", [last_index |-> LastIndex])
    <3>1. LastIndex \in Nat
      BY <2>5 DEF SendAck, LastIndex, Shape, TypeOK, Manifests, ManifestMsg
    <3>2. g \in ServerFrames /\ g.type = "ACK"
      BY <3>1 DEF Frame, ServerFrames
    <3>3. s2c' = s2c \o <<g>> /\ pc = "ack" /\ pc' = "idle" /\ dest' = dest
      BY <2>5 DEF SendAck, Return
    <3> HIDE DEF g
    <3> QED
      BY <3>2, <3>3, SaysReply DEF Says
  <2> QED
    BY <1>2, <2>1, <2>2, <2>3, <2>4, <2>5 DEF Work
<1>3. CASE SendFails \/ Kill \/ Restart \/ UNCHANGED vars
  BY <1>3, SaysNothing
     DEF SendFails, OpenUnsent, AckUnsent, Kill, Restart, Return, Die, vars, Says
<1>4. PeerFrames \cup {None} \subseteq ClientFrames \cup {None}
  BY ReceiverAssumption
<1> QED
  BY <1>1, <1>2, <1>3, <1>4 DEF Next

Early == {"idle", "down", "hello", "manifest"}

LEMMA ManReceive ==
    ASSUME pc \in Early => man = None, NEW f, Receive(f) \/ KillInWrite(f)
    PROVE  /\ pc' \in Early => man' = None
           /\ man' \in {man, None} \/ TakeManifest(f)
<1>1. CASE \/ RefuseHello(f) \/ RefuseManifest(f) \/ RefuseChunk(f) \/ WriteFails(f)
           \/ KillInWrite(f)
  BY <1>1 DEF RefuseHello, RefuseManifest, RefuseChunk, WriteFails, KillInWrite, Refuse,
              Return, Die, ResetSession
<1>2. CASE AnswerHello(f)
  BY <1>2 DEF AnswerHello, Early, session
<1>3. CASE TakeManifest(f) \/ TakeComplete(f)
  BY <1>3 DEF TakeManifest, TakeComplete, Early
<1>4. ASSUME NEW mode \in WriteModes, WriteChunk(f, mode)
      PROVE  pc' \notin Early /\ man' = man
  BY <1>4 DEF WriteChunk, Early
<1> QED
  BY <1>1, <1>2, <1>3, <1>4 DEF Receive

LEMMA ManOthers ==
    ASSUME pc \in Early => man = None,
           Work \/ Accept \/ SendFails \/ Kill \/ Restart \/ UNCHANGED vars
    PROVE  /\ pc' \in Early => man' = None
           /\ man' \in {man, None}
<1>1. CASE OpenFails \/ RefuseTransfer \/ FlushFails \/ RenameFails \/ SendAck
  BY <1>1 DEF OpenFails, RefuseTransfer, FlushFails, RenameFails, SendAck, Refuse, Return,
              ResetSession
<1>2. CASE \/ LoadResume \/ LoadFresh \/ SaveState \/ PassTransfer \/ Finalize
           \/ FinalizeRemoves \/ RenameAgain \/ Cleanup
  BY <1>2 DEF LoadResume, LoadFresh, SaveState, PassTransfer, Finalize, FinalizeRemoves,
              RenameAgain, Cleanup, Early, session
<1>3. ASSUME NEW reuse \in BOOLEAN, OpenSink(reuse)
      PROVE  pc' \notin Early /\ man' = man
  BY <1>3 DEF OpenSink, Early
<1>4. CASE SendFails \/ Kill
  BY <1>4 DEF SendFails, OpenUnsent, AckUnsent, Kill, Return, Die, ResetSession
<1>5. CASE Accept \/ Restart \/ UNCHANGED vars
  BY <1>5 DEF Accept, Restart, vars, session, Early
<1> QED
  BY <1>1, <1>2, <1>3, <1>4, <1>5 DEF Work

\* Between two sessions the server leaves the destination alone.
LEMMA EndedStep ==
    ASSUME Ended, [Next]_vars, ~Accept
    PROVE  Ended' /\ dest' = dest /\ s2c' = s2c
<1>1. ASSUME NEW f, Receive(f) \/ KillInWrite(f) PROVE FALSE
  BY <1>1 DEF Receive, RefuseHello, AnswerHello, RefuseManifest, TakeManifest, RefuseChunk,
              TakeComplete, WriteChunk, WriteFails, KillInWrite, Ended
<1>2. ~Work /\ ~SendFails
  BY DEF Work, LoadResume, LoadFresh, OpenSink, OpenFails, SaveState, RefuseTransfer,
         PassTransfer, FlushFails, Finalize, FinalizeRemoves, RenameAgain, RenameFails,
         Cleanup, SendAck, SendFails, OpenUnsent, AckUnsent, Ended
<1>3. CASE Kill \/ Restart \/ UNCHANGED vars
  BY <1>3 DEF Kill, Restart, Die, vars, disk, Ended
<1> QED
  BY <1>1, <1>2, <1>3 DEF Next

LEMMA ServerAgreed ==
    ASSUME TInv, ~ClientGone, [Next]_vars, ~Accept, UNCHANGED client,
           \/ c2s' \in {c2s, <<>>}
           \/ c2s # <<>> /\ c2s' = Tail(c2s),
           \/ man' \in {man, None}
           \/ c2s # <<>> /\ TakeManifest(Head(c2s))
    PROVE  Agreed'
<1>1. Shape /\ Agreed /\ Reads
  BY DEF TInv, IInv, Linked
<1>2. UNCHANGED <<cpc, size, hashed>>
  BY DEF client
<1>3. c2s \in Seq(HonestFrames) /\ s2c \in Seq(ServerFrames)
  BY <1>1 DEF Reads, TransferTypeOK, Shape, TypeOK
<1>4. ASSUME man' # None
      PROVE  cpc \in Requested /\ man' = ManifestOf(size, hashed).body
  <2>1. CASE man' = man
    BY <1>1, <1>4, <2>1 DEF Agreed
  <2>2. CASE c2s # <<>> /\ TakeManifest(Head(c2s))
    <3>1. 1 \in 1 .. Len(c2s) /\ Head(c2s) = c2s[1]
      BY <1>3, <2>2
    <3>2. c2s[1].type = "MANIFEST" /\ man' = c2s[1].body
      BY <2>2, <3>1 DEF TakeManifest, ManifestVerdict, IsFrame
    <3> QED
      BY <1>1, <3>1, <3>2 DEF Agreed
  <2> QED
    BY <1>4, <2>1, <2>2
<1>5. ASSUME NEW j \in 1 .. Len(c2s'), c2s'[j].type = "MANIFEST"
      PROVE  cpc \in Requested /\ c2s'[j] = ManifestOf(size, hashed)
  <2>1. PICK k \in 1 .. Len(c2s) : c2s'[j] = c2s[k]
    <3>1. CASE c2s' = c2s
      BY <1>5, <3>1
    <3>2. CASE c2s' = <<>>
      BY <1>5, <3>2
    <3>3. CASE c2s # <<>> /\ c2s' = Tail(c2s)
      <4>1. j + 1 \in 1 .. Len(c2s) /\ Tail(c2s)[j] = c2s[j + 1]
        BY <1>3, <1>5, <3>3
      <4> QED
        BY <3>3, <4>1
    <3> QED
      BY <3>1, <3>2, <3>3
  <2> QED
    BY <1>1, <1>5, <2>1 DEF Agreed
<1>6. Says
  BY <1>1, SaysStep
<1>7. ASSUME NEW j \in 1 .. Len(s2c'), s2c'[j].type = "REQ_CHUNKS"
      PROVE  cpc \in Requested /\ s2c'[j].body.indices \subseteq 0 .. ChunkCount(size) - 1
  <2>1. CASE j \in 1 .. Len(s2c) /\ s2c'[j] = s2c[j]
    BY <1>1, <1>7, <2>1 DEF Agreed
  <2>2. CASE s2c'[j].body.indices = Missing /\ pc = "open"
    <3>1. man # None
      BY <1>1, <2>2 DEF Shape
    <3>2. cpc \in Requested /\ man = ManifestOf(size, hashed).body
      BY <1>1, <3>1 DEF Agreed
    <3>3. man.chunk_count = ChunkCount(size)
      BY <1>1, <3>2 DEF ManifestOf, Frame, Reads
    <3> QED
      BY <2>2, <3>2, <3>3 DEF Missing
  <2>3. \/ j \in 1 .. Len(s2c) /\ s2c'[j] = s2c[j]
        \/ s2c'[j].body.indices = Missing /\ pc = "open"
    <3>1. CASE s2c' = s2c
      BY <1>7, <3>1
    <3>2. ASSUME NEW g \in ServerFrames, Appends(g),
                 g.type = "REQ_CHUNKS" => g.body.indices = Missing /\ pc = "open"
          PROVE  <2>3!1 \/ <2>3!2
      BY <1>3, <1>7, <3>2 DEF Appends
    <3> QED
      BY <1>6, <3>1, <3>2 DEF Says
  <2> QED
    BY <2>1, <2>2, <2>3
<1>8. ASSUME NEW j \in 1 .. Len(s2c'), s2c'[j].type = "ACK"
      PROVE  Ended' /\ cpc \in Requested /\ dest' = Concat(hashed) /\ Len(dest') >= size
  <2>1. CASE j \in 1 .. Len(s2c) /\ s2c'[j] = s2c[j]
    <3>1. Ended /\ cpc \in Requested /\ dest = Concat(hashed) /\ Len(dest) >= size
      BY <1>1, <1>8, <2>1 DEF Agreed
    <3> QED
      BY <3>1, EndedStep
  <2>2. CASE pc = "ack" /\ pc' = "idle" /\ dest' = dest
    <3>1. man # None
      BY <1>1, <2>2 DEF Shape
    <3>2. cpc \in Requested /\ man = ManifestOf(size, hashed).body
      BY <1>1, <3>1 DEF Agreed
    <3>3. blake3(dest) = blake3(Concat(hashed))
      <4>1. Vouched
        BY <3>1 DEF TInv, Linked, Vouched
      <4> QED
        BY <2>2, <3>2, <4>1 DEF TInv, IInv, Verified, ManifestOf, Frame
    <3>4. dest = Concat(hashed)
      BY <3>3 DEF blake3
    <3>5. Len(dest) >= size
      BY <2>2, <3>2 DEF TInv, IInv, Sized, ManifestOf, Frame
    <3> QED
      BY <2>2, <3>2, <3>4, <3>5 DEF Ended
  <2>3. \/ j \in 1 .. Len(s2c) /\ s2c'[j] = s2c[j]
        \/ pc = "ack" /\ pc' = "idle" /\ dest' = dest
    <3>1. CASE s2c' = s2c
      BY <1>8, <3>1
    <3>2. ASSUME NEW g \in ServerFrames, Appends(g),
                 g.type = "ACK" => pc = "ack" /\ pc' = "idle" /\ dest' = dest
          PROVE  <2>3!1 \/ <2>3!2
      BY SMTT(60), <1>3, <1>8, <3>2 DEF Appends
    <3> QED
      BY <1>6, <3>1, <3>2 DEF Says
  <2> QED
    BY <2>1, <2>2, <2>3
<1> QED
  BY <1>2, <1>4, <1>5, <1>7, <1>8 DEF Agreed

LEMMA AcceptOnlyIdle ==
    ASSUME \/ \E f : Receive(f) \/ KillInWrite(f)
           \/ Work \/ SendFails \/ Kill \/ Restart
    PROVE  ~Accept
<1>1. ASSUME Accept PROVE pc = "idle" /\ pc' = "hello"
  BY <1>1 DEF Accept
<1>2. ASSUME NEW f, Receive(f) \/ KillInWrite(f) PROVE pc # "idle"
  BY <1>2 DEF Receive, RefuseHello, AnswerHello, RefuseManifest, TakeManifest, RefuseChunk,
              TakeComplete, WriteChunk, WriteFails, KillInWrite
<1>3. ASSUME Work \/ SendFails PROVE pc # "idle"
  BY <1>3 DEF Work, LoadResume, LoadFresh, OpenSink, OpenFails, SaveState, RefuseTransfer,
              PassTransfer, FlushFails, Finalize, FinalizeRemoves, RenameAgain,
              RenameFails, Cleanup, SendAck, SendFails, OpenUnsent, AckUnsent
<1>4. ASSUME Kill \/ Restart PROVE pc' # "hello"
  BY <1>4 DEF Kill, Die, Restart
<1> QED
  BY <1>1, <1>2, <1>3, <1>4

\* The client's variables do not notice a step of the server.
LEMMA ServerReads ==
    ASSUME Shape, Reads, Says, UNCHANGED <<client, src, drops, edits>>,
           \/ c2s' \in {c2s, <<>>}
           \/ c2s # <<>> /\ c2s' = Tail(c2s),
           link' \in {"up", "broken"}, sent' \in Nat
    PROVE  Reads'
<1>1. c2s \in Seq(HonestFrames) /\ Len(c2s) <= Window /\ Window \in Nat /\ Len(c2s) \in Nat
  BY TransferAssumption DEF Reads, TransferTypeOK
<1>2. c2s' \in Seq(HonestFrames) /\ Len(c2s') <= Window
  <2>1. <<>> \in Seq(HonestFrames) /\ Len(<<>>) <= Window
    BY <1>1
  <2>2. ASSUME c2s # <<>>
        PROVE  Tail(c2s) \in Seq(HonestFrames) /\ Len(Tail(c2s)) <= Window
    <3>1. Tail(c2s) \in Seq(HonestFrames) /\ Len(Tail(c2s)) = Len(c2s) - 1
      BY <1>1, <2>2
    <3>2. Len(c2s) - 1 <= Window
      BY <1>1
    <3> QED
      BY Zenon, <3>1, <3>2
  <2> QED
    BY Zenon, <1>1, <2>1, <2>2
<1>3. rd \in 0 .. Len(s2c')
  <2>1. s2c \in Seq(ServerFrames) /\ Len(s2c) \in Nat /\ rd \in 0 .. Len(s2c)
    BY SMTT(60) DEF Shape, TypeOK, Reads, TransferTypeOK
  <2>2. CASE s2c' = s2c
    BY <2>1, <2>2
  <2>3. ASSUME NEW g \in ServerFrames, Appends(g) PROVE rd \in 0 .. Len(s2c')
    <3>1. Len(s2c') = Len(s2c) + 1
      BY <2>1, <2>3 DEF Appends
    <3> QED
      BY <2>1, <3>1
  <2> QED
    BY <2>2, <2>3 DEF Says
<1> QED
  BY <1>2, <1>3 DEF Reads, TransferTypeOK, client, ClientGone, Requested

LEMMA ServerInv ==
    ASSUME TInv, [Next]_vars,
           \/ \E f : Receive(f) \/ KillInWrite(f)
           \/ Work \/ SendFails \/ Kill \/ Restart,
           UNCHANGED <<client, src, drops, edits>>,
           \/ c2s' \in {c2s, <<>>}
           \/ c2s # <<>> /\ c2s' = Tail(c2s),
           link' \in {"up", "broken"}, sent' \in Nat,
           pc' \in Early => man' = None,
           \/ man' \in {man, None}
           \/ c2s # <<>> /\ TakeManifest(Head(c2s))
    PROVE  Reads' /\ Linked'
<1>1. ~Accept /\ Shape /\ Reads /\ Linked
  BY Zenon, AcceptOnlyIdle DEF TInv, IInv
<1>2. Reads'
  BY <1>1, SaysStep, ServerReads
<1>3. ASSUME man' # None PROVE ChunksFit(man')
  <2>1. CASE man' = man
    BY <1>1, <1>3, <2>1 DEF Linked
  <2>2. CASE c2s # <<>> /\ TakeManifest(Head(c2s))
    <3>1. Head(c2s) \in HonestFrames
      BY <1>1, <2>2 DEF Reads, TransferTypeOK
    <3>2. man' = Head(c2s).body /\ Head(c2s).type = "MANIFEST"
      BY <2>2 DEF TakeManifest, ManifestVerdict, IsFrame
    <3> QED
      BY <3>1, <3>2, HonestFacts
  <2> QED
    BY <1>3, <2>1, <2>2
<1>4. ASSUME ~ClientGone' PROVE Agreed'
  <2>1. ~ClientGone /\ UNCHANGED client
    BY <1>4 DEF ClientGone, client
  <2> QED
    BY <1>1, <2>1, ServerAgreed
<1> QED
  BY <1>2, <1>3, <1>4 DEF Linked, Early

LEMMA ServerSteps ==
    ASSUME TInv, [Next]_vars, ServerStep \/ ServerKilled
    PROVE  Reads' /\ Linked'
<1>1. (pc \in Early => man = None) /\ sent \in Nat /\ chunks \in Nat /\ link \in {"up", "broken"}
  BY DEF TInv, IInv, Shape, TypeOK, Reads, TransferTypeOK, Linked, Early
<1>2. CASE ServerRecv
  <2>1. /\ c2s # <<>> /\ Receive(Head(c2s)) /\ c2s' = Tail(c2s) /\ link' = link
        /\ sent' \in {sent, sent + 1} /\ UNCHANGED <<client, src, drops, edits>>
    BY <1>2 DEF ServerRecv, bounds
  <2>2. /\ pc' \in Early => man' = None
        /\ man' \in {man, None} \/ TakeManifest(Head(c2s))
    BY <1>1, <2>1, ManReceive
  <2>3. sent' \in Nat
    BY <1>1, <2>1
  <2> QED
    BY Zenon, <1>1, <2>1, <2>2, <2>3, ServerInv
<1>3. CASE ServerRecvFails
  <2>1. Receive(None) /\ UNCHANGED <<client, src, drops, edits, c2s, link, sent>>
    BY <1>3 DEF ServerRecvFails, bounds, wire
  <2>2. /\ pc' \in Early => man' = None
        /\ man' \in {man, None} \/ TakeManifest(None)
    BY <1>1, <2>1, ManReceive
  <2>3. ~TakeManifest(None)
    BY DEF TakeManifest, ManifestVerdict, IsFrame
  <2>4. /\ c2s' \in {c2s, <<>>} /\ link' \in {"up", "broken"} /\ sent' \in Nat
        /\ UNCHANGED <<client, src, drops, edits>>
    BY <1>1, <2>1
  <2> QED
    BY Zenon, <2>1, <2>2, <2>3, <2>4, ServerInv
<1>4. CASE ServerWork \/ ServerSendFails \/ ServerRestart
  <2>1. Work \/ SendFails \/ Restart
    BY <1>4 DEF ServerWork, ServerSendFails, ServerRestart
  <2>2. /\ c2s' \in {c2s, <<>>} /\ link' \in {"up", "broken"} /\ sent' \in Nat
        /\ UNCHANGED <<client, src, drops, edits>>
    BY <1>1, <1>4 DEF ServerWork, ServerSendFails, ServerRestart, bounds, wire
  <2>3. (pc' \in Early => man' = None) /\ man' \in {man, None}
    BY <1>1, <2>1, ManOthers
  <2> QED
    BY Zenon, <2>1, <2>2, <2>3, ServerInv
<1>5. CASE ServerKilled
  <2>1. /\ c2s' \in {c2s, <<>>} /\ link' \in {"up", "broken"} /\ sent' \in Nat
        /\ UNCHANGED <<client, src, drops, edits>>
    BY <1>1, <1>5 DEF ServerKilled, bounds
  <2>2. CASE Kill
    <3>1. (pc' \in Early => man' = None) /\ man' \in {man, None}
      BY <1>1, <2>2, ManOthers
    <3> QED
      BY Zenon, <2>1, <2>2, <3>1, ServerInv
  <2>3. CASE c2s # <<>> /\ KillInWrite(Head(c2s))
    <3>1. /\ pc' \in Early => man' = None
          /\ man' \in {man, None} \/ TakeManifest(Head(c2s))
      BY <1>1, <2>3, ManReceive
    <3> QED
      BY Zenon, <2>1, <2>3, <3>1, ServerInv
  <2> QED
    BY <1>5, <2>2, <2>3 DEF ServerKilled
<1> QED
  BY <1>2, <1>3, <1>4, <1>5 DEF ServerStep

-----------------------------------------------------------------------------
(***************************************************************************)
(* The steps of the client and of the environment.                         *)
(***************************************************************************)
LEMMA ReturnInv ==
    ASSUME TInv, UNCHANGED <<vars, c2s, link, src, edits, sent>>,
           drops' \in 0 .. MaxDrops, NEW result \in {"ok", "failed"}, ClientReturn(result)
    PROVE  Reads' /\ Linked'
<1>1. ClientGone'
  BY DEF ClientReturn, ClientGone
<1>2. UNCHANGED <<pc, man, s2c>>
  BY DEF vars, session
<1>3. Len(s2c) \in Nat /\ ChunkCount(0) \in Nat
  BY ChunkCountType DEF TInv, IInv, Shape, TypeOK
<1>4. TransferTypeOK'
  <2>1. /\ size' = 0 /\ hashed' = <<>> /\ todo' = {} /\ rd' \in 0 .. Len(s2c)
        /\ Len(hashed') <= ChunkCount(size')
    BY <1>3 DEF ClientReturn
  <2> QED
    BY <1>2, <2>1 DEF ClientReturn, TInv, Reads, TransferTypeOK
<1>5. hashed' \in Seq(Files) /\ cpc' \notin Requested
  BY DEF ClientReturn, Requested
<1>6. Reads'
  BY <1>1, <1>4, <1>5 DEF Reads, ClientReturn
<1> QED
  BY <1>1, <1>2, <1>6 DEF TInv, Linked

LEMMA ConnectInv ==
    ASSUME TInv, Connect
    PROVE  Reads' /\ Linked'
<1>1. Reads /\ ClientGone /\ pc = "idle" /\ man = None /\ ~ClientGone' /\ cpc' = "hello"
  BY DEF TInv, Linked, Connect, Accept, ClientGone
<1>2. /\ pc' = "hello" /\ man' = man /\ s2c' = <<>> /\ c2s' = <<Hello>>
      /\ size' = Len(src) /\ hashed' = <<>> /\ todo' = {} /\ rd' = 0
      /\ UNCHANGED <<src, drops, edits, sent>> /\ link' = "up"
  BY <1>1 DEF Connect, Accept, session, Reads, bounds
<1>3. src \in Sources /\ size' \in Sizes /\ size' \in Nat
  BY <1>1, <1>2, SizesType DEF Reads, TransferTypeOK, Sizes
<1>4. c2s' \in Seq(HonestFrames) /\ Len(c2s') = 1 /\ Hello.type = "HELLO"
  BY <1>2 DEF HonestFrames, Hello, Frame
<1>5. Window >= 1
  BY TransferAssumption
<1>6. ChunkCount(size') \in Nat /\ Len(hashed') <= ChunkCount(size')
  <2>1. ChunkCount(size') \in Nat
    BY <1>3, ChunkCountType
  <2> QED
    BY <1>2, <2>1
<1>7. TransferTypeOK'
  BY <1>1, <1>2, <1>3, <1>4, <1>5, <1>6 DEF Reads, TransferTypeOK
<1>8. Reads'
  BY <1>1, <1>2, <1>3, <1>7 DEF Reads, Requested
<1>9. Agreed'
  BY <1>1, <1>2, <1>4 DEF Agreed
<1> QED
  BY <1>1, <1>2, <1>8, <1>9 DEF Linked

\* A send that is not of a MANIFEST, or is of the client's own.
LEMMA SendInv ==
    ASSUME TInv, ~ClientGone, NEW f \in HonestFrames, Send(f),
           UNCHANGED <<vars, size, hashed, rd, bounds, sent>>,
           todo' \subseteq todo, ~ClientGone', cpc' \in Requested,
           Len(hashed) = ChunkCount(size),
           f.type = "MANIFEST" => f = ManifestOf(size, hashed)
    PROVE  Reads' /\ Linked'
<1>1. Reads /\ Linked /\ Agreed
  BY DEF TInv, Linked
<1>2. UNCHANGED <<pc, man, s2c, dest, src, drops, edits, link>>
  BY DEF vars, session, disk, bounds, Send
<1>3. /\ c2s \in Seq(HonestFrames) /\ Len(c2s) < Window /\ Len(c2s) \in Nat
      /\ c2s' = Append(c2s, f) /\ Window \in Nat
  BY <1>1, TransferAssumption DEF Send, Reads, TransferTypeOK
<1>4. /\ c2s' \in Seq(HonestFrames) /\ Len(c2s') = Len(c2s) + 1
      /\ \A j \in 1 .. Len(c2s) : c2s'[j] = c2s[j]
      /\ c2s'[Len(c2s) + 1] = f
  BY <1>3, SMTT(60)
<1>5. Len(c2s') <= Window
  BY <1>3, <1>4
<1>6. TransferTypeOK'
  <2>1. cpc' \in {"req", "send", "ack"}
    BY DEF Requested
  <2>2. todo' \subseteq 0 .. ChunkCount(size) - 1
    BY <1>1 DEF Reads, TransferTypeOK
  <2> QED
    BY <1>1, <1>2, <1>4, <1>5, <2>1, <2>2 DEF Reads, TransferTypeOK
<1>7. Reads'
  BY <1>1, <1>6 DEF Reads, ClientGone
<1>8. ASSUME NEW j \in 1 .. Len(c2s'), c2s'[j].type = "MANIFEST"
      PROVE  c2s'[j] = ManifestOf(size, hashed)
  <2>1. j \in 1 .. Len(c2s) \/ j = Len(c2s) + 1
    BY <1>3, <1>4, <1>8
  <2>2. CASE j \in 1 .. Len(c2s)
    BY <1>1, <1>4, <1>8, <2>2 DEF Agreed
  <2> QED
    BY <1>4, <1>8, <2>1, <2>2
<1>9. Agreed'
  BY <1>1, <1>2, <1>8 DEF Agreed, Ended
<1> QED
  BY <1>1, <1>2, <1>7, <1>9 DEF Linked

LEMMA SendSteps ==
    ASSUME TInv, SendManifest \/ SendComplete \/ \E i \in todo : SendChunk(i)
    PROVE  Reads' /\ Linked'
<1>1. Reads /\ ~ClientGone /\ Len(hashed) = ChunkCount(size)
  BY DEF TInv, SendManifest, SendComplete, SendChunk, ClientGone, Reads, Requested
<1>2. CASE SendManifest
  <2>1. cpc' \in Requested /\ ~ClientGone' /\ todo' \subseteq todo
    BY <1>2 DEF SendManifest, Requested, ClientGone
  <2>2. ManifestOf(size, hashed) \in HonestFrames
    BY Zenon, <1>1, SentIsHonest
  <2>3. UNCHANGED <<vars, size, hashed, rd, bounds, sent>> /\ Send(ManifestOf(size, hashed))
    BY Zenon, <1>2 DEF SendManifest
  <2> QED
    BY Zenon, <1>1, <2>1, <2>2, <2>3, SendInv
<1>3. CASE SendComplete
  <2>1. cpc' \in Requested /\ ~ClientGone' /\ todo' \subseteq todo
    BY <1>3 DEF SendComplete, Requested, ClientGone
  <2>2. CompleteOf(hashed) \in HonestFrames
    BY Zenon, <1>1, SentIsHonest
  <2>3. UNCHANGED <<vars, size, hashed, rd, bounds, sent>> /\ Send(CompleteOf(hashed))
    BY Zenon, <1>3 DEF SendComplete
  <2>4. CompleteOf(hashed).type # "MANIFEST"
    BY DEF CompleteOf, Frame
  <2> QED
    BY Zenon, <1>1, <2>1, <2>2, <2>3, <2>4, SendInv
<1>4. ASSUME NEW i \in todo, SendChunk(i)
      PROVE  Reads' /\ Linked'
  <2> DEFINE f == ChunkOf(i, hashed[i + 1], ReadAt(src, size, i))
  <2>1. cpc' \in Requested /\ ~ClientGone' /\ todo' \subseteq todo
    BY <1>4 DEF SendChunk, Requested, ClientGone
  <2>2. f \in HonestFrames
    BY Zenon, <1>1, <1>4, SentIsHonest
  <2>3. UNCHANGED <<vars, size, hashed, rd, bounds, sent>> /\ Send(f)
    BY Zenon, <1>4 DEF SendChunk
  <2>4. f.type # "MANIFEST"
    BY DEF ChunkOf, Frame
  <2> HIDE DEF f
  <2> QED
    BY Zenon, <1>1, <2>1, <2>2, <2>3, <2>4, SendInv
<1> QED
  BY <1>2, <1>3, <1>4

\* A frame of s2c that the client has not read yet.
LEMMA IncomingFacts ==
    ASSUME TInv, Arrived
    PROVE  /\ rd + 1 \in 1 .. Len(s2c) /\ rd + 1 \in 0 .. Len(s2c)
           /\ Incoming = s2c[rd + 1]
<1>1. rd \in 0 .. Len(s2c) /\ Len(s2c) \in Nat
  BY DEF TInv, IInv, Shape, TypeOK, Reads, TransferTypeOK
<1> QED
  BY <1>1 DEF Arrived, Incoming

LEMMA RecvHelloInv ==
    ASSUME TInv, RecvHello
    PROVE  Reads' /\ Linked'
<1>1. Reads /\ Linked /\ cpc = "hello" /\ ~ClientGone /\ Agreed
  BY DEF TInv, RecvHello, ClientGone, Linked
<1>2. CASE cpc' = "hash" /\ rd' = rd + 1 /\ UNCHANGED <<size, hashed, todo>>
  <2>1. UNCHANGED <<pc, man, s2c, dest, c2s, link, src, drops, edits, sent>>
    BY DEF RecvHello, vars, session, disk, wire, bounds
  <2>2. rd' \in 0 .. Len(s2c)
    BY <1>2, IncomingFacts DEF RecvHello
  <2>3. Reads'
    BY <1>1, <1>2, <2>1, <2>2 DEF Reads, TransferTypeOK, ClientGone, Requested
  <2>4. Agreed'
    BY <1>1, <1>2, <2>1 DEF Agreed, Requested, Ended
  <2> QED
    BY <1>1, <2>1, <2>3, <2>4 DEF Linked
<1>3. CASE ClientReturn("failed")
  <2>1. UNCHANGED <<vars, c2s, link, src, edits, sent>> /\ drops' \in 0 .. MaxDrops
    BY <1>1 DEF RecvHello, wire, bounds, Reads, TransferTypeOK
  <2> QED
    BY <1>3, <2>1, ReturnInv
<1> QED
  BY <1>2, <1>3 DEF RecvHello

LEMMA HashChunkInv ==
    ASSUME TInv, HashChunk
    PROVE  Reads' /\ Linked'
<1> DEFINE d == ReadAt(src, size, Len(hashed))
<1>1. Reads /\ Linked /\ cpc = "hash" /\ ~ClientGone /\ Agreed
  BY DEF TInv, HashChunk, ClientGone, Linked
<1>2. UNCHANGED <<pc, man, s2c, dest, c2s, link, src, drops, edits, sent, cpc, size, todo, rd>>
  BY DEF HashChunk, vars, session, disk, wire, bounds
<1>3. /\ size \in Nat /\ ChunkCount(size) \in Nat /\ Len(hashed) \in Nat
      /\ hashed \in Seq(Files) /\ src \in Sources /\ src \in Files
  BY <1>1, ReadsFacts, TransferAssumption DEF Reads, TransferTypeOK
<1>4. d \in Files
  BY <1>3, ReadAtLength
<1>5. hashed' = Append(hashed, d) /\ Len(hashed) < ChunkCount(size)
  BY DEF HashChunk
<1> HIDE DEF d
<1>6. /\ hashed' \in Seq(Files) /\ Len(hashed') = Len(hashed) + 1
      /\ \A j \in 1 .. Len(hashed) : hashed'[j] = hashed[j]
      /\ hashed'[Len(hashed) + 1] = d
  BY <1>3, <1>4, <1>5
<1>7. Len(hashed') <= ChunkCount(size)
  BY <1>3, <1>5, <1>6
<1>8. ASSUME NEW j \in 1 .. Len(hashed')
      PROVE  hashed'[j] \in {ReadAt(s, size, j - 1) : s \in Sources}
  <2>1. j \in 1 .. Len(hashed) \/ (j = Len(hashed) + 1 /\ j - 1 = Len(hashed))
    BY <1>3, <1>6, <1>8
  <2>2. CASE j \in 1 .. Len(hashed)
    BY <1>1, <1>6, <2>2 DEF Reads, TransferTypeOK
  <2>3. CASE j = Len(hashed) + 1 /\ j - 1 = Len(hashed)
    BY <1>3, <1>6, <2>3 DEF d
  <2> QED
    BY <2>1, <2>2, <2>3
<1>9. TransferTypeOK'
  BY <1>1, <1>2, <1>7, <1>8 DEF Reads, TransferTypeOK
<1>10. Reads'
  BY <1>1, <1>2, <1>6, <1>9 DEF Reads, ClientGone, Requested
<1>11. Agreed'
  BY <1>1, <1>2 DEF Agreed, Requested, Ended
<1> QED
  BY <1>1, <1>2, <1>10, <1>11 DEF Linked, ClientGone

LEMMA RecvReqChunksInv ==
    ASSUME TInv, RecvReqChunks
    PROVE  Reads' /\ Linked'
<1>1. Reads /\ Linked /\ cpc = "req" /\ ~ClientGone /\ Agreed
  BY DEF TInv, RecvReqChunks, ClientGone, Linked
<1>2. CASE /\ Incoming.type = "REQ_CHUNKS" /\ cpc' = "send"
           /\ todo' = Incoming.body.indices /\ rd' = rd + 1 /\ UNCHANGED <<size, hashed>>
  <2>1. UNCHANGED <<pc, man, s2c, dest, c2s, link, src, drops, edits, sent>>
    BY DEF RecvReqChunks, vars, session, disk, wire, bounds
  <2>2. rd' \in 0 .. Len(s2c) /\ todo' \subseteq 0 .. ChunkCount(size) - 1
    BY <1>1, <1>2, IncomingFacts DEF RecvReqChunks, Agreed
  <2>3. TransferTypeOK'
    BY <1>1, <1>2, <2>1, <2>2 DEF Reads, TransferTypeOK
  <2>4. Reads'
    BY <1>1, <1>2, <2>3 DEF Reads, ClientGone, Requested
  <2>5. Agreed'
    BY <1>1, <1>2, <2>1 DEF Agreed, Requested, Ended
  <2> QED
    BY <1>1, <2>1, <2>4, <2>5 DEF Linked
<1>3. CASE ClientReturn("failed")
  <2>1. UNCHANGED <<vars, c2s, link, src, edits, sent>> /\ drops' \in 0 .. MaxDrops
    BY <1>1 DEF RecvReqChunks, wire, bounds, Reads, TransferTypeOK
  <2> QED
    BY <1>3, <2>1, ReturnInv
<1> QED
  BY <1>2, <1>3 DEF RecvReqChunks

LEMMA ClientSteps ==
    ASSUME TInv, ClientStep
    PROVE  Reads' /\ Linked'
<1>1. CASE ConnectRefused \/ RecvAck \/ ClientFails
  <2>1. /\ UNCHANGED <<vars, c2s, link, src, edits, sent>>
        /\ drops' \in 0 .. MaxDrops
        /\ \E result \in {"ok", "failed"} : ClientReturn(result)
    BY <1>1 DEF ConnectRefused, RecvAck, ClientFails, wire, bounds, TInv, Reads,
                TransferTypeOK
  <2> QED
    BY <2>1, ReturnInv
<1> QED
  BY <1>1, ConnectInv, RecvHelloInv, HashChunkInv, RecvReqChunksInv, SendSteps DEF ClientStep

LEMMA OtherSteps ==
    ASSUME TInv, LinkDrops \/ SenderKilled \/ EditSource \/ UNCHANGED tvars
    PROVE  Reads' /\ Linked'
<1>1. Reads /\ Linked /\ drops \in 0 .. MaxDrops /\ edits \in 0 .. MaxEdits
  BY DEF TInv, Reads, TransferTypeOK
<1>2. MaxDrops \in Nat /\ MaxEdits \in Nat /\ Window \in Nat
  BY TransferAssumption
<1>3. CASE LinkDrops
  <2>1. UNCHANGED <<pc, man, s2c, dest, src, edits, sent, cpc, size, hashed, todo, rd>>
    BY <1>3 DEF LinkDrops, Dropped, client, vars, session, disk
  <2>2. /\ drops' \in 0 .. MaxDrops /\ link' = "broken" /\ c2s' = <<>>
        /\ c2s' \in Seq(HonestFrames) /\ Len(c2s') <= Window
    BY <1>1, <1>2, <1>3 DEF LinkDrops, Dropped
  <2>3. Reads'
    BY <1>1, <2>1, <2>2 DEF Reads, TransferTypeOK, ClientGone, Requested
  <2>4. Len(c2s') = 0
    BY <2>2
  <2>5. Agreed => Agreed'
    <3>1. \A j \in 1 .. Len(c2s') : FALSE
      BY <2>4
    <3> QED
      BY <2>1, <3>1 DEF Agreed, Ended
  <2> QED
    BY <1>1, <2>1, <2>3, <2>5 DEF Linked, ClientGone
<1>4. CASE SenderKilled
  <2>1. UNCHANGED <<vars, c2s, link, src, edits, sent>> /\ drops' \in 0 .. MaxDrops
    BY <1>1, <1>2, <1>4 DEF SenderKilled, Dropped, wire
  <2> QED
    BY <1>4, <2>1, ReturnInv DEF SenderKilled
<1>5. CASE EditSource \/ UNCHANGED tvars
  <2>1. /\ UNCHANGED <<pc, man, s2c, dest, drops, c2s, link, sent, cpc, size, hashed, todo, rd>>
        /\ src' \in Sources /\ edits' \in 0 .. MaxEdits
    <3>1. src \in Sources
      BY <1>1 DEF Reads, TransferTypeOK
    <3>2. CASE EditSource
      BY <1>1, <1>2, <3>2 DEF EditSource, client, wire, vars, session, disk
    <3>3. CASE UNCHANGED tvars
      BY <1>1, <3>1, <3>3 DEF tvars, client, wire, vars, session, disk, bounds
    <3> QED
      BY <1>5, <3>2, <3>3
  <2>2. Reads'
    BY <1>1, <2>1 DEF Reads, TransferTypeOK, ClientGone, Requested
  <2>3. Agreed => Agreed'
    BY <2>1 DEF Agreed, Ended
  <2> QED
    BY <1>1, <2>1, <2>2, <2>3 DEF Linked, ClientGone
<1> QED
  BY <1>3, <1>4, <1>5

LEMMA NextTInv ==
    ASSUME TInv, [TransferNext]_tvars
    PROVE  TInv'
<1>1. [Next]_vars
  BY Simulation
<1>2. IInv'
  BY <1>1, NextIInv DEF TInv
<1>3. Reads' /\ Linked'
  BY <1>1, ClientSteps, ServerSteps, OtherSteps DEF TransferNext
<1> QED
  BY <1>2, <1>3 DEF TInv

LEMMA InitTInv == TransferInit => TInv
<1> SUFFICES ASSUME TransferInit PROVE TInv
  OBVIOUS
<1>1. IInv
  BY InitShape DEF TransferInit, Init, IInv, HashedIsWritten, Verified, Sized, Sinking
<1>2. ClientGone /\ cpc \notin Requested /\ man = None
  BY DEF TransferInit, Init, ClientGone, Requested
<1>3. ChunkCount(0) \in Nat /\ Window \in Nat /\ MaxDrops \in Nat /\ MaxEdits \in Nat
  BY ChunkCountType, TransferAssumption
<1>4. TransferTypeOK
  BY <1>3 DEF TransferInit, Init, TransferTypeOK
<1>5. Reads
  BY <1>2, <1>4 DEF Reads, TransferInit
<1> QED
  BY <1>1, <1>2, <1>5 DEF TInv, Linked

LEMMA TInvAlways == TransferSpec => []TInv
<1>1. TInv /\ [TransferNext]_tvars => TInv'
  BY NextTInv
<1> QED
  BY <1>1, InitTInv, PTL DEF TransferSpec

-----------------------------------------------------------------------------
(***************************************************************************)
(* The theorems.                                                           *)
(***************************************************************************)

\* Client::send, the frames in flight and the server's answers keep their types;
\* in particular REQ_CHUNKS never names a chunk the client does not have, so the
\* check of the index in step 5 of Client::send never fires.
THEOREM TransferTypeCorrect == TransferSpec => []TransferTypeOK
<1>1. TInv => TransferTypeOK
  BY DEF TInv, Reads
<1> QED
  BY <1>1, TInvAlways, PTL

\* The server of a transfer is a Receiver whose peer conforms: the theorems about
\* Receiver hold of it, whatever the client, the link and the source do.
THEOREM TransferImplementsReceiver == TransferSpec => ImplementsReceiver
<1>1. TransferInit => Init
  BY DEF TransferInit
<1>2. TInv /\ [TransferNext]_tvars => [Next]_vars
  BY Simulation
<1> QED
  BY <1>1, <1>2, TInvAlways, PTL DEF TransferSpec, Spec, ImplementsReceiver

\* Only RecvAck makes Client::send return true.
LEMMA SuccessRecvsAck ==
    ASSUME [TransferNext]_tvars, cpc' = "ok", cpc # "ok"
    PROVE  RecvAck /\ Incoming.type = "ACK"
<1>1. CASE ClientStep
  BY <1>1 DEF ClientStep, Connect, ConnectRefused, RecvHello, HashChunk, SendManifest,
              RecvReqChunks, SendChunk, SendComplete, RecvAck, ClientFails, ClientReturn
<1>2. CASE ServerStep \/ ServerKilled \/ LinkDrops \/ EditSource \/ UNCHANGED tvars
  BY <1>2 DEF ServerStep, ServerRecv, ServerRecvFails, ServerWork, ServerSendFails,
              ServerRestart, ServerKilled, LinkDrops, EditSource, client, tvars
<1>3. CASE SenderKilled
  BY <1>3 DEF SenderKilled, ClientReturn
<1> QED
  BY <1>1, <1>2, <1>3 DEF TransferNext

LEMMA SuccessStep ==
    ASSUME TInv, [TransferNext]_tvars, cpc' = "ok", cpc # "ok"
    PROVE  dest = Concat(hashed)
<1>1. RecvAck /\ Incoming.type = "ACK"
  BY SuccessRecvsAck
<1>2. Agreed
  BY <1>1 DEF RecvAck, TInv, Linked, ClientGone
<1> QED
  BY <1>1, <1>2, IncomingFacts DEF RecvAck, Agreed

\* Client::send returns true only when the destination holds what its hash pass
\* read, however the source changed, connections dropped or the server was killed.
THEOREM SuccessIsDelivery == TransferSpec => SuccessMeansDelivered
<1>1. TInv /\ [TransferNext]_tvars =>
         [cpc' = "ok" /\ cpc # "ok" => dest = Concat(hashed)]_tvars
  BY SuccessStep
<1> QED
  BY <1>1, TInvAlways, PTL DEF TransferSpec, SuccessMeansDelivered

=============================================================================
