------------------------- MODULE TransferMoveProofs -------------------------
(***************************************************************************)
(* Proofs about Transfer, second part: how the moves of the two ends       *)
(* follow one another while the source is stable and the disk works: what  *)
(* the hash pass reads, how chunks are counted, and what the chunks of the *)
(* source are.  Basics is what these proofs take from the invariants of    *)
(* TInv; TransferRetryProofs puts the two together.                        *)
(***************************************************************************)
EXTENDS Transfer, DataLemmas

Basics ==
    /\ TypeOK /\ TransferTypeOK
    /\ hashed \in Seq(Files)
    /\ ClientGone => hashed = <<>> /\ todo = {}
    /\ cpc \in {"req", "send", "ack"} => Len(hashed) = ChunkCount(size)
    /\ pc \notin {"idle", "down", "hello", "manifest"} => man # None
    /\ pc = "load" => got = {}

LEMMA CountType ==
    /\ \A n \in Nat : ChunkCount(n) \in Nat
    /\ Sizes \subseteq Nat
<1>1. ChunkSize \in Nat \ {0} /\ U32 \in Nat \ {0}
  BY TransferAssumption
<1>2. ASSUME NEW n \in Nat PROVE ChunkCount(n) \in Nat
  <2> DEFINE q == (n + ChunkSize - 1) \div ChunkSize
  <2>1. q \in Int
    BY <1>1
  <2> HIDE DEF q
  <2>2. q % U32 \in Nat
    BY <1>1, <2>1
  <2> QED
    BY <2>2 DEF ChunkCount, q
<1>3. Sizes \subseteq Nat
  BY TransferAssumption DEF Sizes, Files
<1> QED
  BY <1>2, <1>3

\* The least element of a set, if it has one.
LEMMA MinIs ==
    ASSUME NEW S \in SUBSET Int, NEW m \in S, \A y \in S : m <= y
    PROVE  Min(S) = m
<1>1. \E x \in S : \A y \in S : x <= y
  OBVIOUS
<1>2. Min(S) \in S /\ \A y \in S : Min(S) <= y
  BY <1>1 DEF Min
<1>3. Min(S) \in Int /\ m \in Int /\ m <= Min(S) /\ Min(S) <= m
  BY <1>2
<1> HIDE DEF Min
<1> QED
  BY <1>3

LEMMA MinOfTwo ==
    ASSUME NEW b \in Int, NEW l \in Int
    PROVE  Min({b, l, l}) = IF b <= l THEN b ELSE l
<1> DEFINE S == {b, l, l}
           m == IF b <= l THEN b ELSE l
<1>1. S \in SUBSET Int /\ m \in S /\ \A y \in S : m <= y
  OBVIOUS
<1> HIDE DEF S, m
<1>2. Min(S) = m
  BY <1>1, MinIs
<1> QED
  BY <1>2 DEF S, m

LEMMA IncomingIs ==
    ASSUME Basics, Arrived
    PROVE  \E j \in 1 .. Len(s2c) : Incoming = s2c[j]
<1>1. rd \in Nat /\ rd < Len(s2c) /\ Len(s2c) \in Nat
  BY DEF Basics, TypeOK, TransferTypeOK, Arrived
<1>2. rd + 1 \in 1 .. Len(s2c)
  BY <1>1
<1> QED
  BY <1>2 DEF Incoming

LEMMA Faultless ==
    ASSUME Basics, faults' = 0
    PROVE  ~Fault
  BY DEF Fault, Basics, TypeOK

-----------------------------------------------------------------------------
(***************************************************************************)
(* A source that is never edited.                                          *)
(***************************************************************************)
Stable ==
    ~ClientGone /\ edits = 0 =>
        /\ size = Len(src)
        /\ \A j \in 1 .. Len(hashed) : hashed[j] = ReadAt(src, size, j - 1)

LEMMA StableStep ==
    ASSUME Basics, Stable, [TransferNext]_tvars
    PROVE  Stable'
<1> SUFFICES ASSUME ~ClientGone', edits' = 0 PROVE Stable'
  BY DEF Stable
<1>1. edits = 0 /\ src' = src
  <2>1. edits \in Nat
    BY TransferAssumption DEF Basics, TransferTypeOK
  <2>2. ~EditSource
    BY <2>1 DEF EditSource
  <2> QED
    BY <2>2, Zenon DEF TransferNext, ClientStep, Connect, ConnectRefused, RecvHello, HashChunk,
           SendManifest, RecvReqChunks, SendChunk, SendComplete, RecvAck, ClientFails,
           ServerStep, ServerRecv, ServerRecvFails, ServerWork, ServerSendFails,
           ServerRestart, ServerKilled, LinkDrops, SenderKilled, Dropped, bounds, tvars
<1>2. CASE UNCHANGED <<size, hashed>> /\ ~ClientGone
  <2>1. size = Len(src) /\ \A j \in 1 .. Len(hashed) : hashed[j] = ReadAt(src, size, j - 1)
    BY <1>1, <1>2 DEF Stable
  <2> QED
    BY <1>1, <1>2, <2>1, Zenon DEF Stable
<1>3. CASE Connect
  <2>1. hashed = <<>>
    BY <1>3 DEF Connect, Basics
  <2>2. size' = Len(src') /\ hashed' = <<>>
    BY <1>1, <1>3, <2>1 DEF Connect
  <2> QED
    BY <2>2 DEF Stable
<1>4. CASE HashChunk
  <2>1. ~ClientGone /\ size' = size /\ hashed' = Append(hashed, ReadAt(src, size, Len(hashed)))
    BY <1>4 DEF HashChunk, ClientGone
  <2>2. size = Len(src) /\ \A j \in 1 .. Len(hashed) : hashed[j] = ReadAt(src, size, j - 1)
    BY <1>1, <2>1 DEF Stable
  <2>3. hashed \in Seq(Files)
    BY DEF Basics
  <2> DEFINE d == ReadAt(src, size, Len(hashed))
  <2> HIDE DEF d
  <2>4. ASSUME NEW j \in 1 .. Len(hashed') PROVE hashed'[j] = ReadAt(src, size, j - 1)
    <3>1. hashed' = Append(hashed, d) /\ Len(hashed) \in Nat
      BY <2>1, <2>3 DEF d
    <3>2. /\ Len(hashed') = Len(hashed) + 1
          /\ \A i \in 1 .. Len(hashed) : hashed'[i] = hashed[i]
          /\ hashed'[Len(hashed) + 1] = d
      BY <2>3, <3>1
    <3>3. CASE j \in 1 .. Len(hashed)
      BY <2>2, <3>2, <3>3, Zenon
    <3>4. CASE j = Len(hashed) + 1
      <4>1. j - 1 = Len(hashed)
        BY <3>1, <3>4
      <4> QED
        BY <3>2, <3>4, <4>1, Zenon DEF d
    <3> QED
      BY <3>1, <3>2, <3>3, <3>4
  <2> QED
    BY <1>1, <2>1, <2>2, <2>4, Zenon DEF Stable
<1>5. \/ UNCHANGED <<size, hashed>> /\ ~ClientGone
      \/ Connect
      \/ HashChunk
  <2>1. CASE ClientStep
    BY <2>1, Zenon DEF ClientStep, ConnectRefused, RecvHello, SendManifest, RecvReqChunks,
              SendChunk, SendComplete, RecvAck, ClientFails, ClientReturn, ClientGone
  <2>2. CASE ServerStep \/ ServerKilled \/ LinkDrops \/ EditSource \/ UNCHANGED tvars
    BY <2>2, Zenon DEF ServerStep, ServerRecv, ServerRecvFails, ServerWork, ServerSendFails,
                ServerRestart, ServerKilled, LinkDrops, EditSource, client, tvars, ClientGone
  <2>3. CASE SenderKilled
    BY <2>3 DEF SenderKilled, ClientReturn, ClientGone
  <2> QED
    BY <2>1, <2>2, <2>3, Zenon DEF TransferNext
<1> QED
  BY <1>2, <1>3, <1>4, <1>5

\* What the hash pass reads of such a source is a prefix of it.
LEMMA PassIsPrefix ==
    ASSUME Basics, Stable, ~ClientGone, edits = 0
    PROVE  /\ src \in Files
           /\ \E k \in 0 .. Len(src) : Concat(hashed) = SubSeq(src, 1, k)
<1>1. src \in Files /\ hashed \in Seq(Files)
  BY TransferAssumption DEF Basics, TransferTypeOK
<1>2. Len(src) \in Nat /\ Len(hashed) \in Nat /\ ChunkSize \in Nat
  BY <1>1, TransferAssumption DEF Files
<1> DEFINE l    == Len(src)
           c    == ChunkSize
           e(n) == IF n <= l THEN n ELSE l
<1>3. ASSUME NEW j \in 1 .. Len(hashed)
      PROVE  hashed[j] = SubSeq(src, (j - 1) * c + 1, IF j * c <= l THEN j * c ELSE l)
  <2> DEFINE b == j * c
  <2>1. hashed[j] = ReadAt(src, l, j - 1)
    BY Zenon DEF Stable
  <2>2. ((j - 1) + 1) * c = b /\ b \in Int /\ l \in Int
    BY <1>2
  <2> HIDE DEF b, l
  <2>5. hashed[j] = SubSeq(src, (j - 1) * c + 1, Min({b, l, l}))
    BY <2>1, <2>2, Zenon DEF ReadAt, l
  <2>6. Min({b, l, l}) = IF b <= l THEN b ELSE l
    BY <2>2, MinOfTwo
  <2> QED
    BY <2>5, <2>6, Zenon DEF b
<1>4. Concat(hashed) = SubSeq(src, 1, e(Len(hashed) * c))
  BY <1>1, <1>2, <1>3, ConcatPieces, Zenon DEF Files
<1>5. e(Len(hashed) * c) \in 0 .. l
  <2>1. Len(hashed) * c \in Nat
    BY <1>2
  <2> QED
    BY <1>2, <2>1
<1> QED
  BY <1>1, <1>4, <1>5, Zenon

-----------------------------------------------------------------------------
(***************************************************************************)
(* What a kill costs.  First, the steps of the server as far as chunks are *)
(* counted, while no operation fails.                                      *)
(***************************************************************************)
Leaves ==
    /\ pc' \in {"idle", "down"} /\ got' \in {got, {}} /\ man' \in {man, None}
    /\ \/ kills' = kills /\ pc # "save"
       \/ kills' = kills + 1
    /\ UNCHANGED <<ftxstate, sent, faults>>

Greets ==
    /\ \/ /\ pc = "hello" /\ pc' = "manifest" /\ man' = man
          /\ s2c' = Append(s2c, Frame("HELLO", [version |-> kProtocolVersion]))
       \/ /\ pc = "manifest" /\ pc' = "load"
          /\ c2s # <<>> /\ Head(c2s).type = "MANIFEST" /\ man' = Head(c2s).body
          /\ s2c' = s2c
    /\ UNCHANGED <<got, ftxstate, kills, faults, sent>>

Loads ==
    /\ pc = "load" /\ pc' = "open"
    /\ IF Resumable(ftxstate, man) THEN got' = ftxstate.got /\ ftxstate' = ftxstate
       ELSE got' = got /\ ftxstate' = None
    /\ UNCHANGED <<man, s2c, kills, faults, sent>>

Opens ==
    /\ pc = "open" /\ pc' = "chunks"
    /\ s2c' = Append(s2c, Frame("REQ_CHUNKS", [indices |-> Missing]))
    /\ UNCHANGED <<man, got, ftxstate, kills, faults, sent>>

Takes ==
    /\ pc = "chunks" /\ pc' = "save"
    /\ c2s # <<>> /\ c2s' = Tail(c2s) /\ Head(c2s).type = "CHUNK"
    /\ ~(Head(c2s).body.index >= man.chunk_count)
    /\ got' = got \cup {Head(c2s).body.index}
    /\ sent' = sent + 1
    /\ UNCHANGED <<man, ftxstate, s2c, kills, faults>>

Saves ==
    /\ pc = "save" /\ pc' = "chunks"
    /\ ftxstate' = [id |-> blake3(man), count |-> man.chunk_count, got |-> got]
    /\ UNCHANGED <<man, got, s2c, kills, faults, sent>>

Verifies ==
    /\ pc \in {"chunks", "verify"} /\ pc' \in {"verify", "finalize"}
    /\ UNCHANGED <<man, got, ftxstate, kills, faults, sent>>

Delivers ==
    \/ /\ pc \in {"finalize", "rename2"} /\ pc' = "cleanup"
       /\ sent' = 0
       /\ UNCHANGED <<man, got, ftxstate, kills, faults>>
    \/ /\ pc = "cleanup" /\ pc' = "ack"
       /\ ftxstate' = None
       /\ UNCHANGED <<man, got, kills, faults, sent>>

ServerMove ==
    Leaves \/ Greets \/ Loads \/ Opens \/ Takes \/ Saves \/ Verifies \/ Delivers

\* What is in flight to the server only goes away from the front.
Consumes == c2s' = c2s \/ (c2s # <<>> /\ c2s' = Tail(c2s)) \/ c2s' = <<>>

LEMMA ReceiveMoves ==
    ASSUME Basics, faults' = 0, ServerRecv
    PROVE  ServerMove /\ Consumes
<1> DEFINE f == Head(c2s)
<1>1. c2s # <<>> /\ Receive(f) /\ c2s' = Tail(c2s) /\ chunks \in Nat
  BY DEF ServerRecv, Basics, TypeOK
<1>2. /\ chunks' = chunks + 1 => sent' = sent + 1
      /\ chunks' = chunks \/ chunks' = 0 => sent' = sent
  BY <1>1 DEF ServerRecv
<1> HIDE DEF f
<1>3. CASE RefuseHello(f) \/ RefuseManifest(f) \/ RefuseChunk(f)
  <2>1. /\ pc # "save" /\ \E v, file : Return(file, v) /\ (UNCHANGED counters \/ Fault)
    BY <1>3, Zenon DEF RefuseHello, RefuseManifest, RefuseChunk, Refuse
  <2>2. UNCHANGED counters
    BY <2>1, Faultless, Zenon DEF counters
  <2>3. Leaves
    BY <1>2, <2>1, <2>2 DEF Leaves, Return, ResetSession, counters
  <2> QED
    BY <1>1, <2>3 DEF ServerMove, Consumes
<1>4. CASE AnswerHello(f) \/ TakeManifest(f)
  <2>1. chunks' = chunks
    BY <1>4 DEF AnswerHello, TakeManifest, session, progress
  <2>2. TakeManifest(f) => f.type = "MANIFEST"
    BY DEF TakeManifest, ManifestVerdict, IsFrame
  <2>3. Greets
    BY <1>1, <1>2, <1>4, <2>1, <2>2, Zenon
       DEF Greets, AnswerHello, TakeManifest, session, progress, disk, counters, f
  <2> QED
    BY <1>1, <2>3 DEF ServerMove, Consumes
<1>5. CASE TakeComplete(f)
  <2>1. Verifies
    BY <1>2, <1>5 DEF Verifies, TakeComplete, progress, disk, counters
  <2> QED
    BY <1>1, <2>1 DEF ServerMove, Consumes
<1>6. ASSUME NEW mode \in WriteModes, WriteChunk(f, mode)
      PROVE  ServerMove /\ Consumes
  <2>1. f.type = "CHUNK" /\ ~(f.body.index >= man.chunk_count)
    BY <1>6 DEF WriteChunk, ChunkVerdict
  <2>2. Takes
    BY <1>1, <1>2, <1>6, <2>1 DEF Takes, WriteChunk, counters, f
  <2> QED
    BY <1>1, <2>2 DEF ServerMove, Consumes
<1>7. ~WriteFails(f)
  BY Faultless DEF WriteFails
<1> QED
  BY <1>1, <1>3, <1>4, <1>5, <1>6, <1>7, Zenon DEF Receive

LEMMA WorkMoves ==
    ASSUME Basics, faults' = 0, ServerWork
    PROVE  ServerMove /\ Consumes
<1>1. Work /\ c2s' = c2s /\ sent' = IF pc' = "cleanup" THEN 0 ELSE sent
  BY DEF ServerWork, wire
<1>2. ~Fault
  BY Faultless
<1>3. CASE LoadResume \/ LoadFresh
  <2>1. Loads
    BY <1>1, <1>2, <1>3, Zenon DEF Loads, LoadResume, LoadFresh, disk, session, progress, counters
  <2> QED
    BY <1>1, <2>1 DEF ServerMove, Consumes
<1>4. ASSUME NEW reuse \in BOOLEAN, OpenSink(reuse) PROVE ServerMove /\ Consumes
  <2>1. Opens
    BY <1>1, <1>2, <1>4, Zenon DEF Opens, OpenSink, counters
  <2> QED
    BY <1>1, <2>1 DEF ServerMove, Consumes
<1>5. CASE SaveState
  <2>1. Saves
    BY <1>1, <1>2, <1>5, Zenon DEF Saves, SaveState, disk, session, progress, counters
  <2> QED
    BY <1>1, <2>1 DEF ServerMove, Consumes
<1>6. CASE PassTransfer
  <2>1. Verifies
    BY <1>1, <1>6 DEF Verifies, PassTransfer, progress, counters
  <2> QED
    BY <1>1, <2>1 DEF ServerMove, Consumes
<1>7. CASE Finalize \/ RenameAgain \/ Cleanup
  <2>1. Delivers
    BY <1>1, <1>2, <1>7, Zenon
       DEF Delivers, Finalize, RenameAgain, Cleanup, session, progress, counters
  <2> QED
    BY <1>1, <2>1 DEF ServerMove, Consumes
<1>8. CASE RefuseTransfer \/ RenameFails \/ SendAck
  <2>1. /\ pc # "save" /\ \E v, file : Return(file, v) /\ (UNCHANGED counters \/ Fault)
    BY <1>8, Zenon DEF RefuseTransfer, RenameFails, SendAck, Refuse
  <2>2. UNCHANGED counters
    BY <1>2, <2>1, Zenon DEF counters
  <2>3. Leaves
    BY <1>1, <2>1, <2>2 DEF Leaves, Return, ResetSession, counters
  <2> QED
    BY <1>1, <2>3 DEF ServerMove, Consumes
<1>9. ~(OpenFails \/ FlushFails \/ FinalizeRemoves)
  BY <1>2, Zenon DEF OpenFails, FlushFails, FinalizeRemoves
<1> QED
  BY <1>1, <1>3, <1>4, <1>5, <1>6, <1>7, <1>8, <1>9, Zenon DEF Work

LEMMA ServerMoves ==
    ASSUME Basics, faults' = 0, ServerStep \/ ServerKilled
    PROVE  ServerMove /\ Consumes
<1>1. CASE ServerRecv
  BY <1>1, ReceiveMoves
<1>2. CASE ServerWork
  BY <1>2, WorkMoves
<1>3. CASE ServerRecvFails
  <2>1. Receive(None) /\ c2s' = c2s /\ sent' = sent
    BY <1>3 DEF ServerRecvFails, wire
  <2>2. RefuseHello(None) \/ RefuseManifest(None) \/ RefuseChunk(None)
    BY <2>1, Zenon DEF Receive, AnswerHello, HelloVerdict, TakeManifest, ManifestVerdict, IsFrame,
                       TakeComplete, WriteChunk, WriteFails, ChunkVerdict
  <2>3. /\ pc # "save" /\ \E v, file : Return(file, v) /\ (UNCHANGED counters \/ Fault)
    BY <2>2, Zenon DEF RefuseHello, RefuseManifest, RefuseChunk, Refuse
  <2>4. UNCHANGED counters
    BY <2>3, Faultless, Zenon DEF counters
  <2>5. Leaves
    BY <2>1, <2>3, <2>4 DEF Leaves, Return, ResetSession, counters
  <2> QED
    BY <2>1, <2>5 DEF ServerMove, Consumes
<1>4. CASE ServerSendFails
  <2>1. /\ pc # "save" /\ c2s' = c2s /\ sent' = sent /\ UNCHANGED counters
        /\ \E v, file : Return(file, v)
    BY <1>4, Zenon DEF ServerSendFails, SendFails, OpenUnsent, AckUnsent, counters, wire
  <2>2. Leaves
    BY <2>1 DEF Leaves, Return, ResetSession, counters
  <2> QED
    BY <2>1, <2>2 DEF ServerMove, Consumes
<1>5. CASE ServerRestart
  <2>1. Leaves /\ c2s' = c2s
    BY <1>5 DEF Leaves, ServerRestart, Restart, disk, session, progress, counters, wire
  <2> QED
    BY <2>1 DEF ServerMove, Consumes
<1>6. CASE ServerKilled
  <2>1. (\E file : Die(file)) /\ c2s' = <<>> /\ sent' = sent
    BY <1>6, Zenon DEF ServerKilled, Kill, KillInWrite
  <2>2. Leaves
    BY <2>1 DEF Leaves, Die, ResetSession
  <2> QED
    BY <2>1, <2>2 DEF ServerMove, Consumes
<1> QED
  BY <1>1, <1>2, <1>3, <1>4, <1>5, <1>6 DEF ServerStep

-----------------------------------------------------------------------------
(***************************************************************************)
(* The steps of the client, in the same terms.                             *)
(***************************************************************************)
Waiting == {"hello", "hash", "req"}

\* The manifest of the source as it is.
SourceManifest ==
    ManifestOf(Len(src),
               [j \in 1 .. ChunkCount(Len(src)) |-> ReadAt(src, Len(src), j - 1)]).body

Connects ==
    /\ pc = "idle" /\ pc' = "hello" /\ s2c' = <<>>
    /\ c2s' = <<Hello>> /\ todo' = {}
    /\ UNCHANGED <<man, got, ftxstate, kills, faults, sent>>

Sends(f) == c2s' = Append(c2s, f)

Talks ==
    \/ cpc' \notin Waiting /\ todo' = {} /\ UNCHANGED c2s
    \/ cpc \in Waiting /\ UNCHANGED <<todo, c2s>>
    \/ /\ cpc \in Waiting /\ UNCHANGED todo
       /\ \E f : Sends(f) /\ f.type = "MANIFEST" /\ f.body = SourceManifest
    \/ /\ cpc \in Waiting /\ cpc' \notin Waiting /\ UNCHANGED c2s
       /\ \E j \in 1 .. Len(s2c) : s2c[j].type = "REQ_CHUNKS" /\ todo' = s2c[j].body.indices
    \/ /\ cpc' \notin Waiting
       /\ \E i \in todo : /\ todo' = todo \ {i}
                          /\ \E f : Sends(f) /\ f.type = "CHUNK" /\ f.body.index = i
    \/ /\ cpc' \notin Waiting /\ UNCHANGED todo
       /\ \E f : Sends(f) /\ f.type = "COMPLETE"
    \/ c2s' = <<>> /\ UNCHANGED <<cpc, todo>>
    \/ UNCHANGED <<cpc, todo, c2s>>

ClientMove ==
    Connects \/ (Talks /\ UNCHANGED <<pc, man, got, ftxstate, s2c, kills, faults, sent>>)

LEMMA HonestIndex ==
    ASSUME NEW f \in HonestFrames, f.type = "CHUNK"
    PROVE  f.body.index \in Nat
<1>1. /\ Hello.type = "HELLO" /\ \A n, d : ManifestOf(n, d).type = "MANIFEST"
      /\ \A d : CompleteOf(d).type = "COMPLETE"
  BY DEF Hello, ManifestOf, CompleteOf, Frame
<1>2. PICK n \in Sizes : \E i \in 0 .. ChunkCount(n) - 1, s \in Sources, t \in Sources :
         f = ChunkOf(i, ReadAt(s, n, i), ReadAt(t, n, i))
  BY SMTT(60), <1>1 DEF HonestFrames
<1>3. PICK i \in 0 .. ChunkCount(n) - 1, s \in Sources, t \in Sources :
         f = ChunkOf(i, ReadAt(s, n, i), ReadAt(t, n, i))
  BY <1>2
<1>4. ChunkCount(n) \in Nat
  BY CountType
<1>5. f.body.index = i
  BY <1>3 DEF ChunkOf, Frame
<1> QED
  BY <1>4, <1>5

-----------------------------------------------------------------------------
(***************************************************************************)
(* The inductive invariant of the count.                                   *)
(***************************************************************************)

\* While the source is stable, all manifests are the same.
SameManifest ==
    /\ \A k \in 1 .. Len(c2s) : c2s[k].type = "MANIFEST" => c2s[k].body = SourceManifest
    /\ man # None => man = SourceManifest
    /\ got \subseteq 0 .. SourceManifest.chunk_count - 1
    /\ ftxstate # None => /\ ftxstate.id = blake3(SourceManifest)
                          /\ ftxstate.count = SourceManifest.chunk_count
                          /\ ftxstate.got \subseteq 0 .. SourceManifest.chunk_count - 1

\* Each chunk is in got, in flight, or still to be sent: in one place only.
NoChunks  == \A k \in 1 .. Len(c2s) : c2s[k].type # "CHUNK"
NoRequest == \A j \in 1 .. Len(s2c) : s2c[j].type # "REQ_CHUNKS"

Asked ==
    \A j \in 1 .. Len(s2c) : s2c[j].type = "REQ_CHUNKS" => s2c[j].body.indices \cap got = {}

Fresh ==
    \A k \in 1 .. Len(c2s) : c2s[k].type = "CHUNK" => c2s[k].body.index \notin got \cup todo

Distinct ==
    \A k, l \in 1 .. Len(c2s) :
        c2s[k].type = "CHUNK" /\ c2s[l].type = "CHUNK" /\ k # l =>
            c2s[k].body.index # c2s[l].body.index

Once ==
    /\ cpc \in Waiting => todo = {} /\ NoChunks
    /\ pc \in {"hello", "manifest", "load", "open"} => todo = {} /\ NoChunks /\ NoRequest
    /\ pc \in {"chunks", "save"} => /\ todo \cap got = {} /\ Fresh /\ Distinct
                                    /\ cpc \in Waiting => Asked

\* The chunks accepted are recorded, but for one for each kill.
Recorded == IF ftxstate = None THEN {} ELSE ftxstate.got

Counted ==
    /\ pc \in {"open", "chunks", "verify", "finalize", "rename2"} => got = Recorded
    /\ pc # "save" => sent <= Cardinality(Recorded) + kills
    /\ pc = "save" => /\ sent <= Cardinality(got) + kills
                      /\ Cardinality(got) <= Cardinality(Recorded) + 1
    /\ pc \in {"cleanup", "ack"} => sent = 0

\* What the theory of finite sets says of the sets that are counted.
Measured ==
    /\ sent \in Nat /\ kills \in Nat
    /\ Cardinality(got) \in Nat /\ Cardinality(got) <= ChunkCount(Len(src))
    /\ Cardinality(Recorded) \in Nat /\ Cardinality(Recorded) <= ChunkCount(Len(src))
    /\ Cardinality({}) = 0
    /\ \A i : i \notin got => Cardinality(got \cup {i}) = Cardinality(got) + 1

CountInv == edits = 0 /\ faults = 0 => SameManifest /\ Once /\ Counted

LEMMA SourceCount ==
    ASSUME Basics
    PROVE  /\ SourceManifest.chunk_count = ChunkCount(Len(src))
           /\ SourceManifest.chunk_count \in Nat
<1> DEFINE n == ChunkCount(Len(src))
           d == [j \in 1 .. n |-> ReadAt(src, Len(src), j - 1)]
<1>1. src \in Files /\ Len(src) \in Nat
  BY TransferAssumption DEF Basics, TransferTypeOK, Files
<1>2. n \in Nat
  BY <1>1, CountType
<1>3. Len(d) = n
  <2> HIDE DEF n
  <2> QED
    BY <1>2
<1>4. SourceManifest.chunk_count = Len(d)
  <2> HIDE DEF n, d
  <2>1. ManifestOf(Len(src), d).body.chunk_count = Len(d)
    BY DEF ManifestOf, Frame
  <2> QED
    BY <2>1, Zenon DEF SourceManifest, d, n
<1> QED
  BY <1>2, <1>3, <1>4, Zenon

\* What is left in flight was there before, d places further back.
LEMMA Shifted ==
    ASSUME c2s \in Seq(HonestFrames), Consumes
    PROVE  \E d \in {0, 1} : \A k \in 1 .. Len(c2s') : /\ k + d \in 1 .. Len(c2s)
                                                       /\ c2s'[k] = c2s[k + d]
<1>1. CASE c2s' = c2s
  <2>1. \A k \in 1 .. Len(c2s') : k + 0 \in 1 .. Len(c2s) /\ c2s'[k] = c2s[k + 0]
    BY <1>1
  <2> QED
    BY <2>1
<1>2. CASE c2s' = <<>>
  BY <1>2
<1>3. CASE c2s # <<>> /\ c2s' = Tail(c2s)
  <2>1. \A k \in 1 .. Len(c2s') : k + 1 \in 1 .. Len(c2s) /\ c2s'[k] = c2s[k + 1]
    BY <1>3
  <2> QED
    BY <2>1
<1> QED
  BY <1>1, <1>2, <1>3 DEF Consumes

\* A frame more in flight.
LEMMA Appended ==
    ASSUME c2s \in Seq(HonestFrames), NEW f, Sends(f)
    PROVE  /\ Len(c2s') = Len(c2s) + 1 /\ Len(c2s) \in Nat
           /\ \A k \in 1 .. Len(c2s) : c2s'[k] = c2s[k]
           /\ c2s'[Len(c2s) + 1] = f
           /\ \A k \in 1 .. Len(c2s') : k \in 1 .. Len(c2s) \/ k = Len(c2s) + 1
<1>1. Len(c2s) \in Nat
  OBVIOUS
<1>2. /\ Len(c2s') = Len(c2s) + 1
      /\ \A k \in 1 .. Len(c2s) : c2s'[k] = c2s[k]
      /\ c2s'[Len(c2s) + 1] = f
  BY DEF Sends
<1> QED
  BY <1>1, <1>2

LEMMA SourceKept ==
    ASSUME src' = src
    PROVE  SourceManifest' = SourceManifest
  BY Zenon DEF SourceManifest

LEMMA InFlightType ==
    ASSUME Basics
    PROVE  /\ c2s \in Seq(HonestFrames) /\ Len(c2s) \in Nat
           /\ s2c \in Seq(ServerFrames) /\ Len(s2c) \in Nat
<1>1. c2s \in Seq(HonestFrames) /\ s2c \in Seq(ServerFrames)
  BY Zenon DEF Basics, TypeOK, TransferTypeOK
<1> QED
  BY <1>1

LEMMA SameManifestServer ==
    ASSUME Basics, SameManifest, src' = src, ServerMove, Consumes
    PROVE  SameManifest'
<1> DEFINE M == SourceManifest
           All == 0 .. M.chunk_count - 1
<1>1. SourceManifest' = M
  BY SourceKept, Zenon
<1>2. \A k \in 1 .. Len(c2s') : c2s'[k].type = "MANIFEST" => c2s'[k].body = M
  <2>1. PICK d \in {0, 1} : \A k \in 1 .. Len(c2s') : k + d \in 1 .. Len(c2s) /\ c2s'[k] = c2s[k + d]
    BY InFlightType, Shifted, Zenon
  <2> QED
    BY <2>1, Zenon DEF SameManifest
<1>3. man' # None => man' = M
  <2>1. CASE c2s # <<>> /\ Head(c2s).type = "MANIFEST" /\ man' = Head(c2s).body
    <3>1. 1 \in 1 .. Len(c2s) /\ Head(c2s) = c2s[1]
      BY <2>1, InFlightType
    <3> QED
      BY <2>1, <3>1, Zenon DEF SameManifest
  <2>2. CASE man' \in {man, None}
    BY <2>2, Zenon DEF SameManifest
  <2> QED
    BY <2>1, <2>2, Zenon DEF ServerMove, Leaves, Greets, Loads, Opens, Takes, Saves, Verifies, Delivers
<1>4. pc \in {"chunks", "save"} => man = M
  BY DEF SameManifest, Basics
<1>5. got' \subseteq All
  <2>1. CASE Takes
    <3>1. Head(c2s) \in HonestFrames
      BY <2>1, InFlightType DEF Takes
    <3>2. Head(c2s).body.index \in Nat
      BY <2>1, <3>1, HonestIndex DEF Takes
    <3>3. M.chunk_count \in Nat
      BY SourceCount
    <3>4. man = M
      BY <1>4, <2>1 DEF Takes
    <3>5. ~(Head(c2s).body.index >= M.chunk_count)
      BY <2>1, <3>4, Zenon DEF Takes
    <3> HIDE DEF M
    <3>6. Head(c2s).body.index \in All
      BY <3>2, <3>3, <3>5
    <3>7. got \subseteq All
      BY DEF SameManifest, M
    <3> HIDE DEF All
    <3> QED
      BY <2>1, <3>6, <3>7 DEF Takes
  <2>2. CASE Loads
    BY <2>2, Zenon DEF Loads, Resumable, SameManifest
  <2>3. CASE got' \in {got, {}}
    BY <2>3, Zenon DEF SameManifest
  <2> QED
    BY <2>1, <2>2, <2>3, Zenon DEF ServerMove, Leaves, Greets, Opens, Saves, Verifies, Delivers
<1>6. ftxstate' # None => /\ ftxstate'.id = blake3(M) /\ ftxstate'.count = M.chunk_count
                          /\ ftxstate'.got \subseteq All
  <2>1. CASE Saves
    <3>1. man = M /\ got \subseteq All
      BY <1>4, <2>1 DEF Saves, SameManifest
    <3>2. ftxstate' = [id |-> blake3(M), count |-> M.chunk_count, got |-> got]
      BY <2>1, <3>1, Zenon DEF Saves
    <3> HIDE DEF M
    <3> QED
      BY <3>1, <3>2
  <2>2. CASE ftxstate' \in {ftxstate, None}
    BY <2>2, Zenon DEF SameManifest
  <2> QED
    BY <2>1, <2>2, Zenon DEF ServerMove, Leaves, Greets, Loads, Opens, Takes, Verifies, Delivers
<1> QED
  BY <1>1, <1>2, <1>3, <1>5, <1>6, Zenon DEF SameManifest

LEMMA SameManifestClient ==
    ASSUME Basics, SameManifest, src' = src, ClientMove
    PROVE  SameManifest'
<1> DEFINE M == SourceManifest
<1>1. SourceManifest' = M
  BY SourceKept, Zenon
<1>2. UNCHANGED <<man, got, ftxstate>>
  BY Zenon DEF ClientMove, Connects
<1>3. ASSUME NEW k \in 1 .. Len(c2s'), c2s'[k].type = "MANIFEST" PROVE c2s'[k].body = M
  <2>1. CASE c2s' = <<Hello>> \/ c2s' = <<>>
    BY <1>3, <2>1 DEF Hello, Frame
  <2>2. ASSUME NEW f, Sends(f), f.type = "MANIFEST" => f.body = M
        PROVE  c2s'[k].body = M
    BY <1>3, <2>2, InFlightType, Appended, Zenon DEF SameManifest
  <2>3. CASE c2s' = c2s
    BY <1>3, <2>3, Zenon DEF SameManifest
  <2>4. "CHUNK" # "MANIFEST" /\ "COMPLETE" # "MANIFEST"
    OBVIOUS
  <2> QED
    BY <2>1, <2>2, <2>3, <2>4, Zenon DEF ClientMove, Connects, Talks
<1> QED
  BY <1>1, <1>2, <1>3, Zenon DEF SameManifest

\* The server takes a frame and adds at most one to what it has said.
LEMMA NoChunksKept ==
    ASSUME Basics, Consumes, NoChunks
    PROVE  NoChunks'
<1>1. PICK d \in {0, 1} : \A k \in 1 .. Len(c2s') : k + d \in 1 .. Len(c2s) /\ c2s'[k] = c2s[k + d]
  BY InFlightType, Shifted, Zenon
<1> QED
  BY <1>1, Zenon DEF NoChunks

LEMMA DistinctKept ==
    ASSUME Basics, Consumes, Distinct
    PROVE  Distinct'
<1>1. PICK d \in {0, 1} : \A k \in 1 .. Len(c2s') : k + d \in 1 .. Len(c2s) /\ c2s'[k] = c2s[k + d]
  BY InFlightType, Shifted, Zenon
<1>2. ASSUME NEW k \in 1 .. Len(c2s'), NEW l \in 1 .. Len(c2s'), k # l,
             c2s'[k].type = "CHUNK", c2s'[l].type = "CHUNK"
      PROVE  c2s'[k].body.index # c2s'[l].body.index
  <2>1. k + d # l + d
    BY <1>2
  <2>2. /\ k + d \in 1 .. Len(c2s) /\ c2s'[k] = c2s[k + d]
        /\ l + d \in 1 .. Len(c2s) /\ c2s'[l] = c2s[l + d]
    BY <1>1, Zenon
  <2> QED
    BY <1>2, <2>1, <2>2, Zenon DEF Distinct
<1> QED
  BY <1>2, Zenon DEF Distinct

LEMMA OnceServer ==
    ASSUME Basics, Once, ServerMove, Consumes, UNCHANGED <<cpc, todo>>
    PROVE  Once'
<1>0. s2c \in Seq(ServerFrames) /\ Len(s2c) \in Nat /\ c2s \in Seq(HonestFrames)
  BY InFlightType, Zenon
<1>1. cpc' \in Waiting => todo' = {} /\ NoChunks'
  BY NoChunksKept, Zenon DEF Once
<1>2. CASE Leaves \/ Verifies \/ Delivers
  <2>1. pc' \in {"idle", "down", "verify", "finalize", "cleanup", "ack"}
    BY <1>2 DEF Leaves, Verifies, Delivers
  <2> QED
    BY <1>1, <2>1 DEF Once
<1>3. CASE Greets \/ Loads
  <2>1. pc \in {"hello", "manifest", "load"} /\ pc' \in {"manifest", "load", "open"}
    BY <1>3 DEF Greets, Loads
  <2>2. todo = {} /\ NoChunks /\ NoRequest
    BY <2>1 DEF Once
  <2>3. NoRequest'
    <3>1. CASE s2c' = s2c
      BY <2>2, <3>1, Zenon DEF NoRequest
    <3>2. CASE s2c' = Append(s2c, Frame("HELLO", [version |-> kProtocolVersion]))
      <4> DEFINE f == Frame("HELLO", [version |-> kProtocolVersion])
      <4>1. f.type # "REQ_CHUNKS" /\ s2c' = Append(s2c, f)
        BY <3>2 DEF Frame
      <4> HIDE DEF f
      <4> QED
        BY <1>0, <2>2, <4>1 DEF NoRequest
    <3> QED
      BY <1>3, <3>1, <3>2 DEF Greets, Loads
  <2>4. NoChunks' /\ todo' = {}
    BY <2>2, NoChunksKept, Zenon
  <2> QED
    BY <1>1, <2>1, <2>3, <2>4 DEF Once
<1>4. CASE Opens
  <2> DEFINE f == Frame("REQ_CHUNKS", [indices |-> Missing])
  <2>1. pc = "open" /\ pc' = "chunks" /\ s2c' = Append(s2c, f) /\ got' = got
    BY <1>4 DEF Opens
  <2>2. todo = {} /\ NoChunks /\ NoRequest
    BY <2>1 DEF Once
  <2>3. NoChunks' /\ todo' = {}
    BY <2>2, NoChunksKept, Zenon
  <2>4. Fresh' /\ Distinct' /\ todo' \cap got' = {}
    BY <2>3, Zenon DEF NoChunks, Fresh, Distinct
  <2>5. f.body.indices \cap got = {}
    BY DEF Frame, Missing
  <2> HIDE DEF f
  <2>6. Asked'
    BY <1>0, <2>1, <2>2, <2>5 DEF Asked, NoRequest
  <2> QED
    BY <1>1, <2>1, <2>4, <2>6 DEF Once
<1>5. CASE Saves
  <2>1. pc = "save" /\ pc' = "chunks" /\ s2c' = s2c /\ got' = got
    BY <1>5 DEF Saves
  <2>2. todo \cap got = {} /\ Fresh /\ Distinct /\ (cpc \in Waiting => Asked)
    BY <2>1 DEF Once
  <2>3. PICK d \in {0, 1} : \A k \in 1 .. Len(c2s') : k + d \in 1 .. Len(c2s) /\ c2s'[k] = c2s[k + d]
    BY <1>0, Shifted
  <2>4. Fresh'
    BY <2>1, <2>2, <2>3, Zenon DEF Fresh
  <2>5. Distinct'
    BY <2>2, DistinctKept
  <2>6. cpc' \in Waiting => Asked'
    BY <2>1, <2>2, Zenon DEF Asked
  <2> QED
    BY <1>1, <2>1, <2>2, <2>4, <2>5, <2>6 DEF Once
<1>6. CASE Takes
  <2> DEFINE h == c2s[1].body.index
  <2>1. /\ pc = "chunks" /\ pc' = "save" /\ c2s # <<>> /\ c2s' = Tail(c2s)
        /\ Head(c2s).type = "CHUNK" /\ got' = got \cup {Head(c2s).body.index}
    BY <1>6 DEF Takes
  <2>2. /\ Head(c2s) = c2s[1] /\ 1 \in 1 .. Len(c2s) /\ Len(c2s) \in Nat
        /\ \A k \in 1 .. Len(c2s') : k + 1 \in 1 .. Len(c2s) /\ k + 1 # 1 /\ c2s'[k] = c2s[k + 1]
    BY <1>0, <2>1
  <2>3. todo \cap got = {} /\ Fresh /\ Distinct /\ cpc \notin Waiting
    BY <2>1, <2>2, Zenon DEF Once, NoChunks
  <2>4. c2s[1].type = "CHUNK" /\ got' = got \cup {h} /\ h \notin got \cup todo
    BY <2>1, <2>2, <2>3, Zenon DEF Fresh
  <2>5. ASSUME NEW k \in 1 .. Len(c2s'), c2s'[k].type = "CHUNK"
        PROVE  c2s'[k].body.index # h /\ c2s'[k].body.index \notin got \cup todo
    <3>1. k + 1 \in 1 .. Len(c2s) /\ k + 1 # 1 /\ c2s'[k] = c2s[k + 1]
      BY <2>2, Zenon
    <3>2. c2s[k + 1].body.index \notin got \cup todo
      BY <2>3, <2>5, <3>1, Zenon DEF Fresh
    <3>3. c2s[k + 1].body.index # c2s[1].body.index
      BY <2>2, <2>3, <2>4, <2>5, <3>1, Zenon DEF Distinct
    <3> QED
      BY <3>1, <3>2, <3>3, Zenon
  <2> HIDE DEF h
  <2>6. Fresh' /\ todo' \cap got' = {}
    <3>1. todo' \cap got' = {}
      BY <2>3, <2>4
    <3> QED
      BY <2>4, <2>5, <3>1, Zenon DEF Fresh
  <2>7. Distinct'
    BY <2>3, DistinctKept
  <2> QED
    BY <1>1, <2>1, <2>3, <2>6, <2>7 DEF Once
<1> QED
  BY <1>2, <1>3, <1>4, <1>5, <1>6 DEF ServerMove

LEMMA OnceClient ==
    ASSUME Basics, Once, ClientMove
    PROVE  Once'
<1>0. c2s \in Seq(HonestFrames)
  BY InFlightType, Zenon
<1> DEFINE Opening == {"hello", "manifest", "load", "open"}
<1>1. CASE Connects
  <2>1. pc' = "hello" /\ todo' = {} /\ s2c' = <<>> /\ c2s' = <<Hello>>
    BY <1>1 DEF Connects
  <2>2. NoChunks' /\ NoRequest'
    BY <2>1 DEF NoChunks, NoRequest, Hello, Frame
  <2> QED
    BY <2>1, <2>2 DEF Once
<1>2. CASE Talks /\ UNCHANGED <<pc, got, s2c>>
  <2>0. UNCHANGED <<pc, got, s2c>> /\ (NoRequest => NoRequest') /\ (Asked => Asked')
    BY <1>2, Zenon DEF NoRequest, Asked
  <2>1. CASE cpc' \notin Waiting /\ todo' = {} /\ UNCHANGED c2s
    <3>1. (NoChunks => NoChunks') /\ (Distinct => Distinct') /\ (Fresh => Fresh')
      BY <2>0, <2>1 DEF NoChunks, Distinct, Fresh
    <3> QED
      BY <2>0, <2>1, <3>1 DEF Once
  <2>2. CASE UNCHANGED <<todo, c2s>> /\ (cpc' \in Waiting => cpc \in Waiting)
    <3>1. (NoChunks => NoChunks') /\ (Distinct => Distinct') /\ (Fresh => Fresh')
      BY <2>0, <2>2, Zenon DEF NoChunks, Distinct, Fresh
    <3> QED
      BY <2>0, <2>2, <3>1 DEF Once
  <2>3. ASSUME NEW f, Sends(f), f.type # "CHUNK", UNCHANGED todo, cpc' \in Waiting => cpc \in Waiting
        PROVE  Once'
    <3>1. /\ Len(c2s') = Len(c2s) + 1 /\ Len(c2s) \in Nat
          /\ \A k \in 1 .. Len(c2s) : c2s'[k] = c2s[k]
          /\ c2s'[Len(c2s) + 1] = f
          /\ \A k \in 1 .. Len(c2s') : k \in 1 .. Len(c2s) \/ k = Len(c2s) + 1
      BY <1>0, <2>3, Appended
    <3>2. (NoChunks => NoChunks') /\ (Fresh => Fresh')
      BY <2>0, <2>3, <3>1, Zenon DEF NoChunks, Fresh
    <3>3. Distinct => Distinct'
      BY <2>3, <3>1, ZenonT(60) DEF Distinct
    <3> QED
      BY <2>0, <2>3, <3>2, <3>3 DEF Once
  <2>4. ASSUME NEW j \in 1 .. Len(s2c), cpc \in Waiting, cpc' \notin Waiting, UNCHANGED c2s,
               s2c[j].type = "REQ_CHUNKS", todo' = s2c[j].body.indices
        PROVE  Once'
    <3>1. NoChunks /\ ~NoRequest
      BY <2>4, Zenon DEF Once, NoRequest
    <3>2. pc \notin Opening
      BY <3>1 DEF Once
    <3>3. NoChunks' /\ Fresh' /\ Distinct'
      BY <2>4, <3>1, Zenon DEF NoChunks, Fresh, Distinct
    <3>4. pc \in {"chunks", "save"} => todo' \cap got' = {}
      <4>1. pc \in {"chunks", "save"} => Asked
        BY <2>4, Zenon DEF Once
      <4> QED
        BY <2>0, <2>4, <4>1, Zenon DEF Asked
    <3> QED
      BY <2>0, <2>4, <3>2, <3>3, <3>4 DEF Once
  <2>5. ASSUME NEW i \in todo, NEW f, Sends(f), f.type = "CHUNK", f.body.index = i,
               todo' = todo \ {i}, cpc' \notin Waiting
        PROVE  Once'
    <3>1. /\ Len(c2s') = Len(c2s) + 1 /\ Len(c2s) \in Nat
          /\ \A k \in 1 .. Len(c2s) : c2s'[k] = c2s[k]
          /\ c2s'[Len(c2s) + 1] = f
          /\ \A k \in 1 .. Len(c2s') : k \in 1 .. Len(c2s) \/ k = Len(c2s) + 1
      BY <1>0, <2>5, Appended
    <3>2. pc \notin Opening
      BY <2>5 DEF Once
    <3>3. ASSUME pc \in {"chunks", "save"} PROVE todo' \cap got' = {} /\ Fresh' /\ Distinct'
      <4>1. todo \cap got = {} /\ Fresh /\ Distinct
        BY <3>3 DEF Once
      <4>2. i \notin got /\ i \notin todo' /\ todo' \subseteq todo
        BY <2>5, <4>1
      <4>3. Fresh'
        <5>1. ASSUME NEW k \in 1 .. Len(c2s'), c2s'[k].type = "CHUNK"
              PROVE  c2s'[k].body.index \notin got \cup todo'
          <6>1. CASE k \in 1 .. Len(c2s)
            <7>1. c2s'[k] = c2s[k] /\ c2s[k].body.index \notin got \cup todo
              BY <3>1, <4>1, <5>1, <6>1, Zenon DEF Fresh
            <7> QED
              BY <4>2, <7>1
          <6>2. CASE k = Len(c2s) + 1
            <7>1. c2s'[k].body.index = i
              BY <2>5, <3>1, <6>2, Zenon
            <7> QED
              BY <4>2, <7>1
          <6> QED
            BY <3>1, <6>1, <6>2
        <5> QED
          BY <2>0, <5>1, Zenon DEF Fresh
      <4>4. Distinct'
        <5>1. \A k \in 1 .. Len(c2s) : c2s[k].type = "CHUNK" => c2s[k].body.index # i
          BY <2>5, <4>1, Zenon DEF Fresh
        <5> DEFINE n == Len(c2s)
        <5>2. ASSUME NEW k \in 1 .. Len(c2s'), NEW l \in 1 .. Len(c2s'), k # l,
                     c2s'[k].type = "CHUNK", c2s'[l].type = "CHUNK"
              PROVE  c2s'[k].body.index # c2s'[l].body.index
          <6>1. CASE k \in 1 .. n /\ l \in 1 .. n
            BY <3>1, <4>1, <5>2, <6>1, Zenon DEF Distinct
          <6>2. CASE k \in 1 .. n /\ l = n + 1
            BY <2>5, <3>1, <5>1, <5>2, <6>2, Zenon
          <6>3. CASE k = n + 1 /\ l \in 1 .. n
            BY <2>5, <3>1, <5>1, <5>2, <6>3, Zenon
          <6> QED
            BY <3>1, <5>2, <6>1, <6>2, <6>3, Zenon
        <5> QED
          BY <5>2, Zenon DEF Distinct
      <4> QED
        BY <2>0, <4>1, <4>2, <4>3, <4>4
    <3> QED
      BY <2>0, <2>5, <3>2, <3>3 DEF Once
  <2>6. CASE c2s' = <<>> /\ UNCHANGED <<cpc, todo>>
    <3>1. NoChunks' /\ Fresh' /\ Distinct'
      BY <2>6 DEF NoChunks, Fresh, Distinct
    <3> QED
      BY <2>0, <2>6, <3>1 DEF Once
  <2>7. "CHUNK" # "MANIFEST" /\ "CHUNK" # "COMPLETE"
    OBVIOUS
  <2> QED
    BY <1>2, <2>1, <2>2, <2>3, <2>4, <2>5, <2>6, <2>7, Zenon DEF Talks
<1> QED
  BY <1>1, <1>2, Zenon DEF ClientMove

LEMMA CountedServer ==
    ASSUME Basics, SameManifest, Once, Counted, Measured, ServerMove
    PROVE  Counted'
<1> DEFINE g == Cardinality(got)
           r == Cardinality(Recorded)
<1>1. /\ sent \in Nat /\ kills \in Nat /\ g \in Nat /\ r \in Nat
      /\ \A i : i \notin got => Cardinality(got \cup {i}) = g + 1
  BY DEF Measured
<1>2. /\ ftxstate' = ftxstate => Recorded' = Recorded
      /\ ftxstate' = None => Recorded' = {}
  BY Zenon DEF Recorded
<1>3. CASE Leaves
  <2>1. /\ pc' \in {"idle", "down"} /\ Recorded' = Recorded /\ sent' = sent
        /\ (kills' = kills /\ pc # "save") \/ kills' = kills + 1
    BY <1>2, <1>3 DEF Leaves
  <2>2. Cardinality(Recorded') = r
    BY <2>1, Zenon
  <2>3. (pc # "save" => sent <= r + kills) /\ (pc = "save" => sent <= g + kills /\ g <= r + 1)
    BY DEF Counted
  <2> HIDE DEF r, g
  <2>4. sent' <= r + kills'
    BY <1>1, <2>1, <2>3
  <2> QED
    BY <2>1, <2>2, <2>4 DEF Counted
<1>4. CASE Greets \/ Opens \/ Verifies
  <2>1. /\ UNCHANGED <<got, sent, kills>> /\ Recorded' = Recorded
        /\ pc # "save" /\ pc' \notin {"save", "cleanup", "ack"}
        /\ pc' \in {"open", "chunks", "verify", "finalize", "rename2"} =>
              pc \in {"open", "chunks", "verify"}
    BY <1>2, <1>4 DEF Greets, Opens, Verifies
  <2>2. sent' <= Cardinality(Recorded') + kills'
    BY <2>1, Zenon DEF Counted
  <2>3. pc \in {"open", "chunks", "verify"} => got' = Recorded'
    BY <2>1 DEF Counted
  <2> QED
    BY <2>1, <2>2, <2>3 DEF Counted
<1>5. CASE Loads
  <2>1. pc = "load" /\ pc' = "open" /\ UNCHANGED <<sent, kills>>
    BY <1>5 DEF Loads
  <2>2. got = {} /\ man = SourceManifest
    BY <2>1 DEF Basics, SameManifest
  <2>3. Recorded' = Recorded /\ got' = Recorded'
    <3>1. CASE ftxstate # None
      <4>1. Resumable(ftxstate, man)
        BY <2>2, <3>1, Zenon DEF SameManifest, Resumable
      <4>2. got' = ftxstate.got /\ ftxstate' = ftxstate
        BY <1>5, <4>1, Zenon DEF Loads
      <4> QED
        BY <3>1, <4>2, Zenon DEF Recorded
    <3>2. CASE ftxstate = None
      <4>1. ~Resumable(ftxstate, man)
        BY <3>2, Zenon DEF Resumable
      <4>2. got' = got /\ ftxstate' = None
        BY <1>5, <4>1, Zenon DEF Loads
      <4> QED
        BY <2>2, <3>2, <4>2, Zenon DEF Recorded
    <3> QED
      BY <3>1, <3>2
  <2>4. sent' <= Cardinality(Recorded') + kills'
    <3>1. sent <= Cardinality(Recorded) + kills
      BY <2>1 DEF Counted
    <3> QED
      BY <2>1, <2>3, <3>1, Zenon
  <2> QED
    BY <2>1, <2>3, <2>4 DEF Counted
<1>6. CASE Takes
  <2>1. /\ pc = "chunks" /\ pc' = "save" /\ c2s # <<>> /\ Head(c2s).type = "CHUNK"
        /\ got' = got \cup {Head(c2s).body.index} /\ sent' = sent + 1 /\ kills' = kills
        /\ Recorded' = Recorded
    BY <1>2, <1>6 DEF Takes
  <2>2. Head(c2s) = c2s[1] /\ 1 \in 1 .. Len(c2s)
    BY <2>1, InFlightType
  <2>3. Head(c2s).body.index \notin got
    BY <2>1, <2>2 DEF Once, Fresh
  <2>4. Cardinality(got') = g + 1 /\ Cardinality(Recorded') = r
    BY <1>1, <2>1, <2>3, Zenon
  <2>5. g = r /\ sent <= r + kills
    BY <2>1 DEF Counted
  <2> HIDE DEF g, r
  <2>6. sent' <= Cardinality(got') + kills' /\ Cardinality(got') <= Cardinality(Recorded') + 1
    BY SMTT(60), <1>1, <2>1, <2>4, <2>5
  <2> QED
    BY <2>1, <2>6 DEF Counted
<1>7. CASE Saves
  <2>1. /\ pc = "save" /\ pc' = "chunks" /\ UNCHANGED <<got, sent, kills>>
        /\ ftxstate' = [id |-> blake3(man), count |-> man.chunk_count, got |-> got]
    BY SMTT(60), <1>7 DEF Saves
  <2>2. man \in Manifests /\ man.chunk_count \in Nat /\ got \in SUBSET Nat
    BY <2>1 DEF Basics, TypeOK, Manifests, ManifestMsg
  <2>3. ftxstate' \in Sidecars
    BY <2>1, <2>2 DEF Sidecars, blake3
  <2>4. ftxstate' # None
    BY <2>3, ReceiverAssumption, Zenon
  <2>5. ftxstate'.got = got
    BY <2>1
  <2>6. Recorded' = got
    BY <2>4, <2>5, Zenon DEF Recorded
  <2>7. sent <= g + kills
    BY <2>1 DEF Counted
  <2>8. got' = Recorded' /\ sent' <= Cardinality(Recorded') + kills'
    BY <2>1, <2>6, <2>7, Zenon
  <2> QED
    BY <2>1, <2>8 DEF Counted
<1>8. CASE Delivers
  <2>1. /\ pc' \in {"cleanup", "ack"} /\ kills' = kills /\ sent' = 0
        /\ Recorded' = Recorded \/ Recorded' = {}
    BY <1>2, <1>8 DEF Delivers, Counted
  <2>2. Cardinality(Recorded') \in Nat
    <3>1. Cardinality({}) \in Nat
      BY DEF Measured
    <3> QED
      BY <1>1, <2>1, <3>1, Zenon
  <2>3. sent' <= Cardinality(Recorded') + kills'
    BY <1>1, <2>1, <2>2
  <2> QED
    BY <2>1, <2>3 DEF Counted
<1> QED
  BY <1>3, <1>4, <1>5, <1>6, <1>7, <1>8 DEF ServerMove

LEMMA CountedClient ==
    ASSUME Counted, ClientMove
    PROVE  Counted'
<1>1. UNCHANGED <<got, ftxstate, sent, kills>> /\ (pc' = pc \/ (pc = "idle" /\ pc' = "hello"))
  BY Zenon DEF ClientMove, Connects
<1>2. Recorded' = Recorded
  BY <1>1, Zenon DEF Recorded
<1>3. /\ Cardinality(Recorded') = Cardinality(Recorded) /\ Cardinality(got') = Cardinality(got)
  BY <1>1, <1>2, Zenon
<1> QED
  BY <1>1, <1>2, <1>3 DEF Counted

LEMMA PassManifest ==
    ASSUME Basics, Stable, edits = 0, ~ClientGone, Len(hashed) = ChunkCount(size)
    PROVE  ManifestOf(size, hashed).body = SourceManifest
<1>1. /\ size = Len(src) /\ hashed \in Seq(Files)
      /\ \A j \in 1 .. Len(hashed) : hashed[j] = ReadAt(src, size, j - 1)
  BY DEF Stable, Basics
<1>2. hashed = [j \in 1 .. ChunkCount(size) |-> ReadAt(src, size, j - 1)]
  BY <1>1
<1> QED
  BY <1>1, <1>2, Zenon DEF SourceManifest

LEMMA ClientMoves ==
    ASSUME Basics, Stable, edits = 0,
           ClientStep \/ LinkDrops \/ SenderKilled \/ UNCHANGED tvars
    PROVE  ClientMove
<1>1. CASE Connect
  <2>1. todo = {}
    BY <1>1 DEF Connect, Basics
  <2> QED
    BY <1>1, <2>1, Zenon DEF Connect, Accept, ClientMove, Connects, disk, session, progress, counters
<1>2. CASE ~Connect
  <2>1. UNCHANGED <<vars, sent>>
    BY <1>2, Zenon DEF ClientStep, ConnectRefused, RecvHello, HashChunk, SendManifest, RecvReqChunks,
       SendChunk, SendComplete, RecvAck, ClientFails, LinkDrops, SenderKilled, tvars
  <2>2. UNCHANGED <<pc, man, got, ftxstate, s2c, kills, faults, sent>>
    BY <2>1, Zenon DEF vars, disk, session, progress, counters
  <2>3. CASE \/ ConnectRefused \/ RecvAck \/ ClientFails \/ SenderKilled
             \/ RecvHello /\ ClientReturn("failed")
             \/ RecvReqChunks /\ ClientReturn("failed")
    <3>1. todo' = {} /\ UNCHANGED c2s /\ cpc' \in {"ok", "failed"}
      BY <2>3, Zenon DEF ConnectRefused, RecvAck, ClientFails, SenderKilled, RecvHello, RecvReqChunks,
         ClientReturn, wire
    <3> QED
      BY <2>2, <3>1 DEF ClientMove, Talks, Waiting
  <2>4. CASE HashChunk \/ (RecvHello /\ ~ClientReturn("failed"))
    <3>1. cpc \in {"hello", "hash"} /\ UNCHANGED <<todo, c2s>>
      BY <2>4, Zenon DEF HashChunk, RecvHello, wire
    <3> QED
      BY <2>2, <3>1 DEF ClientMove, Talks, Waiting
  <2>5. CASE SendManifest
    <3> DEFINE f == ManifestOf(size, hashed)
    <3>1. cpc = "hash" /\ Len(hashed) = ChunkCount(size) /\ UNCHANGED todo /\ Sends(f)
      BY <2>5, Zenon DEF SendManifest, Send, Sends
    <3>2. f.type = "MANIFEST" /\ f.body = SourceManifest
      <4>1. ~ClientGone
        BY <3>1 DEF ClientGone
      <4>2. f.type = "MANIFEST"
        BY DEF ManifestOf, Frame
      <4> QED
        BY <3>1, <4>1, <4>2, PassManifest, Zenon
    <3> HIDE DEF f
    <3> QED
      BY <2>2, <3>1, <3>2, Zenon DEF ClientMove, Talks, Waiting
  <2>6. CASE RecvReqChunks /\ ~ClientReturn("failed")
    <3>1. /\ cpc = "req" /\ cpc' = "send" /\ UNCHANGED c2s /\ Arrived
          /\ Incoming.type = "REQ_CHUNKS" /\ todo' = Incoming.body.indices
      BY <2>6, Zenon DEF RecvReqChunks, wire
    <3>2. PICK j \in 1 .. Len(s2c) : Incoming = s2c[j]
      BY <3>1, IncomingIs
    <3>3. s2c[j].type = "REQ_CHUNKS" /\ todo' = s2c[j].body.indices
      BY <3>1, <3>2, Zenon
    <3> QED
      BY <2>2, <3>1, <3>3 DEF ClientMove, Talks, Waiting
  <2>7. ASSUME NEW i \in todo, SendChunk(i) PROVE ClientMove
    <3> DEFINE f == ChunkOf(i, hashed[i + 1], ReadAt(src, size, i))
    <3>1. cpc' = "send" /\ todo' = todo \ {i} /\ Sends(f)
      BY <2>7, Zenon DEF SendChunk, Send, Sends
    <3>2. f.type = "CHUNK" /\ f.body.index = i
      BY DEF ChunkOf, Frame
    <3> HIDE DEF f
    <3>3. cpc' \notin Waiting
      BY <3>1 DEF Waiting
    <3> QED
      BY <2>2, <3>1, <3>2, <3>3, Zenon DEF ClientMove, Talks
  <2>8. CASE SendComplete
    <3> DEFINE f == CompleteOf(hashed)
    <3>1. cpc' = "ack" /\ UNCHANGED todo /\ Sends(f)
      BY <2>8, Zenon DEF SendComplete, Send, Sends
    <3>2. f.type = "COMPLETE"
      BY DEF CompleteOf, Frame
    <3> HIDE DEF f
    <3>3. cpc' \notin Waiting
      BY <3>1 DEF Waiting
    <3> QED
      BY <2>2, <3>1, <3>2, <3>3, Zenon DEF ClientMove, Talks
  <2>9. CASE LinkDrops \/ UNCHANGED tvars
    BY <2>2, <2>9, Zenon DEF LinkDrops, tvars, client, wire, ClientMove, Talks
  <2> QED
    BY <1>2, <2>3, <2>4, <2>5, <2>6, <2>7, <2>8, <2>9, Zenon DEF ClientStep
<1> QED
  BY <1>1, <1>2

LEMMA QuietSteps ==
    ASSUME Basics, Stable, [TransferNext]_tvars, edits' = 0, faults' = 0
    PROVE  /\ edits = 0 /\ faults = 0 /\ src' = src
           /\ \/ ClientMove
              \/ ServerMove /\ Consumes /\ UNCHANGED <<cpc, todo>>
<1>1. edits = 0 /\ src' = src
  <2>1. edits \in Nat
    BY TransferAssumption DEF Basics, TransferTypeOK
  <2>2. ~EditSource
    BY <2>1 DEF EditSource
  <2> QED
    BY <2>2, Zenon DEF TransferNext, ClientStep, Connect, ConnectRefused, RecvHello, HashChunk,
           SendManifest, RecvReqChunks, SendChunk, SendComplete, RecvAck, ClientFails,
           ServerStep, ServerRecv, ServerRecvFails, ServerWork, ServerSendFails,
           ServerRestart, ServerKilled, LinkDrops, SenderKilled, Dropped, bounds, tvars
<1>3. CASE ServerStep \/ ServerKilled
  <2>1. ServerMove /\ Consumes
    BY <1>3, ServerMoves
  <2>2. UNCHANGED <<cpc, todo>>
    BY <1>3, Zenon DEF ServerStep, ServerRecv, ServerRecvFails, ServerWork, ServerSendFails,
                ServerRestart, ServerKilled, client
  <2>3. faults' = faults
    BY <2>1, Zenon DEF ServerMove, Leaves, Greets, Loads, Opens, Takes, Saves, Verifies, Delivers
  <2> QED
    BY <1>1, <2>1, <2>2, <2>3
<1>4. CASE ClientStep \/ LinkDrops \/ SenderKilled \/ UNCHANGED tvars
  <2>1. ClientMove
    BY <1>1, <1>4, ClientMoves
  <2>2. faults' = faults
    BY <2>1, Zenon DEF ClientMove, Connects
  <2> QED
    BY <1>1, <2>1, <2>2
<1>5. ~EditSource
  <2>1. edits \in Nat
    BY TransferAssumption DEF Basics, TransferTypeOK
  <2> QED
    BY <2>1 DEF EditSource
<1> QED
  BY <1>3, <1>4, <1>5 DEF TransferNext

-----------------------------------------------------------------------------
(***************************************************************************)
(* The source, chunk by chunk.                                             *)
(***************************************************************************)
Whole    == Len(src)
Count    == ChunkCount(Whole)
Piece(i) == ReadAt(src, Whole, i)
Pieces   == [j \in 1 .. Count |-> Piece(j - 1)]
Upto(n)  == SubSeq(src, 1, IF n * ChunkSize <= Whole THEN n * ChunkSize ELSE Whole)

\* The chunks of a source that can be sent are all counted, and none is empty.
LEMMA CountCovers ==
    ASSUME Basics, Sendable(src)
    PROVE  /\ src \in Files /\ Whole \in Nat /\ Count \in Nat
           /\ Count * ChunkSize >= Whole
           /\ \A i \in 0 .. Count - 1 : i * ChunkSize \in Nat /\ i * ChunkSize < Whole
<1> DEFINE c == ChunkSize
           q == (Whole + c - 1) \div c
<1>1. src \in Files /\ Whole \in Nat /\ c \in Nat \ {0} /\ U32 \in Nat \ {0}
  BY TransferAssumption DEF Basics, TransferTypeOK, Files, Whole
<1>2. q \in Nat /\ q * c <= Whole + c - 1 /\ Whole + c - 1 < q * c + c
  <2> HIDE DEF Whole
  <2>1. Whole + c - 1 \in Nat
    BY <1>1
  <2> DEFINE w == Whole + c - 1
             r == w % c
  <2>2. w = c * (w \div c) + r /\ r \in 0 .. c - 1 /\ w \div c \in Nat
    BY <1>1, <2>1
  <2> QED
    BY <1>1, <2>1, <2>2
<1>3. q < U32
  BY DEF Sendable, Whole
<1> HIDE DEF q
<1>4. q % U32 = q
  BY <1>1, <1>2, <1>3
<1>5. Count = q
  BY <1>4 DEF Count, ChunkCount, q
<1>6. ASSUME NEW i \in 0 .. q - 1 PROVE i * c \in Nat /\ i * c < Whole
  <2>1. PICK d \in Nat : q = i + 1 + d
    <3>1. q - i - 1 \in Nat /\ q = i + 1 + (q - i - 1)
      BY <1>2
    <3> QED
      BY <3>1
  <2>2. q * c = i * c + c + d * c /\ d * c \in Nat /\ i * c \in Nat
    BY <1>1, <2>1
  <2> QED
    BY <1>1, <1>2, <2>2
<1>7. q * c \in Nat
  BY <1>1, <1>2
<1> HIDE DEF Whole
<1>8. q * c >= Whole
  BY <1>1, <1>2, <1>7
<1> QED
  BY <1>1, <1>2, <1>5, <1>6, <1>8

\* What FileSource::read_at returns of a source that does not change.
LEMMA PieceIs ==
    ASSUME Basics, NEW i \in Nat
    PROVE  /\ Piece(i) = SubSeq(src, i * ChunkSize + 1,
                                IF (i + 1) * ChunkSize <= Whole THEN (i + 1) * ChunkSize
                                ELSE Whole)
           /\ Piece(i) \in Files
<1> DEFINE b == (i + 1) * ChunkSize
           l == Whole
<1>1. src \in Files /\ l \in Nat /\ ChunkSize \in Nat
  BY TransferAssumption DEF Basics, TransferTypeOK, Files, Whole
<1>2. b \in Int /\ l \in Int
  BY <1>1
<1>3. Piece(i) = SubSeq(src, i * ChunkSize + 1, Min({b, l, l}))
  BY Zenon DEF Piece, ReadAt, Whole
<1> HIDE DEF b, l
<1>5. Min({b, l, l}) = IF b <= l THEN b ELSE l
  BY <1>2, MinOfTwo
<1> DEFINE e == IF b <= l THEN b ELSE l
           a == i * ChunkSize + 1
<1>6. e \in Nat /\ e <= Len(src) /\ a \in 1 .. a /\ src \in Seq(Values) /\ a >= 1
  BY <1>1 DEF b, l, Whole, Files
<1> HIDE DEF a, e
<1>7. SubSeq(src, a, e) \in Seq(Values)
  BY <1>1, <1>6
<1> QED
  BY <1>3, <1>5, <1>7, Zenon DEF a, b, e, l, Files

LEMMA PieceLength ==
    ASSUME Basics, Sendable(src), NEW i \in 0 .. Count - 1
    PROVE  /\ Piece(i) \in Files /\ Len(Piece(i)) \in Nat
           /\ i * ChunkSize + Len(Piece(i)) <= Whole
           /\ Len(Piece(i)) = ChunkSize \/ i * ChunkSize + Len(Piece(i)) = Whole
           /\ \A k \in 1 .. Len(Piece(i)) : Piece(i)[k] = src[i * ChunkSize + k]
<1> DEFINE at == i * ChunkSize
           e  == IF at + ChunkSize <= Whole THEN at + ChunkSize ELSE Whole
<1>1. /\ src \in Files /\ Whole \in Nat /\ Count \in Nat /\ ChunkSize \in Nat \ {0}
      /\ at \in Nat /\ at < Whole /\ i \in Nat
  BY CountCovers, TransferAssumption
<1>2. (i + 1) * ChunkSize = at + ChunkSize
  BY <1>1
<1>3. Piece(i) = SubSeq(src, at + 1, e) /\ Piece(i) \in Files
  BY <1>1, <1>2, PieceIs, Zenon
<1> HIDE DEF at
<1>4. e \in at + 1 .. Len(src) /\ Len(src) = Whole /\ (e = at + ChunkSize \/ e = Whole)
  BY <1>1 DEF Whole
<1> HIDE DEF e
<1>5. /\ at + 1 \in 1 .. Len(src) /\ e \in 1 .. Len(src) /\ at + 1 <= e
      /\ src \in Seq(Values) /\ Len(src) \in Nat
  BY <1>1, <1>4 DEF Files
<1> DEFINE b == at + 1
<1>6. b \in Int /\ e \in Int /\ b = at + 1
  BY <1>1, <1>4
<1> HIDE DEF b
<1>7. Len(SubSeq(src, b, e)) = e - b + 1
  BY <1>5, <1>6
<1>8. \A k \in 1 .. e - b + 1 : SubSeq(src, b, e)[k] = src[b + k - 1]
  BY <1>5, <1>6
<1>9. /\ Len(Piece(i)) = e - at
      /\ \A k \in 1 .. e - at : Piece(i)[k] = src[at + k]
  <2>1. Piece(i) = SubSeq(src, b, e)
    BY <1>3, <1>6, Zenon
  <2>2. e - b + 1 = e - at /\ \A k \in 1 .. e - at : b + k - 1 = at + k
    BY <1>1, <1>6
  <2> QED
    BY <1>7, <1>8, <2>1, <2>2, Zenon
<1> QED
  BY <1>1, <1>3, <1>4, <1>9 DEF at

LEMMA UptoFacts ==
    ASSUME Basics
    PROVE  /\ Upto(0) = <<>>
           /\ \A n \in Nat : Upto(n + 1) = Update(Upto(n), Piece(n)) /\ Upto(n) \in Files
           /\ Sendable(src) => Upto(Count) = src
<1> DEFINE c == ChunkSize
<1>1. src \in Files /\ Whole \in Nat /\ c \in Nat /\ Whole = Len(src)
  BY TransferAssumption DEF Basics, TransferTypeOK, Files, Whole
<1>2. Upto(0) = <<>>
  <2>1. 0 * c = 0 /\ 0 <= Whole
    BY <1>1
  <2>2. SubSeq(src, 1, 0) = <<>>
    BY <1>1 DEF Files
  <2> QED
    BY <2>1, <2>2, Zenon DEF Upto
<1>3. ASSUME NEW n \in Nat PROVE Upto(n + 1) = Update(Upto(n), Piece(n)) /\ Upto(n) \in Files
  <2> DEFINE k == n * c
             m == (n + 1) * c
  <2>1. k \in Nat /\ m \in Nat /\ m = k + c
    BY <1>1
  <2>2. Piece(n) = SubSeq(src, k + 1, IF m <= Whole THEN m ELSE Whole)
    BY PieceIs
  <2>3. Upto(n) = SubSeq(src, 1, IF k <= Whole THEN k ELSE Whole)
    BY DEF Upto
  <2>4. Upto(n + 1) = SubSeq(src, 1, IF m <= Whole THEN m ELSE Whole)
    BY DEF Upto
  <2> HIDE DEF k, m
  <2>5. k <= m /\ src \in Seq(Values)
    BY <1>1, <2>1 DEF Files
  <2>6. Upto(n) \o Piece(n) = Upto(n + 1)
    BY <1>1, <2>1, <2>2, <2>3, <2>4, <2>5, PrefixGrows, Zenon
  <2>7. Upto(n) \in Files
    <3> DEFINE e == IF k <= Whole THEN k ELSE Whole
    <3>1. e \in 0 .. Len(src)
      BY <1>1, <2>1
    <3> HIDE DEF e
    <3>2. SubSeq(src, 1, e) \in Seq(Values)
      BY <2>5, <3>1
    <3> QED
      BY <2>3, <3>2, Zenon DEF e, Files
  <2> QED
    BY <2>6, <2>7, Zenon DEF Update
<1>4. ASSUME Sendable(src) PROVE Upto(Count) = src
  <2>1. Count * c >= Whole /\ Count \in Nat
    BY <1>4, CountCovers
  <2> DEFINE x == Count * c
  <2>2. x \in Nat /\ x >= Whole
    BY <1>1, <2>1
  <2> HIDE DEF x
  <2>3. (IF x <= Whole THEN x ELSE Whole) = Whole
    BY <1>1, <2>2
  <2>4. SubSeq(src, 1, Len(src)) = src
    BY <1>1 DEF Files
  <2> QED
    BY <1>1, <2>3, <2>4, Zenon DEF Upto, x
<1> QED
  BY <1>2, <1>3, <1>4

\* The fields of the manifest.
LEMMA SourceFields ==
    ASSUME Basics
    PROVE  /\ SourceManifest.path = DestPath /\ SourceManifest.file_size = Whole
           /\ SourceManifest.chunk_size = ChunkSize /\ SourceManifest.chunk_count = Count
           /\ SourceManifest.root_hash = blake3(Concat(Pieces))
           /\ \A i \in 0 .. Count - 1 : SourceManifest.chunk_hashes[i + 1] = blake3(Piece(i))
           /\ Pieces \in Seq(Files) /\ Len(Pieces) = Count
<1>1. Count \in Nat
  BY SourceCount DEF Count, Whole
<1>2. SourceManifest = ManifestOf(Whole, Pieces).body
  BY Zenon DEF SourceManifest, Pieces, Piece, Whole, Count
<1>3. \A j \in 1 .. Count : Piece(j - 1) \in Files
  BY <1>1, PieceIs
<1>4. Len(Pieces) = Count /\ Pieces \in Seq(Files)
  BY <1>1, <1>3 DEF Pieces
<1>5. \A i \in 0 .. Count - 1 : i + 1 \in 1 .. Len(Pieces) /\ Pieces[i + 1] = Piece(i)
  BY <1>1, <1>4 DEF Pieces
<1> HIDE DEF Pieces
<1>6. /\ SourceManifest.path = DestPath /\ SourceManifest.file_size = Whole
      /\ SourceManifest.chunk_size = ChunkSize /\ SourceManifest.chunk_count = Len(Pieces)
      /\ SourceManifest.root_hash = blake3(Concat(Pieces))
      /\ SourceManifest.chunk_hashes = [j \in 1 .. Len(Pieces) |-> blake3(Pieces[j])]
  BY <1>2 DEF ManifestOf, Frame
<1>7. \A i \in 0 .. Count - 1 : SourceManifest.chunk_hashes[i + 1] = blake3(Piece(i))
  BY <1>5, <1>6, Zenon
<1> QED
  BY <1>4, <1>6, <1>7

LEMMA PiecesAreSource ==
    ASSUME Basics, Sendable(src)
    PROVE  Concat(Pieces) = src
<1> DEFINE c == ChunkSize
<1>1. src \in Seq(Values) /\ Whole = Len(src) /\ c \in Nat /\ Count \in Nat
  BY TransferAssumption, CountCovers DEF Files, Whole
<1>2. Pieces \in Seq(Seq(Values)) /\ Len(Pieces) = Count
  BY SourceFields DEF Files
<1>3. ASSUME NEW j \in 1 .. Len(Pieces)
      PROVE  Pieces[j] = SubSeq(src, (j - 1) * c + 1, IF j * c <= Len(src) THEN j * c ELSE Len(src))
  <2>1. j - 1 \in Nat /\ (j - 1) + 1 = j /\ j \in 1 .. Count
    BY <1>1, <1>2
  <2>2. Pieces[j] = Piece(j - 1)
    BY <2>1 DEF Pieces
  <2> QED
    BY <1>1, <2>1, <2>2, PieceIs, Zenon
<1>4. Concat(Pieces) = SubSeq(src, 1, IF Count * c <= Len(src) THEN Count * c ELSE Len(src))
  BY <1>1, <1>2, <1>3, ConcatPieces, Zenon
<1> QED
  BY <1>1, <1>4, UptoFacts, Zenon DEF Upto

\* Every byte of the source lies in one of its chunks.
LEMMA PieceAt ==
    ASSUME Basics, Sendable(src), NEW j \in 1 .. Whole
    PROVE  \E i \in 0 .. Count - 1 : \E k \in 1 .. Len(Piece(i)) : j = i * ChunkSize + k
<1> DEFINE c == ChunkSize
           i == (j - 1) \div c
           at == i * c
<1>1. Whole \in Nat /\ Count \in Nat /\ c \in Nat \ {0} /\ Count * c >= Whole /\ j - 1 \in Nat
  BY CountCovers, TransferAssumption
<1>2. i \in Nat /\ at \in Nat /\ at <= j - 1 /\ j - 1 < at + c
  <2> DEFINE w == j - 1
             r == w % c
  <2>1. w = c * (w \div c) + r /\ r \in 0 .. c - 1 /\ w \div c \in Nat
    BY <1>1
  <2> QED
    BY <1>1, <2>1
<1> HIDE DEF i
<1>3. i < Count
  <2> SUFFICES ASSUME ~(i < Count) PROVE FALSE
    OBVIOUS
  <2>1. PICK d \in Nat : i = Count + d
    <3>1. i - Count \in Nat /\ i = Count + (i - Count)
      BY <1>1, <1>2
    <3> QED
      BY <3>1
  <2>2. at = Count * c + d * c /\ d * c \in Nat /\ Count * c \in Nat
    BY <1>1, <2>1
  <2> HIDE DEF at
  <2> QED
    BY <1>1, <1>2, <2>2
<1>4. i \in 0 .. Count - 1
  BY <1>1, <1>2, <1>3
<1>5. Len(Piece(i)) \in Nat /\ (Len(Piece(i)) = c \/ at + Len(Piece(i)) = Whole)
  BY <1>4, PieceLength
<1> HIDE DEF at
<1>6. j - at \in 1 .. Len(Piece(i)) /\ j = at + (j - at)
  BY <1>1, <1>2, <1>5
<1> QED
  BY <1>4, <1>6, Zenon DEF at

\* The manifest of a source that can be sent is a manifest.
LEMMA SourceManifestType ==
    ASSUME Basics, Sendable(src)
    PROVE  /\ SourceManifest \in Manifests
           /\ SourceManifest.root_hash = blake3(src)
<1>1. /\ Whole \in Nat /\ Count \in Nat /\ ChunkSize \in Nat /\ src \in Files
  BY CountCovers, TransferAssumption
<1>2. Concat(Pieces) = src
  BY PiecesAreSource
<1>3. Pieces \in Seq(Files) /\ Len(Pieces) = Count
  BY SourceFields
<1> DEFINE h == [j \in 1 .. Len(Pieces) |-> blake3(Pieces[j])]
<1>4. h \in Seq(Digests) /\ Len(h) = Count
  <2>1. \A j \in 1 .. Len(Pieces) : blake3(Pieces[j]) \in Digests
    BY <1>3 DEF blake3, Digests
  <2> QED
    BY <1>1, <1>3, <2>1
<1>5. blake3(src) \in Digests
  BY <1>1 DEF blake3, Digests
<1>6. SourceManifest = [path |-> DestPath, file_size |-> Whole, chunk_size |-> ChunkSize,
                        chunk_count |-> Count, root_hash |-> blake3(src), chunk_hashes |-> h]
  <2>1. SourceManifest = ManifestOf(Whole, Pieces).body
    BY Zenon DEF SourceManifest, Pieces, Piece, Whole, Count
  <2> HIDE DEF h
  <2>2. ManifestOf(Whole, Pieces).body =
           [path |-> DestPath, file_size |-> Whole, chunk_size |-> ChunkSize,
            chunk_count |-> Len(Pieces), root_hash |-> blake3(Concat(Pieces)), chunk_hashes |-> h]
    <3>1. \A x : Frame("MANIFEST", x).body = x
      BY DEF Frame
    <3> QED
      BY <3>1, Zenon DEF ManifestOf, h
  <2> QED
    BY <1>2, <1>3, <2>1, <2>2, Zenon
<1> HIDE DEF h
<1> QED
  BY <1>1, <1>4, <1>5, <1>6 DEF Manifests, ManifestMsg

=============================================================================
