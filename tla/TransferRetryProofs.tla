------------------------ MODULE TransferRetryProofs ------------------------
(***************************************************************************)
(* Proofs about Transfer, last part: what the two ends agree on (the first *)
(* part) gives the hypotheses under which the second and the third argue   *)
(* about the moves, and the theorems about interrupted and repeated        *)
(* transfers follow.                                                       *)
(***************************************************************************)
EXTENDS TransferProofs, TransferErrorProofs, FiniteSetTheorems

LEMMA BasicsHold ==
    ASSUME TInv
    PROVE  Basics
<1>1. TypeOK /\ TransferTypeOK /\ hashed \in Seq(Files)
      /\ (ClientGone => hashed = <<>> /\ todo = {})
      /\ (cpc \in {"req", "send", "ack"} => Len(hashed) = ChunkCount(size))
  BY Zenon DEF TInv, IInv, Shape, Reads, Requested
<1>2. (pc \notin {"idle", "down", "hello", "manifest"} => man # None) /\ (pc = "load" => got = {})
  BY DEF TInv, IInv, Shape, Starting
<1> QED
  BY <1>1, <1>2 DEF Basics

\* What the invariants of Receiver say of a session in which nothing failed.
LEMMA KeptHolds ==
    ASSUME TInv, Tracked, Retained, kills = 0, faults = 0
    PROVE  Kept
<1>1. pc # "rename2"
  BY DEF Tracked
<1>2. pc = "open" => hasher = <<>> /\ next = 0 /\ chunks = 0 /\ (~resume => got = {})
  BY DEF Tracked, TInv, IInv, Shape, Starting
<1>3. ASSUME pc = "verify"
      PROVE  /\ inorder => bytes = Len(hasher)
             /\ View \in Files /\ Len(View) = man.file_size
             /\ \A i \in got : OnDisk(man, i, View)
  <2>1. pc \in Sinking
    BY <1>3 DEF Sinking
  <2>2. View \in Files
    BY <2>1, ViewType DEF TInv, IInv
  <2>3. Held(man, got, View)
    BY <2>1 DEF Retained
  <2>4. inorder => bytes = Len(hasher)
    BY <1>3 DEF TInv, IInv, HashedIsWritten
  <2>5. ChunksFit(man)
    BY <1>3 DEF TInv, IInv, Shape, Linked
  <2> QED
    BY <2>2, <2>3, <2>4, <2>5, Zenon DEF Held
<1> QED
  BY <1>1, <1>2, <1>3 DEF Kept

\* While nothing fails, the Receiver that Transfer implements keeps its ground.
LEMMA KeptAlways == TransferSpec => [](kills = 0 /\ faults = 0 => Kept)
<1>1. TInv /\ Tracked /\ Retained => (kills = 0 /\ faults = 0 => Kept)
  BY KeptHolds
<1> QED
  BY <1>1, TInvAlways, TrackedAlways, RetainedAlways, TransferImplementsReceiver, PTL
     DEF ImplementsReceiver

LEMMA StableAlways == TransferSpec => []Stable
<1>1. TransferInit => Stable
  BY DEF TransferInit, Stable, ClientGone
<1>2. TInv /\ Stable /\ [TransferNext]_tvars => Stable'
  BY BasicsHold, StableStep
<1> QED
  BY <1>1, <1>2, TInvAlways, PTL DEF TransferSpec

LEMMA WholeStep ==
    ASSUME TInv, Stable, [TransferNext]_tvars, cpc' = "ok", cpc # "ok", edits = 0
    PROVE  dest = src
<1>1. RecvAck /\ Incoming.type = "ACK"
  BY SuccessRecvsAck
<1>2. Agreed /\ ~ClientGone
  BY <1>1 DEF RecvAck, TInv, Linked, ClientGone
<1>3. dest = Concat(hashed) /\ Len(dest) >= size
  BY <1>1, <1>2, IncomingFacts DEF RecvAck, Agreed
<1>4. PICK k \in 0 .. Len(src) : Concat(hashed) = SubSeq(src, 1, k)
  BY <1>2, BasicsHold, PassIsPrefix
<1>5. src \in Files /\ size = Len(src)
  BY <1>2, BasicsHold, PassIsPrefix DEF Stable
<1>6. Len(SubSeq(src, 1, k)) = k
  BY <1>5 DEF Files
<1>7. k = Len(src)
  BY <1>3, <1>4, <1>5, <1>6 DEF Files
<1>8. SubSeq(src, 1, Len(src)) = src
  BY <1>5 DEF Files
<1> QED
  BY <1>3, <1>4, <1>7, <1>8, Zenon

\* ... and of a source that was never edited it holds all of it: chunk_count may
\* wrap at 2^32, but .partial was sized by file_size, so that the root hash of a
\* prefix can never be that of the file.
THEOREM SuccessIsWhole == TransferSpec => SuccessMeansWhole
<1>1. TInv /\ Stable /\ [TransferNext]_tvars =>
         [cpc' = "ok" /\ cpc # "ok" /\ edits = 0 => dest = src]_tvars
  BY WholeStep
<1> QED
  BY <1>1, TInvAlways, StableAlways, PTL DEF TransferSpec, SuccessMeansWhole

-----------------------------------------------------------------------------
(***************************************************************************)
(* What a kill costs: the moves of TransferMoveProofs keep CountInv.       *)
(***************************************************************************)
\* Sets of chunk indices, counted.
LEMMA IndicesCount ==
    ASSUME NEW n \in Nat, NEW S \in SUBSET (0 .. n - 1)
    PROVE  /\ Cardinality(S) \in Nat /\ Cardinality(S) <= n
           /\ \A i : i \notin S => Cardinality(S \cup {i}) = Cardinality(S) + 1
<1>1. IsFiniteSet(0 .. n - 1) /\ Cardinality(0 .. n - 1) = n
  BY FS_Interval
<1>2. IsFiniteSet(S) /\ Cardinality(S) <= n
  BY <1>1, FS_Subset
<1>3. Cardinality(S) \in Nat
  BY <1>2, FS_CardinalityType
<1>4. ASSUME NEW i, i \notin S PROVE Cardinality(S \cup {i}) = Cardinality(S) + 1
  BY <1>2, <1>4, FS_AddElement
<1> QED
  BY <1>2, <1>3, <1>4

LEMMA EmptyCount == Cardinality({}) = 0
  BY FS_EmptySet

LEMMA CountsMeasured ==
    ASSUME Basics, SameManifest
    PROVE  Measured
<1> DEFINE n == SourceManifest.chunk_count
<1>1. n \in Nat /\ n = ChunkCount(Len(src))
  BY SourceCount
<1>2. sent \in Nat /\ kills \in Nat
  BY DEF Basics, TypeOK, TransferTypeOK
<1>3. got \in SUBSET (0 .. n - 1) /\ Recorded \in SUBSET (0 .. n - 1)
  BY DEF SameManifest, Recorded
<1> HIDE DEF n
<1> QED
  BY <1>1, <1>2, <1>3, IndicesCount, EmptyCount DEF Measured

LEMMA CountInvStep ==
    ASSUME Basics, Stable, CountInv, [TransferNext]_tvars
    PROVE  CountInv'
<1> SUFFICES ASSUME edits' = 0, faults' = 0 PROVE SameManifest' /\ Once' /\ Counted'
  BY DEF CountInv
<1>1. /\ edits = 0 /\ faults = 0 /\ src' = src
      /\ ClientMove \/ (ServerMove /\ Consumes /\ UNCHANGED <<cpc, todo>>)
  BY QuietSteps
<1>2. SameManifest /\ Once /\ Counted
  BY <1>1 DEF CountInv
<1>3. CASE ClientMove
  BY <1>1, <1>2, <1>3, SameManifestClient, OnceClient, CountedClient
<1>4. CASE ServerMove /\ Consumes /\ UNCHANGED <<cpc, todo>>
  BY <1>1, <1>2, <1>4, CountsMeasured, SameManifestServer, OnceServer,
     CountedServer
<1> QED
  BY <1>1, <1>3, <1>4

LEMMA CountInvInit == TransferInit => CountInv
<1> SUFFICES ASSUME TransferInit PROVE SameManifest /\ Once /\ Counted
  BY DEF CountInv
<1>1. /\ ftxstate = None /\ pc = "idle" /\ man = None /\ got = {} /\ s2c = <<>> /\ kills = 0
      /\ cpc = "off" /\ todo = {} /\ c2s = <<>> /\ sent = 0
  BY DEF TransferInit, Init
<1>2. Recorded = {} /\ Cardinality({}) = 0
  BY <1>1, EmptyCount DEF Recorded
<1>3. SameManifest
  BY <1>1 DEF SameManifest
<1>4. Once
  BY <1>1 DEF Once, Waiting
<1> QED
  BY <1>1, <1>2, <1>3, <1>4 DEF Counted

LEMMA CountInvAlways == TransferSpec => []CountInv
<1>1. TInv /\ Stable /\ CountInv /\ [TransferNext]_tvars => CountInv'
  BY BasicsHold, CountInvStep
<1> QED
  BY <1>1, CountInvInit, TInvAlways, StableAlways, PTL DEF TransferSpec

\* DESIGN.md's "a kill -9 loses at most one chunk", for sources of any length, any
\* number of drops and kills and any chunk size: while the source is stable and the
\* disk does not fail, one delivery takes each chunk once and one more for each kill.
THEOREM KillLosesOne == TransferSpec => []KillLosesOneChunk
<1>1. TInv /\ CountInv => KillLosesOneChunk
  <2> SUFFICES ASSUME TInv, CountInv, edits = 0, faults = 0
               PROVE  sent <= ChunkCount(Len(src)) + kills
    BY DEF KillLosesOneChunk
  <2>1. SameManifest /\ Counted
    BY DEF CountInv
  <2>2. ChunkCount(Len(src)) \in Nat
    BY BasicsHold, SourceCount
  <2>3. /\ pc # "save" => sent <= Cardinality(Recorded) + kills
        /\ pc = "save" => sent <= Cardinality(got) + kills
    BY <2>1 DEF Counted
  <2> QED
    BY <2>1, <2>2, <2>3, BasicsHold, CountsMeasured DEF Measured
<1> QED
  BY <1>1, CountInvAlways, TInvAlways, PTL

-----------------------------------------------------------------------------
(***************************************************************************)
(* No refusal without a cause.                                             *)
(***************************************************************************)

\* However often the connection drops and the sender is killed and run again,
\* for sources of any length and chunks of any size: no session of a source that
\* stays as it is and fits in its frames ends in ERROR, unless the server was
\* killed or its I/O failed.  What an interrupted session left behind is always
\* good enough for the next one.
THEOREM NoRefusal == TransferSpec => []NoSpuriousError
<1>1. TInv /\ Stable /\ CountInv /\ (kills = 0 /\ faults = 0 => Kept) /\ ErrorInv
         /\ [TransferNext]_tvars => ErrorInv'
  BY BasicsHold, ErrorInvStep
<1>2. TransferInit => ErrorInv
  BY ErrorInvInit
<1>3. ErrorInv => NoSpuriousError
  BY ErrorInvShows
<1> QED
  BY <1>1, <1>2, <1>3, TInvAlways, StableAlways, CountInvAlways, KeptAlways, PTL
     DEF TransferSpec

=============================================================================
