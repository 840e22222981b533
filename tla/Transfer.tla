------------------------------ MODULE Transfer ------------------------------
(***************************************************************************)
(* Client::send against the Receiver, over one TCP connection at a time.   *)
(*                                                                         *)
(* The sender hashes its source chunk by chunk, sends MANIFEST, then reads *)
(* each requested chunk again; the source may be edited in between.        *)
(* c2s holds the frames in flight to the server; s2c, the log of what the  *)
(* server sent in this session, is read by the client through rd.  A       *)
(* connection may drop, the sender may be killed, and the operator runs    *)
(* the sender again.                                                       *)
(*                                                                         *)
(* Sessions are serial (run_one, or an operator who retries only once the  *)
(* server has noticed that the old connection is gone).                    *)
(***************************************************************************)
EXTENDS Receiver, Concatenation, FiniteSetsExt

CONSTANTS
    Sources,    \* contents the source file may have
    ChunkSize,  \* Options::chunk_size
    U32,        \* 2^32: chunk_count is a uint32_t
    MaxData,    \* the longest data that fits in the payload of a CHUNK ...
    MaxHashes,  \* ... and the most hashes that fit in that of a MANIFEST
    Window,     \* frames that fit in the socket buffers
    MaxDrops,   \* bound on lost connections and killed senders
    MaxEdits    \* bound on edits of the source

VARIABLES
    src,     \* the source file
    cpc,     \* where Client::send is; "off", "ok" or "failed" outside it
    size,    \* file_size
    hashed,  \* what the hash pass has read and fed to root_hasher, chunk by chunk
    todo,    \* the requested indices still to send, ascending
    rd,      \* frames of s2c consumed
    c2s,     \* frames in flight to the server
    link,    \* "up" or "broken"
    drops, edits,
    sent     \* history: CHUNK frames accepted since the last delivery

client == <<cpc, size, hashed, todo, rd>>
wire   == <<c2s, link>>
bounds == <<src, drops, edits>>
tvars  == <<vars, client, wire, bounds, sent>>

ClientGone == cpc \in {"off", "ok", "failed"}
Ended      == pc \in {"idle", "down"}

-----------------------------------------------------------------------------
(***************************************************************************)
(* What the client sends.                                                  *)
(***************************************************************************)
Hello == Frame("HELLO", [version |-> kProtocolVersion])

ChunkCount(n) == ((n + ChunkSize - 1) \div ChunkSize) % U32

\* FileSource::read_at on content s of a file that had n bytes when it was
\* opened: chunk i, cut off at the old end of file or at the present one.
ReadAt(s, n, i) ==
    SubSeq(s, i * ChunkSize + 1, Min({(i + 1) * ChunkSize, n, Len(s)}))

ManifestOf(n, data) ==
    Frame("MANIFEST",
          [path |-> DestPath, file_size |-> n, chunk_size |-> ChunkSize,
           chunk_count |-> Len(data), root_hash |-> blake3(Concat(data)),
           chunk_hashes |-> [j \in 1 .. Len(data) |-> blake3(data[j])]])

ChunkOf(i, declared, data) ==
    Frame("CHUNK", [index |-> i, hash |-> blake3(declared), data |-> data])

CompleteOf(data) ==
    Frame("COMPLETE", [final_root_hash |-> blake3(Concat(data))])

\* What the hash pass over a file of n bytes can read when the source changes
\* between any two of its reads.
Passes(n) ==
    {[j \in 1 .. ChunkCount(n) |-> ReadAt(s[j], n, j - 1)] :
        s \in [1 .. ChunkCount(n) -> Sources]}

Sizes == {Len(s) : s \in Sources}

\* Every frame the sender can produce.
HonestFrames ==
    {Hello} \cup
    UNION {{ManifestOf(n, d) : d \in Passes(n)} \cup {CompleteOf(d) : d \in Passes(n)}
           \cup {ChunkOf(i, ReadAt(s, n, i), ReadAt(t, n, i)) :
                    i \in 0 .. ChunkCount(n) - 1, s \in Sources, t \in Sources} :
           n \in Sizes}

ASSUME TransferAssumption ==
    /\ ChunkSize \in Nat \ {0} /\ Window \in Nat \ {0}
    /\ U32 \in Nat \ {0} /\ MaxData \in Nat /\ MaxHashes \in Nat
    /\ MaxDrops \in Nat /\ MaxEdits \in Nat
    /\ Sources \subseteq Files
    /\ HonestFrames \subseteq PeerFrames

TransferTypeOK ==
    /\ src \in Sources
    /\ cpc \in {"off", "hello", "hash", "req", "send", "ack", "ok", "failed"}
    /\ size \in Sizes \cup {0}
    /\ Len(hashed) <= ChunkCount(size)
    /\ \A j \in 1 .. Len(hashed) : hashed[j] \in {ReadAt(s, size, j - 1) : s \in Sources}
    /\ todo \subseteq 0 .. ChunkCount(size) - 1
    /\ rd \in 0 .. Len(s2c)
    /\ c2s \in Seq(HonestFrames) /\ Len(c2s) <= Window
    /\ link \in {"up", "broken"}
    /\ drops \in 0 .. MaxDrops /\ edits \in 0 .. MaxEdits
    /\ sent \in Nat

-----------------------------------------------------------------------------
(***************************************************************************)
(* Client::send.                                                           *)
(***************************************************************************)

\* Every return: ~Connection closes the socket, what is in flight still arrives.
ClientReturn(result) ==
    /\ cpc' = result
    /\ size' = 0 /\ hashed' = <<>> /\ todo' = {} /\ rd' = 0

\* Faulty variant of Connect: the server starts over on the state of a session
\* that still runs.
ConnectBusy ==
    /\ ClientGone
    /\ pc # "down"
    /\ pc' = "hello"
    /\ s2c' = <<>>
    /\ cpc' = "hello"
    /\ size' = Len(src)
    /\ c2s' = <<Hello>>
    /\ link' = "up"
    /\ UNCHANGED <<disk, session, counters, hashed, todo, rd, bounds, sent>>

\* FileSource::open (the size is fixed here), connect, HELLO.
Connect ==
    /\ ClientGone
    /\ Accept
    /\ cpc' = "hello"
    /\ size' = Len(src)
    /\ c2s' = <<Hello>>
    /\ link' = "up"
    /\ UNCHANGED <<hashed, todo, rd, bounds, sent>>

ConnectRefused ==
    /\ ClientGone
    /\ pc = "down"
    /\ ClientReturn("failed")
    /\ UNCHANGED <<vars, wire, bounds, sent>>

\* recv_frame when a frame has arrived.
Arrived == rd < Len(s2c)
Incoming == s2c[rd + 1]

RecvHello ==
    /\ cpc = "hello"
    /\ Arrived
    /\ IF Incoming.type = "HELLO" /\ Incoming.body.version = kProtocolVersion
       THEN cpc' = "hash" /\ rd' = rd + 1 /\ UNCHANGED <<size, hashed, todo>>
       ELSE ClientReturn("failed")
    /\ UNCHANGED <<vars, wire, bounds, sent>>

HashChunk ==
    /\ cpc = "hash"
    /\ Len(hashed) < ChunkCount(size)
    /\ hashed' = Append(hashed, ReadAt(src, size, Len(hashed)))
    /\ UNCHANGED <<cpc, size, todo, rd, vars, wire, bounds, sent>>

\* The next frame is larger than send_frame allows.
Oversized ==
    \/ cpc = "hash" /\ Len(hashed) = ChunkCount(size) /\ Len(hashed) > MaxHashes
    \/ cpc = "send" /\ todo # {} /\ Len(ReadAt(src, size, Min(todo))) > MaxData

\* send_frame blocks while the socket buffers are full.
Send(f) ==
    /\ ~Oversized
    /\ Len(c2s) < Window
    /\ c2s' = Append(c2s, f)
    /\ UNCHANGED link

SendManifest ==
    /\ cpc = "hash"
    /\ Len(hashed) = ChunkCount(size)
    /\ Send(ManifestOf(size, hashed))
    /\ cpc' = "req"
    /\ UNCHANGED <<size, hashed, todo, rd, vars, bounds, sent>>

RecvReqChunks ==
    /\ cpc = "req"
    /\ Arrived
    /\ IF Incoming.type = "REQ_CHUNKS"
       THEN /\ cpc' = "send"
            /\ todo' = Incoming.body.indices
            /\ rd' = rd + 1
            /\ UNCHANGED <<size, hashed>>
       ELSE ClientReturn("failed")
    /\ UNCHANGED <<vars, wire, bounds, sent>>

\* The hash is the one of the first pass, the data that of a second read.
\* (TransferTypeOK shows that the check of the index against chunk_count never
\* fires.)
SendChunk(i) ==
    /\ cpc = "send"
    /\ i = Min(todo)
    /\ Send(ChunkOf(i, hashed[i + 1], ReadAt(src, size, i)))
    /\ todo' = todo \ {i}
    /\ UNCHANGED <<cpc, size, hashed, rd, vars, bounds, sent>>

SendComplete ==
    /\ cpc = "send"
    /\ todo = {}
    /\ Send(CompleteOf(hashed))
    /\ cpc' = "ack"
    /\ UNCHANGED <<size, hashed, todo, rd, vars, bounds, sent>>

\* Faulty variant of RecvAck: any answer to COMPLETE is taken for an ACK.
RecvAckAny ==
    /\ cpc = "ack"
    /\ Arrived
    /\ ClientReturn("ok")
    /\ UNCHANGED <<vars, wire, bounds, sent>>

RecvAck ==
    /\ cpc = "ack"
    /\ Arrived
    /\ ClientReturn(IF Incoming.type = "ACK" THEN "ok" ELSE "failed")
    /\ UNCHANGED <<vars, wire, bounds, sent>>

\* A send or a receive fails: the frame is too large, the link broke, or the
\* server closed it and all it sent has been read, or it closed with frames
\* unread and the reset overtook what it sent.
ClientFails ==
    /\ \/ cpc \in {"hello", "req", "send", "ack"}
       \/ cpc = "hash" /\ Len(hashed) = ChunkCount(size)
    /\ \/ Oversized
       \/ link = "broken"
       \/ Ended /\ (~Arrived \/ c2s # <<>>)
    /\ ClientReturn("failed")
    /\ UNCHANGED <<vars, wire, bounds, sent>>

-----------------------------------------------------------------------------
(***************************************************************************)
(* The server's steps, fed by the connection.                              *)
(***************************************************************************)
ServerRecv ==
    /\ link = "up"
    /\ c2s # <<>>
    /\ Receive(Head(c2s))
    /\ c2s' = Tail(c2s)
    /\ sent' = IF chunks' > chunks THEN sent + 1 ELSE sent
    /\ UNCHANGED <<client, link, bounds>>

\* recv_frame returns nullopt; a HELLO that cannot be sent ends the same way.
ServerRecvFails ==
    /\ \/ link = "broken"
       \/ ClientGone /\ c2s = <<>>
    /\ Receive(None)
    /\ UNCHANGED <<client, wire, bounds, sent>>

ServerWork ==
    /\ Work
    /\ sent' = IF pc' = "cleanup" THEN 0 ELSE sent
    /\ UNCHANGED <<client, wire, bounds>>

ServerSendFails ==
    /\ link = "broken" \/ ClientGone
    /\ SendFails
    /\ UNCHANGED <<client, wire, bounds, sent>>

ServerKilled ==
    /\ \/ Kill
       \/ c2s # <<>> /\ KillInWrite(Head(c2s))
    /\ c2s' = <<>>
    /\ link' = "broken"
    /\ UNCHANGED <<client, bounds, sent>>

ServerRestart == Restart /\ UNCHANGED <<client, wire, bounds, sent>>

-----------------------------------------------------------------------------
(***************************************************************************)
(* The environment.                                                        *)
(***************************************************************************)
Dropped == drops < MaxDrops /\ drops' = drops + 1 /\ UNCHANGED <<src, edits>>

LinkDrops ==
    /\ link = "up"
    /\ ~ClientGone \/ ~Ended
    /\ Dropped
    /\ link' = "broken"
    /\ c2s' = <<>>
    /\ UNCHANGED <<client, vars, sent>>

SenderKilled ==
    /\ ~ClientGone
    /\ Dropped
    /\ ClientReturn("failed")
    /\ UNCHANGED <<vars, wire, sent>>

EditSource ==
    /\ edits < MaxEdits
    /\ edits' = edits + 1
    /\ src' \in Sources \ {src}
    /\ UNCHANGED <<client, wire, drops, vars, sent>>

-----------------------------------------------------------------------------
TransferInit ==
    /\ Init
    /\ src \in Sources
    /\ cpc = "off" /\ size = 0 /\ hashed = <<>> /\ todo = {} /\ rd = 0
    /\ c2s = <<>> /\ link = "broken"
    /\ drops = 0 /\ edits = 0 /\ sent = 0

ClientStep ==
    \/ Connect
    \/ ConnectRefused
    \/ RecvHello
    \/ HashChunk
    \/ SendManifest
    \/ RecvReqChunks
    \/ \E i \in todo : SendChunk(i)
    \/ SendComplete
    \/ RecvAck
    \/ ClientFails

ServerStep ==
    \/ ServerRecv
    \/ ServerRecvFails
    \/ ServerWork
    \/ ServerSendFails
    \/ ServerRestart

TransferNext ==
    \/ ClientStep
    \/ ServerStep
    \/ ServerKilled
    \/ LinkDrops
    \/ SenderKilled
    \/ EditSource

TransferSpec == TransferInit /\ [][TransferNext]_tvars

(***************************************************************************)
(* Fairness: a process that can run does, an operator whose transfer       *)
(* failed runs the sender again, a killed server is restarted.  Nothing is *)
(* assumed of drops, kills and edits but that there are finitely many.     *)
(***************************************************************************)
FairTransferSpec ==
    TransferSpec /\ WF_tvars(ClientStep) /\ WF_tvars(ServerStep)

-----------------------------------------------------------------------------
(***************************************************************************)
(* Properties.                                                             *)
(***************************************************************************)

\* Whatever the client, the link and the source do, the server goes through
\* steps of Receiver: what holds there of any peer holds here.
ImplementsReceiver == Spec

\* When Client::send returns true, the destination is byte for byte what the
\* hash pass read, even if the source changed meanwhile and earlier sessions
\* of other contents were interrupted.
SuccessMeansDelivered ==
    [][cpc' = "ok" /\ cpc # "ok" => dest = Concat(hashed)]_tvars

\* ... and it is the whole source, if that never changed, although chunk_count
\* wraps at 2^32: a source with more chunks than that fails, and is never
\* reported as sent with only its first chunks at the destination.
SuccessMeansWhole ==
    [][cpc' = "ok" /\ cpc # "ok" /\ edits = 0 => dest = src]_tvars

\* A content whose MANIFEST and CHUNKs fit in their frames.
Sendable(s) ==
    LET n == (Len(s) + ChunkSize - 1) \div ChunkSize IN
    /\ n <= MaxHashes /\ n < U32
    /\ Min({ChunkSize, Len(s)}) <= MaxData

\* Lost connections and killed senders alone never lead to a refusal: as long
\* as the server is not killed, its I/O succeeds and the source is stable and can
\* be sent at all, no resumed session ends in ERROR.
NoSpuriousError ==
    kills = 0 /\ faults = 0 /\ edits = 0 /\ Sendable(src) =>
        \A j \in 1 .. Len(s2c) : s2c[j].type # "ERROR"

\* DESIGN.md: .ftxstate is "Persisted after every chunk, so a kill -9 loses at
\* most one chunk".  Over all the sessions that one delivery takes, the server
\* accepts each chunk once, and one more for each kill.
KillLosesOneChunk ==
    edits = 0 /\ faults = 0 => sent <= ChunkCount(Len(src)) + kills

\* A failed transfer that is retried eventually succeeds, once connections stop
\* dropping and the source stops changing, if the server is not killed and the
\* limit that send_frame puts on a frame lets the source through at all.
RetryDelivers ==
    cpc = "failed" /\ Sendable(src) /\ kills = 0
        ~> cpc = "ok" \/ ~Sendable(src) \/ kills > 0

\* DESIGN.md: "Resumable on connection drop, sender restart, or receiver
\* restart".  The same, however often the server was killed and restarted.
RestartDelivers == cpc = "failed" /\ Sendable(src) ~> cpc = "ok" \/ ~Sendable(src)

=============================================================================
