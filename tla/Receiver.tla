------------------------------ MODULE Receiver ------------------------------
(***************************************************************************)
(* One destination of an ftx server: Server::handle_session_ with the      *)
(* FileSink and the ResumeState it drives, session after session, across   *)
(* kill -9 and I/O failures.  Any frame of PeerFrames may arrive at any    *)
(* point of the session.                                                   *)
(*                                                                         *)
(* The disk (dest, partial, ftxstate) survives a kill; every other         *)
(* variable but the counters is a local of handle_session_ and does not.   *)
(* buf is the put area of the sink's std::ofstream: a write that has not   *)
(* reached the file yet.  seekp, flush, close and the stream's destructor  *)
(* write it out; a kill loses it.                                          *)
(***************************************************************************)
EXTENDS FtxBase

CONSTANTS
    PeerFrames,   \* frames a peer may send
    WriteModes,   \* {"buffered"}, {"direct"} or both: see WriteChunk
    MaxKills,     \* bound on kill -9 of the server
    MaxFaults,    \* bound on failing I/O operations
    MaxChunks     \* bound on CHUNK frames accepted in one session

Sidecars == [id : [digest : Manifests], count : Nat, got : SUBSET Nat]

ASSUME ReceiverAssumption ==
    /\ PeerFrames \subseteq ClientFrames
    /\ WriteModes \subseteq {"buffered", "direct"}
    /\ MaxKills \in Nat /\ MaxFaults \in Nat /\ MaxChunks \in Nat
    /\ None \notin Sidecars

VARIABLES
    dest,      \* the file at dest, or None
    partial,   \* the file at dest.partial, or None
    ftxstate,  \* the sidecar dest.ftxstate, or None
    pc,        \* where handle_session_ is; "idle" in accept, "down" when killed
    man,       \* manifest
    got,       \* state: the chunk indices whose bit is set
    resume,    \* resume_active
    inorder,   \* all_in_order
    hasher,    \* inorder_root_hasher: the bytes it was fed
    next,      \* next_expected
    bytes,     \* bytes_received
    chunks,    \* chunks_received
    final,     \* client_final_root_hash
    buf,       \* <<>>, or the one pending write of the sink's stream
    s2c,       \* the frames sent to the peer in this session
    kills, faults

disk     == <<dest, partial, ftxstate>>
progress == <<got, inorder, hasher, next, bytes, chunks>>
session  == <<man, resume, progress, final, buf>>
counters == <<kills, faults>>
vars     == <<disk, pc, session, s2c, counters>>

Pending == [at : Nat, data : Files]

TypeOK ==
    /\ dest \in Files \cup {None}
    /\ partial \in Files \cup {None}
    /\ ftxstate \in Sidecars \cup {None}
    /\ pc \in {"idle", "down", "hello", "manifest", "load", "open", "chunks",
               "save", "verify", "finalize", "rename2", "cleanup", "ack"}
    /\ man \in Manifests \cup {None}
    /\ got \in SUBSET Nat
    /\ resume \in BOOLEAN
    /\ inorder \in BOOLEAN
    /\ hasher \in Files
    /\ next \in Nat /\ bytes \in Nat /\ chunks \in Nat
    /\ final \in Digests \cup {None}
    /\ buf \in Seq(Pending) /\ Len(buf) <= 1
    /\ s2c \in Seq(ServerFrames)
    /\ kills \in Nat /\ faults \in Nat

-----------------------------------------------------------------------------
(***************************************************************************)
(* FileSink: what a positioned write does to a file.  Writing past the end *)
(* leaves a hole of zeros, which is how open() pre-sizes .partial.         *)
(***************************************************************************)
WriteAt(file, at, data) ==
    [j \in 1 .. (IF data = <<>> \/ at + Len(data) <= Len(file) THEN Len(file)
                 ELSE at + Len(data)) |->
        IF j \in at + 1 .. at + Len(data) THEN data[j - at]
        ELSE IF j <= Len(file) THEN file[j] ELSE Zero]

\* A write(2) that is interrupted after k bytes.
Cut(data, k) == SubSeq(data, 1, k)

Flushed(file, b) == IF b = <<>> THEN file ELSE WriteAt(file, b[1].at, b[1].data)

\* Faulty variants of Presize: no test for an empty file, and a file one byte
\* too long.
PresizeUnguarded(total) == <<[at |-> total - 1, data |-> <<Zero>>]>>

PresizeLong(total) ==
    IF total > 0 THEN <<[at |-> total, data |-> <<Zero>>]>> ELSE <<>>

\* The single byte that open() writes at total_size - 1.
Presize(total) ==
    IF total > 0 THEN <<[at |-> total - 1, data |-> <<Zero>>]>> ELSE <<>>

\* What .partial holds once the stream is flushed ...
View == Flushed(partial, buf)

\* ... and what it may hold when the flush fails or is interrupted.
PartlyFlushed ==
    IF buf = <<>> THEN {partial}
    ELSE {WriteAt(partial, buf[1].at, Cut(buf[1].data, k)) : k \in 0 .. Len(buf[1].data)}

(***************************************************************************)
(* Returning from handle_session_: ~FileSink closes the stream, which      *)
(* flushes it, then ~Connection closes the socket.  file is what .partial  *)
(* is left as; reply is the ERROR or ACK sent last, if any.                *)
(***************************************************************************)
ResetSession ==
    /\ man' = None /\ got' = {} /\ resume' = FALSE /\ inorder' = FALSE
    /\ hasher' = <<>> /\ next' = 0 /\ bytes' = 0 /\ chunks' = 0
    /\ final' = None /\ buf' = <<>>

Return(file, reply) ==
    /\ pc' = "idle"
    /\ partial' = file
    /\ s2c' = s2c \o reply
    /\ ResetSession
    /\ UNCHANGED <<dest, ftxstate>>

ErrorFrame(code) == Frame("ERROR", [code |-> code])

Fault == faults < MaxFaults /\ faults' = faults + 1 /\ UNCHANGED kills

\* "drop" is a return without an ERROR frame, any other verdict its code.
\* Nobody notices when the flush of the destructor fails.
Refuse(verdict) ==
    \E file \in PartlyFlushed :
        /\ Return(file, IF verdict = "drop" THEN <<>> ELSE <<ErrorFrame(verdict)>>)
        /\ IF file = View THEN UNCHANGED counters ELSE Fault

InternalError == <<ErrorFrame("InternalError")>>

-----------------------------------------------------------------------------
(***************************************************************************)
(* Accepting a connection, HELLO and MANIFEST.                             *)
(***************************************************************************)
Accept ==
    /\ pc = "idle"
    /\ pc' = "hello"
    /\ s2c' = <<>>
    /\ UNCHANGED <<disk, session, counters>>

HelloVerdict(f) ==
    IF ~IsFrame(f, "HELLO") THEN "drop"
    ELSE IF f.body = Malformed THEN "ProtocolViolation"
    ELSE IF f.body.version # kProtocolVersion THEN "UnsupportedVersion"
    ELSE "ok"

\* Also the step of a server whose own HELLO cannot be sent (f = None).
RefuseHello(f) ==
    /\ pc = "hello"
    /\ HelloVerdict(f) # "ok"
    /\ Refuse(HelloVerdict(f))

AnswerHello(f) ==
    /\ pc = "hello"
    /\ HelloVerdict(f) = "ok"
    /\ pc' = "manifest"
    /\ s2c' = Append(s2c, Frame("HELLO", [version |-> kProtocolVersion]))
    /\ UNCHANGED <<disk, session, counters>>

ManifestVerdict(f) ==
    IF ~IsFrame(f, "MANIFEST") THEN "drop"
    ELSE IF f.body = Malformed THEN "ProtocolViolation"
    ELSE IF f.body.path # DestPath THEN "InvalidPath"
    ELSE "ok"

RefuseManifest(f) ==
    /\ pc = "manifest"
    /\ ManifestVerdict(f) # "ok"
    /\ Refuse(ManifestVerdict(f))

TakeManifest(f) ==
    /\ pc = "manifest"
    /\ ManifestVerdict(f) = "ok"
    /\ pc' = "load"
    /\ man' = f.body
    /\ UNCHANGED <<disk, resume, progress, final, buf, s2c, counters>>

-----------------------------------------------------------------------------
(***************************************************************************)
(* Resume support: ResumeState::load and the reconciliation with the       *)
(* manifest, then FileSink::open and REQ_CHUNKS.  Two steps, because each  *)
(* changes the disk.                                                       *)
(***************************************************************************)
\* Faulty variant of Resumable: the manifest's identity is not compared.
ResumableByCount(sidecar, m) == sidecar # None /\ sidecar.count = m.chunk_count

Resumable(sidecar, m) ==
    /\ sidecar # None
    /\ sidecar.id = blake3(m)
    /\ sidecar.count = m.chunk_count

\* Faulty variant of LoadResume: the loaded bitmap is not taken over.
LoadResumeForgets ==
    /\ pc = "load"
    /\ Resumable(ftxstate, man)
    /\ pc' = "open"
    /\ resume' = TRUE
    /\ UNCHANGED <<disk, man, progress, final, buf, s2c, counters>>

LoadResume ==
    /\ pc = "load"
    /\ Resumable(ftxstate, man)
    /\ pc' = "open"
    /\ got' = ftxstate.got
    /\ resume' = TRUE
    /\ UNCHANGED <<disk, man, inorder, hasher, next, bytes, chunks, final, buf,
                   s2c, counters>>

\* Faulty variant of LoadFresh: the stale sidecar is left in place.
LoadFreshKeeps ==
    /\ pc = "load"
    /\ ~Resumable(ftxstate, man)
    /\ pc' = "open"
    /\ UNCHANGED <<disk, session, s2c, counters>>

\* ResumeState::remove is best effort; got is {} already.
LoadFresh ==
    /\ pc = "load"
    /\ ~Resumable(ftxstate, man)
    /\ pc' = "open"
    /\ \/ ftxstate' = None /\ UNCHANGED counters
       \/ ftxstate # None /\ Fault /\ UNCHANGED ftxstate
    /\ UNCHANGED <<dest, partial, session, s2c>>

\* open() keeps the .partial of a resumed transfer unless it is too short ...
Reusable == resume /\ partial # None /\ Len(partial) >= man.file_size

\* ... and otherwise truncates and pre-sizes it, whatever got says.
Opened(reuse) ==
    IF reuse THEN [file |-> partial, buf |-> <<>>]
    ELSE [file |-> <<>>, buf |-> Presize(man.file_size)]

\* Faulty variant of Missing: the loop runs to chunk_count inclusive.
MissingPastEnd == {i \in 0 .. man.chunk_count : i \notin got}

\* ResumeState::missing(), whose indices ascend: as a set.
Missing == {i \in 0 .. man.chunk_count - 1 : i \notin got}

\* reuse is FALSE with Reusable when the in/out open fails: "fall through".
OpenSink(reuse) ==
    /\ pc = "open"
    /\ \/ reuse = Reusable /\ UNCHANGED counters
       \/ Reusable /\ ~reuse /\ Fault
    /\ pc' = "chunks"
    /\ partial' = Opened(reuse).file
    /\ buf' = Opened(reuse).buf
    /\ inorder' = ~resume
    /\ s2c' = Append(s2c, Frame("REQ_CHUNKS", [indices |-> Missing]))
    /\ UNCHANGED <<dest, ftxstate, man, got, resume, hasher, next, bytes, chunks,
                   final>>

\* The sink opens but REQ_CHUNKS cannot be sent.
OpenUnsent ==
    /\ pc = "open"
    /\ Return(Flushed(Opened(Reusable).file, Opened(Reusable).buf), <<>>)
    /\ UNCHANGED counters

\* The open fails, or the pre-sizing after the truncation does.
OpenFails ==
    /\ pc = "open"
    /\ Fault
    /\ \E file \in {partial, <<>>} : Return(file, InternalError)

-----------------------------------------------------------------------------
(***************************************************************************)
(* The CHUNK loop.  ChunkVerdict is the sequence of checks of one turn.    *)
(***************************************************************************)
Offset(index) == index * man.chunk_size

ChunkVerdict(f) ==
    IF f = None THEN "drop"
    ELSE IF f.type \notin {"CHUNK", "COMPLETE"} \/ f.body = Malformed
         THEN "ProtocolViolation"
    ELSE IF f.type = "COMPLETE" THEN "complete"
    ELSE IF f.body.index >= man.chunk_count THEN "ProtocolViolation"
    ELSE IF blake3(f.body.data) # f.body.hash THEN "HashMismatch"
    ELSE IF man.chunk_hashes[f.body.index + 1] # f.body.hash THEN "HashMismatch"
    ELSE IF Offset(f.body.index) + Len(f.body.data) > man.file_size THEN "InternalError"
    ELSE "chunk"

RefuseChunk(f) ==
    /\ pc = "chunks"
    /\ ChunkVerdict(f) \notin {"chunk", "complete"}
    /\ Refuse(ChunkVerdict(f))

TakeComplete(f) ==
    /\ pc = "chunks"
    /\ ChunkVerdict(f) = "complete"
    /\ pc' = "verify"
    /\ final' = f.body.final_root_hash
    /\ UNCHANGED <<disk, man, resume, progress, buf, s2c, counters>>

\* The in-order root hasher, then write_at, mark_received and the counters
\* (locals all, so their order within the turn shows nowhere).  seekp flushes
\* the previous write; the new one stays in the stream's buffer when the chunk
\* is smaller than that buffer, and goes to the file otherwise.
WriteChunk(f, mode) ==
    LET c       == f.body
        ordered == inorder /\ c.index = next
        file    == View
    IN
    /\ pc = "chunks"
    /\ ChunkVerdict(f) = "chunk"
    /\ chunks < MaxChunks
    /\ pc' = "save"
    /\ inorder' = ordered
    /\ hasher' = IF ordered THEN Update(hasher, c.data) ELSE hasher
    /\ next' = IF ordered THEN next + 1 ELSE next
    /\ partial' = IF mode = "direct" THEN WriteAt(file, Offset(c.index), c.data) ELSE file
    /\ buf' = IF mode = "buffered" /\ c.data # <<>>
              THEN <<[at |-> Offset(c.index), data |-> c.data]>> ELSE <<>>
    /\ got' = got \cup {c.index}
    /\ bytes' = bytes + Len(c.data)
    /\ chunks' = chunks + 1
    /\ UNCHANGED <<dest, ftxstate, man, resume, final, s2c, counters>>

\* .partial when write_at stops part of the way.
PartlyWritten(c) ==
    {WriteAt(View, Offset(c.index), Cut(c.data, k)) : k \in 0 .. Len(c.data)}

\* seekp fails to flush the previous chunk, or the write fails.
WriteFails(f) ==
    /\ pc = "chunks"
    /\ ChunkVerdict(f) = "chunk"
    /\ Fault
    /\ \E file \in PartlyFlushed \cup PartlyWritten(f.body) : Return(file, InternalError)

\* Faulty variant of SaveState: the sidecar is written with the last chunk only.
SaveStateBatched ==
    /\ pc = "save"
    /\ pc' = "chunks"
    /\ ftxstate' = IF Missing = {}
                   THEN [id |-> blake3(man), count |-> man.chunk_count, got |-> got]
                   ELSE ftxstate
    /\ UNCHANGED <<dest, partial, session, s2c, counters>>

\* ResumeState::save: a temporary file renamed over the sidecar.  Its result
\* is ignored; when it fails the old sidecar stays, or is lost between the
\* remove and the second rename.
SaveState ==
    /\ pc = "save"
    /\ pc' = "chunks"
    /\ \/ /\ ftxstate' = [id |-> blake3(man), count |-> man.chunk_count, got |-> got]
          /\ UNCHANGED counters
       \/ Fault /\ ftxstate' \in {ftxstate, None}
    /\ UNCHANGED <<dest, partial, session, s2c>>

-----------------------------------------------------------------------------
(***************************************************************************)
(* After COMPLETE: the inventory, the root hash, then finalize(), removal  *)
(* of the sidecar and ACK.                                                 *)
(***************************************************************************)
\* Faulty variants of Inventory: bytes_received is not compared, and a resumed
\* session is held to the counts of a fresh one.
InventoryByCount ==
    IF resume THEN Missing = {} ELSE chunks = man.chunk_count

InventoryAsFresh == bytes = man.file_size /\ chunks = man.chunk_count

Inventory ==
    IF resume THEN Missing = {}
    ELSE bytes = man.file_size /\ chunks = man.chunk_count

\* In order: the running hash.  Otherwise .partial is flushed and read back.
ActualRoot == IF inorder THEN blake3(hasher) ELSE blake3(View)

VerifyVerdict ==
    IF ~Inventory THEN "ProtocolViolation"
    ELSE IF ActualRoot # man.root_hash \/ ActualRoot # final THEN "HashMismatch"
    ELSE "ok"

RefuseTransfer ==
    /\ pc = "verify"
    /\ VerifyVerdict # "ok"
    /\ Refuse(VerifyVerdict)

PassTransfer ==
    /\ pc = "verify"
    /\ VerifyVerdict = "ok"
    /\ pc' = "finalize"
    /\ partial' = IF inorder THEN partial ELSE View
    /\ buf' = IF inorder THEN buf ELSE <<>>
    /\ UNCHANGED <<dest, ftxstate, man, resume, progress, final, s2c, counters>>

\* A flush that fails, before the read back or before finalize(), or a .partial
\* that cannot be reopened.
FlushFails ==
    /\ \/ pc = "finalize"
       \/ pc = "verify" /\ Inventory /\ ~inorder
    /\ Fault
    /\ \E file \in PartlyFlushed : Return(file, InternalError)

Finalize ==
    /\ pc = "finalize"
    /\ pc' = "cleanup"
    /\ dest' = View
    /\ partial' = None
    /\ buf' = <<>>
    /\ UNCHANGED <<ftxstate, man, resume, progress, final, s2c, counters>>

\* rename() is refused; finalize() removes the destination and will retry.
FinalizeRemoves ==
    /\ pc = "finalize"
    /\ Fault
    /\ pc' = "rename2"
    /\ dest' \in {None, dest}
    /\ partial' = View
    /\ buf' = <<>>
    /\ UNCHANGED <<ftxstate, man, resume, progress, final, s2c>>

RenameAgain ==
    /\ pc = "rename2"
    /\ pc' = "cleanup"
    /\ dest' = partial
    /\ partial' = None
    /\ UNCHANGED <<ftxstate, session, s2c, counters>>

\* What refused the first rename, or the removal, refuses the second.
RenameFails ==
    /\ pc = "rename2"
    /\ Return(partial, InternalError)
    /\ UNCHANGED counters

\* Faulty variant of Cleanup: the sidecar outlives the transfer.
CleanupSkipped ==
    /\ pc = "cleanup"
    /\ pc' = "ack"
    /\ UNCHANGED <<disk, session, s2c, counters>>

\* ResumeState::remove, best effort.
Cleanup ==
    /\ pc = "cleanup"
    /\ pc' = "ack"
    /\ \/ ftxstate' = None /\ UNCHANGED counters
       \/ ftxstate # None /\ Fault /\ UNCHANGED ftxstate
    /\ UNCHANGED <<dest, partial, session, s2c>>

LastIndex == IF man.chunk_count = 0 THEN 0 ELSE man.chunk_count - 1

SendAck ==
    /\ pc = "ack"
    /\ Return(partial, <<Frame("ACK", [last_index |-> LastIndex])>>)
    /\ UNCHANGED counters

AckUnsent ==
    /\ pc = "ack"
    /\ Return(partial, <<>>)
    /\ UNCHANGED counters

-----------------------------------------------------------------------------
(***************************************************************************)
(* kill -9 at any step, inside write(2) too, and the restart.  The page    *)
(* cache survives: what the process had written is on disk.                *)
(***************************************************************************)
Die(file) ==
    /\ kills < MaxKills
    /\ kills' = kills + 1
    /\ pc' = "down"
    /\ partial' = file
    /\ ResetSession
    /\ UNCHANGED <<dest, ftxstate, s2c, faults>>

\* The stream is flushed in the CHUNK loop, for the read back and by finalize().
Kill ==
    /\ pc # "down"
    /\ \E file \in IF pc \in {"chunks", "verify", "finalize"} THEN PartlyFlushed
                   ELSE {partial} : Die(file)

\* In the write(2) of a chunk that bypasses the buffer.
KillInWrite(f) ==
    /\ "direct" \in WriteModes
    /\ pc = "chunks"
    /\ ChunkVerdict(f) = "chunk"
    /\ \E file \in PartlyWritten(f.body) : Die(file)

Restart ==
    /\ pc = "down"
    /\ pc' = "idle"
    /\ UNCHANGED <<disk, session, s2c, counters>>

-----------------------------------------------------------------------------
Init ==
    /\ dest = None /\ partial = None /\ ftxstate = None
    /\ pc = "idle"
    /\ man = None /\ got = {} /\ resume = FALSE /\ inorder = FALSE
    /\ hasher = <<>> /\ next = 0 /\ bytes = 0 /\ chunks = 0
    /\ final = None /\ buf = <<>>
    /\ s2c = <<>>
    /\ kills = 0 /\ faults = 0

\* One recv_frame and what it leads to; None is a failed recv_frame.
Receive(f) ==
    \/ RefuseHello(f)
    \/ AnswerHello(f)
    \/ RefuseManifest(f)
    \/ TakeManifest(f)
    \/ RefuseChunk(f)
    \/ TakeComplete(f)
    \/ \E mode \in WriteModes : WriteChunk(f, mode)
    \/ WriteFails(f)

\* Steps between two receives.
Work ==
    \/ LoadResume
    \/ LoadFresh
    \/ \E reuse \in BOOLEAN : OpenSink(reuse)
    \/ OpenFails
    \/ SaveState
    \/ RefuseTransfer
    \/ PassTransfer
    \/ FlushFails
    \/ Finalize
    \/ FinalizeRemoves
    \/ RenameAgain
    \/ RenameFails
    \/ Cleanup
    \/ SendAck

SendFails == OpenUnsent \/ AckUnsent

Next ==
    \/ Accept
    \/ \E f \in PeerFrames \cup {None} : Receive(f) \/ KillInWrite(f)
    \/ Work
    \/ SendFails
    \/ Kill
    \/ Restart

Spec == Init /\ [][Next]_vars

-----------------------------------------------------------------------------
(***************************************************************************)
(* Properties.                                                             *)
(***************************************************************************)

\* The content that manifest m declares for chunk i, and whether file holds it.
Declared(m, i) == m.chunk_hashes[i + 1].digest

OnDisk(m, i, file) ==
    \A k \in 1 .. Len(Declared(m, i)) :
        /\ i * m.chunk_size + k <= Len(file)
        /\ file[i * m.chunk_size + k] = Declared(m, i)[k]

\* No chunk that m declares is longer than chunk_size, so that none is written
\* over the next one.  Client::send makes only such manifests.  handle_session_
\* compares neither the manifest nor a chunk with chunk_size, and write_at leaves
\* overlaps to its caller: the properties below say where they depend on it.
ChunksFit(m) == \A i \in 0 .. m.chunk_count - 1 : Len(Declared(m, i)) <= m.chunk_size

\* The root hash that was compared is that of .partial: it was read back, or it
\* is enough to have hashed the chunks as they came.
Vouched == inorder => ChunksFit(man)

\* The destination only ever becomes a file whose BLAKE3 is the root hash of the
\* manifest, which is the one COMPLETE carried, across kills and failing I/O.
\* Where .partial is read back, because the session resumed or chunks came out of
\* order, this is so whatever the manifest declares and whatever chunks came; on
\* the in-order path it is so if the declared chunks fit.
Integrity ==
    [][dest' \notin {dest, None} =>
          (Vouched => blake3(dest') = man.root_hash) /\ man.root_hash = final]_vars

\* While chunks that fit arrive in order, the bytes fed to the running root hash
\* never reach beyond the chunks seen or the declared size; as soon as they reach
\* either, they are the bytes of .partial.  The byte count at COMPLETE then makes
\* the running hash stand for the file, without reading it back, even if some
\* chunks were shorter than chunk_size.
HashedIsWritten ==
    pc \in {"chunks", "save", "verify"} /\ inorder =>
        /\ ~resume
        /\ Len(View) = man.file_size
        /\ bytes = Len(hasher)
        /\ ChunksFit(man) =>
            /\ Len(hasher) <= Offset(next) /\ Len(hasher) <= man.file_size
            /\ Len(hasher) \in {Offset(next), man.file_size} =>
                   \A j \in 1 .. Len(hasher) : View[j] = hasher[j]

\* An ACK is sent only while the destination holds the acknowledged content,
\* with .partial gone, and the sidecar too unless its removal failed.  The
\* content is the acknowledged one whenever .partial was read back, and otherwise
\* if the declared chunks fit.
AckMeansDelivered ==
    [][Len(s2c') > Len(s2c) /\ s2c'[Len(s2c')].type = "ACK" =>
          /\ dest # None
          /\ Vouched => blake3(dest) = man.root_hash
          /\ partial = None
          /\ faults = 0 => ftxstate = None]_vars

\* Without a kill or a failed operation, every chunk the sidecar records is in
\* .partial or in the sink's buffer, until finalize() moves .partial away:
\* what a resumed session does not ask for, it has, if the chunks fit.
RecordedIsHeld ==
    kills = 0 /\ faults = 0 /\ ftxstate # None /\ pc # "cleanup" =>
        /\ partial # None
        /\ ChunksFit(ftxstate.id.digest) =>
               \A i \in ftxstate.got : OnDisk(ftxstate.id.digest, i, View)

\* A sidecar never lies beside content of another manifest: stale state is
\* removed before the first chunk of a new transfer is written, so that a kill at
\* any point leaves bits that are about the .partial beside them.
SidecarOwnsPartial ==
    faults = 0 /\ ftxstate # None /\ partial # None =>
        LET m == ftxstate.id.digest IN
        \A j \in 1 .. Len(partial) :
            \/ partial[j] = Zero
            \/ \E i \in 0 .. m.chunk_count - 1 :
                  /\ j - i * m.chunk_size \in 1 .. Len(Declared(m, i))
                  /\ partial[j] = Declared(m, i)[j - i * m.chunk_size]

\* Recorded progress is given up only for another manifest, or once delivered:
\* no kill, lost connection or refused frame makes the sidecar forget a chunk.
NoLostGround ==
    [][faults' = 0 /\ ftxstate # None /\ ftxstate' # ftxstate =>
          \/ pc = "cleanup"
          \/ pc = "load" /\ ~Resumable(ftxstate, man)
          \/ /\ ftxstate' # None
             /\ ftxstate'.id = ftxstate.id
             /\ ftxstate.got \subseteq ftxstate'.got]_vars

\* DESIGN.md, on a sender that lies in its manifest: "root recomputed from disk".
\* Whatever the manifest declares, the file that is put in place should have the
\* root hash.  On the in-order path handle_session_ compares the running hash of the
\* bytes received instead, and a chunk longer than chunk_size is partly written
\* over by the next one.
RootIsOfFile == [][dest' \notin {dest, None} => blake3(dest') = man.root_hash]_vars

\* resume_state.hpp: "bit n indicates chunk n is on disk".  After a kill, when
\* the bits are all the next session goes by, every recorded chunk should read
\* back from .partial.  handle_session_ saves the sidecar without flushing the
\* sink, so the chunk just recorded can be lost with the stream's buffer.
BitMeansOnDisk ==
    pc = "down" /\ ftxstate # None /\ partial # None =>
        \A i \in ftxstate.got : OnDisk(ftxstate.id.digest, i, partial)

=============================================================================
