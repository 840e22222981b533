# A TLA+ model of ftx

ftx sends one file at a time over TCP: a sender (`Client::send`) offers a
manifest of chunk hashes, a receiver (`Server::handle_session_`) asks for the
chunks it lacks, writes them to `dest.partial`, records them in
`dest.ftxstate`, checks the root hash, renames and acknowledges. A transfer that
is interrupted is resumed by running the sender again. These modules model that
protocol, the receiver's disk, the threads of the server, the connection down to
bytes, the codecs, the checksum and the path jail; TLC checks them on small
instances, and TLAPS proves the main safety results of the receiver, of the whole
transfer, of the resume state, of the frame decoder and of concurrent sessions for
all instances.

Paths below are relative to the repository root, which is `src/` in
`PROJECT.json`; `server.cpp` and the like are under `src/lib/`.

## Inventory

| part | state | operations | model |
|---|---|---|---|
| `Server::handle_session_` | locals of one session | HELLO, MANIFEST, load, open, CHUNK loop, inventory, root hash, finalize, ACK, every error return | `Receiver` |
| `Server::run`, `run_one`, `stop` | acceptor, detached threads | accept, a thread per connection | `run_one` is `Accept` in `Receiver`; `run` is `Sessions` |
| `is_path_safe`, `resolve_dest_` | none | path jail | `ResolveDest`; `Receiver` uses the verdict |
| `FileSink` | `.partial`, stream buffer | `open`, `write_at`, `flush`, `finalize`, `close` | in `Receiver`; by inode in `Sessions` |
| `ResumeState` | bitmap, `.ftxstate` | constructor, `load`, `save`, `remove`, `mark_received`, `missing` | `ResumeState`, which implements `ResumeStore`; a set in `Receiver` |
| `FileSource` | source file, size at open | `open`, `read_at` | in `Transfer` |
| `Client::send` | locals of one run | hello, hash pass, manifest, chunks, complete, ack | `Transfer` |
| `Connection` | socket, TLS stream | `send_frame`, `recv_frame`, handshake, `close` | `Connection`; an ordered channel in `Transfer` |
| `FrameDecoder` | buffer, state, pending header | `feed`, `take_frame` | `FrameDecoder`, which implements `FrameStream` |
| frame header, `encode_frame` | none | `encode_to`, `decode_from` | `FrameHeader`; bit by bit in `Crc32c` |
| message codecs | none | `encode_*`, `decode_*` | `Messages`; records in `FtxBase` |
| BLAKE3 | running hash | `update`, `finalize` | free constructor in `FtxBase` |
| CRC-32C | table | `crc32c` | `Crc32c` |
| command line | options | path of the manifest | in `ResolveDest`; the rest not modelled |
| TLS contexts, version | configuration | | not modelled |

How the parts interact: client and server exchange frames over one connection;
the only state shared between sessions, and between the lives of the server
process, is the disk: `dest`, `dest.partial`, `dest.ftxstate` (and, for the
length of a save, `dest.ftxstate.tmp`). The models divide the system along these
two interfaces. `Receiver` and `Transfer` take frames and the disk operations
of the sidecar as units; `Connection`, `FrameDecoder`, `Messages` and `Crc32c`
justify the first, `ResumeState` the second, and `Sessions` drops the assumption
that there is one session at a time.

What makes the system hard: the files are changed in separate steps
between which the process can be killed; the sink's `ofstream` holds bytes back
while the sidecar goes to disk at once; an in-order transfer is verified by a
running hash without reading the file back; the sender reads its source twice;
the answer to a transfer can be lost after the transfer took effect; frames of a
sender that is gone still arrive; threads share a directory without a lock; both
ends of a connection may be writing, or shutting TLS down, at once.
`PROJECT.json` lists these hazards at the lines
where they bite.

## Modules

`FtxBase` holds what the others share. Files and chunks are sequences of bytes
out of `Values`, with `Zero` the byte of pre-sizing, and a digest is the record of
what was hashed, so two digests are equal exactly when the inputs are. Chunks are
placed at `index * chunk_size` and may be shorter than `chunk_size` or empty: the
last one usually is shorter, and any can be when the source is truncated while the
sender hashes it.

`Receiver` is one destination, session after session, with a free peer: any frame
of `PeerFrames`, or a failed receive, at any point. In particular a chunk may be
longer than the `chunk_size` of its manifest, for which the code has no check, and
then overlaps the next one. An accepted chunk is the one its manifest declares, so
whether this can happen depends on the manifest alone (`ChunksFit`). Properties that
need chunks that fit say so, and `claim_root_of_file` below shows why; `Client::send`
sends no others, which is part of the invariant of `Transfer`. Its variables
are the disk (`dest`, `partial`, `ftxstate`), the locals of `handle_session_`
under the code's meaning (`man`, `got`, `resume`, `inorder`, `hasher`, `next`,
`bytes`, `chunks`, `final`), the put area of the sink's stream (`buf`) and the
frames sent (`s2c`). `pc` names the point of the function. One action is the
code between two changes of the disk or two receives:

| action | code (`server.cpp` unless named) |
|---|---|
| `Accept` | `run_one` |
| `AnswerHello`, `RefuseHello` | 134-156 |
| `TakeManifest`, `RefuseManifest` | 158-193 |
| `LoadResume`, `LoadFresh` | 195-212, `resume_state.cpp` `load`, `remove` |
| `OpenSink`, `OpenUnsent`, `OpenFails` | 214-238, `file_sink.cpp` `open` |
| `WriteChunk`, `WriteFails`, `RefuseChunk`, `TakeComplete` | 239-300, `write_at` |
| `SaveState` | 302, `ResumeState::save` |
| `RefuseTransfer`, `PassTransfer`, `FlushFails` | 311-366 |
| `Finalize`, `FinalizeRemoves`, `RenameAgain`, `RenameFails` | 368-371, `finalize` |
| `Cleanup` | 372, `ResumeState::remove` |
| `SendAck`, `AckUnsent` | 374-379 |
| `Kill`, `KillInWrite`, `Restart` | kill -9 at any of these points |

A kill loses the process: its locals and `buf`. What was handed to the kernel
survives, so this is the crash of the process (the `kill -9` of `DESIGN.md`) and
not of the machine. A write or a flush that is killed or fails leaves any prefix of
its bytes in `.partial` (`PartlyFlushed`, `PartlyWritten`); when it fails in the
destructor of the stream nobody notices (`Refuse`). `WriteModes` covers both things a standard library does with
a write: keep it in the put area (a chunk smaller than the buffer, such as the
last chunk of most files) or pass it to the kernel.

`Transfer` extends `Receiver` with `Client::send`, the connection and the source
file. A connection delivers in order, holds `Window` frames, and ends in one of
two ways: a close, after which what is in flight still arrives, or a break, which
loses it and which either end may notice first. The client may be killed and run
again, the source may be edited. `chunk_count` is reduced modulo `U32`, and
`send_frame` refuses a MANIFEST of more than `MaxHashes` hashes and a CHUNK of more
than `MaxData` bytes (`Oversized`). Its server actions are `Receiver`'s actions fed
from the connection.

`FrameHeader` says what `encode_frame` puts on the wire and what `decode_from`
accepts; a byte is a byte of a certain header or of a payload, so that the checksum
is perfect by construction.

`FrameStream` says what a frame reader promises: the frames of the stream, whole
and in order, up to the first bad header. `FrameDecoder` models
`proto::FrameDecoder` on a stream of bytes cut into `feed` calls of any size and
is checked, and proved, to implement it. `Concatenation` puts the frames of a stream,
and the chunks of a file, end to end.

`Connection` models both ends of one TCP stream. What an end does is a plan,
the calls of `Client::send` or `handle_session_` in order. `Write` and `Read` move
any number of bytes through buffers of `Capacity` bytes: the gathered write of
`send_frame` and the two reads of `recv_frame`. `Handshake`, `HandshakeFails`,
`Shutdown` and `Close` are `handshake` and `close`, with or without TLS at either
end. `GiveUp`, `Kill`, `LinkBreaks` and `Damage` are the troubles: a
`return` before the plan is over (at the server after an ERROR), a kill in the
middle of a call, a broken link, a damaged header.

`ResumeStore` says what the receiver takes from `ResumeState`: one stored set of
chunks, which a save replaces at once, and which a failing operation may lose.
`ResumeState` has the bitmap (a byte is the set of its bits, sizes are computed in
32 bits), the fields of the file and `save()` call by call (`SaveOpen`,
`SaveFlush`, `SaveRename`, `SaveRemove`, `SaveRenameAgain`), each of which may fail
and between any two of which the process may be killed. The refinement mapping
reads the bits back (`Received`) and takes for the stored copy what `load` makes of
the file.

`Sessions` is `Server::run`: several `handle_session_` threads on one directory,
one step per change of the directory or of a file. Names map to inodes, because
a sink writes through its descriptor while `finalize()`, the read back and
`ResumeState` go by name. Senders are honest and may go away; a rename may be
refused. The history variable `shared` collects the destinations that had two
sessions at a time.

`Messages` has the seven encoders and decoders over digits of a small radix with
the widths of the fields as constants, so that lengths wrap. A message is encoded
and decoded, or a stray payload decoded; a path that is rejected is quoted in an
ERROR. `decode_manifest` makes room for `chunk_count` hashes before it looks for them;
when that is more than `MaxResize` it throws (`Thrown`), and since nothing catches
it the server is gone, which for `Receiver` is a `Kill` while it waits for the
manifest. `Crc32c` has the nine bytes of a header bit by bit, with the table and the
loop at their real width. `ResolveDest` has `lexically_normal`, `operator/` and the
comparison of strings in `resolve_dest_`, on elements made of characters.

The modules whose names begin with `MC` give TLC its instances.
`ReceiverProofs`, `TransferProofs`, `TransferMoveProofs`, `TransferErrorProofs`,
`TransferRetryProofs`, `DecodingProofs` and `SessionsProofs` hold the proofs, and
`DataLemmas` what they need about concatenation. Definitions
described as faulty variants are not part of any specification: each is a
plausible mistake in the definition after it, which the property paired with it
in `PROJECT.json` detects.

## Runs

| run | instance | shows |
|---|---|---|
| `receiver` | eight manifests of up to 3 bytes and 2 chunks, well-formed and malformed frames, 2 kills, 1 I/O failure, at most 3 chunks a session; 821,882 states | `Integrity`, `HashedIsWritten`, `AckMeansDelivered`, `RecordedIsHeld`, `SidecarOwnsPartial`, `NoLostGround` |
| `transfer` | two sources of 3 and 4 bytes in chunks of 2, window of 2, 1 kill, 1 drop or sender kill, 1 edit; 81,637 states | `SuccessMeansDelivered`, `KillLosesOneChunk`, `ImplementsReceiver` |
| `transfer_live` | those sources, one of 1 byte and three of 3, 4 and 5 chunks with `U32` = 4 and `MaxHashes` = 2, no kill, 2 drops or sender kills, 1 edit; 81,309 states | `RetryDelivers`, `NoSpuriousError`, `SuccessMeansWhole` |
| `decoder` | streams of up to 3 frames out of six, every way to cut them up; 9,449 states | `ImplementsFrameStream`, `EveryFrameSeen` |
| `resume_state` | no or nine chunks, two manifests, 1 failure, kills, sidecars that are empty, cut or of another version; 21,290 states | `BitmapCovers`, `MarkIsExact`, `ImplementsResumeStore` |
| `connection` | a transfer of two chunks, and one whose chunk is too large to send, in buffers of 4 bytes; TLS at both, one or no end; 21,431 states | `ReceivedInOrder`, `CloseLosesNothing`, `BothEndsReturn` |
| `sessions` | 3 threads: an empty file, and two senders of another one, with the same two chunks or with one each; 1 refused rename; 271,180 states | `DeliveredWhole`, `NobodyFails`, `AckedStays`, `EverySessionEnds` |
| `resolve_dest` | roots of up to two and paths of up to three elements out of `.`, `..`, `a`, `aa`, `.a`, absolute or not, with a trailing slash or not; 150,282 states | `UnderRoot`, `OthersAccepted` |
| `codecs` | a payload: binary digits, integers of one or two, every message with texts up to 5 digits (a length field holds 3), every MANIFEST payload of up to 14 and other payload of up to 8 digits, room for 2 hashes; or a header: lengths of 1 MiB and 64 MiB + 1, every type; one or two bits flipped anywhere, any change of one byte, any run of low bits of the length; 228,453 states | `ReceivedAsSent`, `AcceptedIsCanonical`, `DamageFound`, `CrcIsRemainder` |
| `claim_*` | see Findings | a counterexample each |

Why the bounds are enough to be interesting. Two chunks are the least with an
order, and a `chunk_size` of 2 the least with short and torn chunks; with 1, offset
and index agree. The manifests overlap in content and differ in size, count,
`chunk_size` and root hash, so that the leavings of one meet a session of another;
two have chunks that hold less than the file size promises, as a source that
shrinks while it is hashed produces, two have a chunk longer than `chunk_size`, and
one is of an empty file. Three chunks in a
session leave room for a duplicate. Two kills allow one in a session that recovers
from another, and one failure each of the failure paths (`RenameFails` needs no
second one: what refused the first rename refuses the next). Two drops interrupt a
resumed transfer again. A window of 2 with up to 4 frames to send makes
`send_frame` block. Headers of 2 bytes can be split, and payloads reach
`MaxPayload` and pass it. A source of five chunks shows as one when `U32` is 4, which
is the dangerous way to wrap: the first chunk alone makes a consistent manifest but
for the file size. Nine chunks are the least with a second byte of the bitmap, and
the mark of index 9 lies beyond it. Buffers of 4 bytes hold one ERROR frame and
not two of the larger frames, so that both ends can be blocked in a write. Two
senders of one file, in either order or at once, with a lost one between any two
steps, are the least that can meet each other's `.partial`, `.ftxstate` and
`.ftxstate.tmp`; the third thread shows what this does to another file.

Deadlock is checked in the runs of `Receiver`, `Transfer` and `ResumeState`, where
somebody can always go on. It is not in the others, which come to an end: a stream
or a conversation is over, a message is read, the sessions are done.

The cost of a chunk in `KillLosesOneChunk` is what `DESIGN.md` promises ("a
`kill -9` loses at most one chunk"): over all the sessions of one delivery the
server accepts each chunk once, and one more for each kill.

### Fairness

`FairTransferSpec` is weak fairness of the client's steps together and of the
server's steps together. The code justifies the steps themselves: both programs
are single threads that run unless they wait for the socket, which is in the
guards. Two of the steps are those of people: `Connect` after a failure
(`DESIGN.md`: retries are not automatic, the operator runs the sender again) and
`ServerRestart`. Drops and edits are not fair; they are only finitely many. The
model lets each end of a connection find out that it is broken, which the code
leaves to TCP: it sets no timeout.
`FairDecoderSpec` assumes a caller that keeps feeding and takes ready frames.
`ConnectionSpec` is weakly fair to each end: a process that can move a byte, or
return, does. An end that stops without a word, neither killed nor cut off, is
excluded by this; the code has no timeout that would help the other one.
`FairSessionsSpec` is weakly fair to each thread; a thread that waits for a sender
gets the next frame or loses the connection.

## Findings

Each of the first three is a sentence of the repository that TLC refutes on the model
of the code.

- `claim_resumable`: a kill between `finalize()` and `ResumeState::remove`
  (`server.cpp:368-372`) leaves a complete `.ftxstate` without `.partial`. The next
  session of the same file resumes, opens a zero-filled `.partial`, requests
  nothing, fails the root hash, and leaves the sidecar in place; so does every
  later one. `DESIGN.md:36`: "Resumable on connection drop, sender restart, or
  receiver restart." `RestartDelivers` is `RetryDelivers` without its condition
  that the server was not killed.
- `claim_bit_on_disk`: the sidecar is saved without flushing the sink
  (`server.cpp:302`), so a kill can lose a recorded chunk.
  `include/ftx/io/resume_state.hpp:19`: "bit n indicates chunk n is on disk". The
  file is safe, since the resumed session reads it back, but the transfer is stuck
  as above.

- `claim_root_of_file`: no chunk is compared with `chunk_size` (`server.cpp:293`), and
  `write_at` says "Caller is responsible for chunk ordering / overlap correctness."
  (`include/ftx/io/file_sink.hpp:26`). When a manifest declares a chunk that is longer
  and the chunks come in order, the running hash (`server.cpp:333`) is that of all the
  bytes received, while the file has lost those that the next chunk overwrote; the
  file is delivered and acknowledged under a root hash that it does not have.
  `DESIGN.md:231`: "every chunk must match (manifest AND in-frame); root recomputed from
  disk", and `DESIGN.md:224`: "Final root-hash verification re-reads from disk before
  atomic rename". Both describe the path of resumed and out-of-order transfers
  only. `Integrity` and `AckMeansDelivered` are therefore conditional on `Vouched`: the
  file was read back, or the declared chunks fit.

The following were met while modelling and have no run of their own. Most are the
reason for a condition in a property that holds.

- `finalize()` removes the destination before its second rename
  (`file_sink.cpp:98-103`); `include/ftx/io/file_sink.hpp:12`: "finalize() atomically
  renames it into place". `Integrity` speaks of what a destination becomes, not of
  its absence.
- The read back (`server.cpp:350`) takes a read error for the end of the file;
  `DESIGN.md:192`: "`BLAKE3(file)` recomputed at finalize".
- `save()` does not look at the result of its last flush (`resume_state.cpp:75`) and
  can rename a cut temporary over a good sidecar; `resume_state.hpp:39`:
  "Best-effort write to a temp + rename for atomicity". `ResumeStore` therefore
  has `Lose`.
- A manifest of more than about two million chunks exceeds the 64 MiB of a frame
  (`connection.cpp:87`); `DESIGN.md:33`: "Transfer files of arbitrary size". And
  nothing limits `chunk_size`, although `DESIGN.md:148` says that "the chunk_size
  knob is capped accordingly". Hence `Sendable` in `RetryDelivers`.
- `decode_manifest` resizes to `chunk_count` hashes (`messages.cpp:188`) before it knows
  that the payload holds them; `decode_req_chunks` checks first (line 217). The room
  asked for is up to 128 GiB for a payload of any size, and a failed allocation
  ends the process. `DESIGN.md:228` answers "Resource exhaustion via huge MANIFEST"
  with "Cap on chunk_count via `kDefaultMaxPayload = 64 MiB` payload limit", which the
  code does not have at this point. `Messages` has the outcome, and the properties of
  `Receiver` hold across it as across any kill.
- Two sessions of one destination at the same time cut short or rename away each
  other's files, also after an ACK (`server.cpp:97`); `server.hpp:16` calls the
  server "serial", and `DESIGN.md:320` mentions a race on `.ftxstate` only. Hence
  `Alone` in the properties of `Sessions`. For the same reason a destination called
  `x.partial` is not safe from a transfer of `x`, although `server.cpp:95` says that
  concurrent transfers of different files are supported; the instance has no such
  names.
- A refused header ends the session without an ERROR (`server.cpp:136`, `241`);
  `DESIGN.md:292`: "The receiver sends ERROR with a typed `ErrorCode` and closes."
- The ERROR that quotes a path of nearly 64 KiB has a length that wraps
  (`messages.cpp:303`) and cannot be decoded. It is never decoded as another message
  (`ReceivedAsSent`).
- Under `--root .` every relative path is rejected (`server.cpp:118`), because the
  normalised candidate has lost the `.`; hence the condition in `OthersAccepted`.
- `FrameDecoder::feed` buffers all it is given (`decoder.cpp:13`);
  `include/ftx/proto/decoder.hpp:16`: "Memory bound: at most kHeaderSize +
  max_payload bytes are buffered."

## Proofs

`ReceiverProofs` proves, for every set of byte values, every set of frames that a
peer may send at any point, all file and chunk sizes and any number of kills,
failures and sessions:

- `TypeCorrect`: `Spec => []TypeOK`
- `HashedIsWrittenAlways`: `Spec => []HashedIsWritten`
- `DestinationIntegrity`: `Spec => Integrity`: the destination only ever becomes
  a file under a root hash on which the manifest and COMPLETE agree. It is the hash
  of that file whatever arrived, if `.partial` was read back; on the in-order path it
  is if no chunk of the manifest is longer than `chunk_size`.

The assumptions are those of the modules: `DataAssumption`, `NoneAssumption` and
`ReceiverAssumption`. The inductive invariant is
`IInv == Shape /\ HashedIsWritten /\ Verified /\ Sized`.

- `Shape` is `TypeOK` with what the control points say of the rest: a manifest is
  there after `manifest`, nothing is pending or counted before `chunks`.
- `HashedIsWritten` carries the argument for the in-order path and manifests whose
  chunks fit. After a
  chunk shorter than `chunk_size` the next one is written further on than it is
  hashed, so "the hashed bytes are a prefix of the file" is *not* invariant. What
  is: they number at most `next * chunk_size` and at most the declared size, and
  whenever they reach either they are the bytes of the file. A step can reach a
  bound only from a state that had reached it, with the chunk right behind. The comparison of `bytes_received` with `file_size`
  at COMPLETE then makes them all of it.
- `Verified` says that past `verify` the file to be renamed (with what the stream
  still holds) has the manifest's root hash, given `Vouched`.
- `Sized` says that from `open` on the file is at least as long as the manifest
  declares, and so is the destination when an ACK is sent. Pre-sizing makes it true
  and no later write shortens the file.

`Integrity` follows from `IInv` and the fact that only `Finalize` and
`RenameAgain` put a file in place.

The module goes on to prove what the resume state is good for, again for all frames
and any number of sessions: `NoGroundLost` (`NoLostGround`),
`AckDelivered` (`AckMeansDelivered`), `RecordedIsHeldAlways` (`RecordedIsHeld`) and
`SidecarOwnsPartialAlways` (`SidecarOwnsPartial`). Three invariants are added to
`IInv`:

- `Tracked`: between the load and the removal a sidecar is about the manifest of
  the session, and the session knows at least the chunks it records. Without it a
  save could go back behind what the file says.
- `Retained`: what the session counts as received, and not only what the sidecar
  says, is in `.partial` or in the buffer, if the manifest's chunks fit.
  `RecordedIsHeld` alone is not inductive because a save copies the session's set.
- `Consistent`: every byte of `.partial`, and of the write in the buffer, is zero or
  the manifest's. The buffer has to be in it because a kill may bring any part of
  it to the disk.

Four modules prove, for every set of sources, chunk size, window and limit:

- `TransferProofs`: `TransferTypeCorrect`, `TransferImplementsReceiver`
  (`TransferSpec => Spec`, so that all of the above holds with the real sender) and
  `SuccessIsDelivery` (`SuccessMeansDelivered`);
- `TransferMoveProofs`, `TransferErrorProofs` and, putting them together with the
  first, `TransferRetryProofs`: `SuccessIsWhole` (`SuccessMeansWhole`), `KillLosesOne`
  (`KillLosesOneChunk`) and `NoRefusal` (`NoSpuriousError`).

The invariant is `TInv == IInv /\ Reads /\ Linked`. `Reads`
is about the client: what it has hashed is what its reads returned, and the
count is complete once the manifest is sent. `Linked` ties the two ends together
while the client is there: a MANIFEST in flight or in the server is the one of what
the client hashed, requested indices are in range, and an ACK on the way means that
the session is over and the destination is the concatenation of what was hashed.
The step that makes it true is `Verified` with the fact that equal digests have
equal contents. `Linked` also says that the chunks of the server's manifest fit, because
`read_at` returns at most `chunk_size` bytes; so the condition of `Vouched` is met.

`SuccessIsWhole` is about `chunk_count`, which wraps at 2^32. While the source is not
edited (`Stable`) the pass over it reads the pieces of one content, so that their
concatenation is a *prefix* of the source, the whole of it only if the count did not
wrap. `SuccessIsDelivery` says that the destination is this prefix; `Sized`, carried
along by `Linked`, that it is at least as long as the declared size, which is not
computed from the count. So it is the source. `DataLemmas` has the fact about the
pieces (`ConcatPieces`). It needs induction over the number of chunks, which is done
with the least counterexample, from the well-foundedness of the natural numbers.

`KillLosesOne` counts across sessions, so its invariant `CountInv` is about what one
session leaves to the next. While nobody edits the source and no operation fails:

- `SameManifest`: every manifest, in flight, in the server or behind the sidecar's
  id, is the one of the source. So a sidecar that is there is always resumed.
- `Once`: a chunk is in the server's set, in flight or still to be sent, and in one
  of these places only. So an accepted chunk is a new one. Before the server has asked,
  nothing is in flight; frames of a client that is gone are still covered.
- `Counted`: the chunks accepted since the last delivery are at most those the
  sidecar records, one more for each kill, and one more between the write and the
  save. Only a kill can end a session at that point.

The steps of both ends are first reduced to what they do to these variables
(`ServerMove`, `ClientMove`); the invariant is then shown move by move.

`NoRefusal` says that lost connections and killed senders alone never lead to an ERROR.
Its invariant `ErrorInv` holds while nothing else went wrong and the source can be
sent (`Calm`):

- `Genuine`: every CHUNK and COMPLETE in flight is one of the source.
- `Turns`: whose turn it is. What the server waits for is at the head of what is in
  flight, or will be sent, or the connection is over.
- `Filling`: the chunks that the server lacks are in flight or still to be sent; in a
  fresh session they come in order, and the running hash is what came so far.
- `Silent`: the server has sent no ERROR.

At `verify` the in-order root hash is then that of the source. For a resumed session
`Retained` says that `.partial` holds every chunk, so that what is read back is the
source as well.

`DecodingProofs` proves `BitmapAlwaysCovers` (`BitmapCovers`), `MarkAlwaysExact`
(`MarkIsExact`) and `StateImplementsStore` (`ImplementsResumeStore`) for all counts
that `ResumeAssumption` allows. The inductive invariant `RInv` says that the object
and what loads from the file have bitmaps of the right length, and that a
temporary about to be renamed loads as the object being saved or, after a
failed write, as nothing. The lemma behind it is that `load` of what `save` wrote is
the object, through the four bytes of the count.

It also proves `DecoderTypeCorrect` (`DecoderTypeOK`) and
`DecoderImplementsStream` (`ImplementsFrameStream`) for every set of streams, header
size and limit (`HeaderAssumption`, `DecoderAssumption`). The inductive invariant
`DecoderInv` says that `buffer_` followed by what has not been fed is exactly the
bytes of the frames that have not been taken (`After`), less the header if that has
been consumed (`Fits`); that a pending header is the one of the next frame, which is
good; and that a poisoned decoder stands at a bad frame. `drive_` moves within `Fits`
(`DriveFits`), `feed` moves bytes from one side to the other, and `take_frame` removes
the payload of one frame. The lemma behind it is that a prefix that lies within the
buffer can be cut off there (`CutPrefix`), so that a header is never read out of
alignment.

`SessionsProofs` proves `DeliveredWholeAlways`, `NobodyFailsAlways` and
`AckedStaysAlways` (`DeliveredWhole`, `NobodyFails`, `AckedStays`) for any number of
threads, destinations and refused renames. `SessionsAssumption` excludes destinations
called like another one's `.partial`, `.ftxstate` or `.ftxstate.tmp`. The inductive
invariant `SessionsInv` has two parts:

- `Apart`: an inode is held by the names, or by the open sink, of one destination
  only. Without it nothing could be said of a write through a descriptor whose name
  was renamed away. Each step of a thread is shown to touch only inodes of its own
  destination or new ones (`Moves`), so that it leaves the others as they are.
- `Fine`: for a destination without two sessions at a time, what the control point
  of its session says of the four files: the recorded chunks are in `.partial`, a
  temporary about to be renamed records no more than the session has, and past the
  verification the file is the content that was sent.

Only model-checked: liveness (`RetryDelivers`, `EveryFrameSeen`, `BothEndsReturn`,
`EverySessionEnds`), which is out of the prover's reach; and `Connection`, `Messages`, `ResolveDest` and `Crc32c`. `Messages` and `ResolveDest`
compute by folds over digits and path elements, and what a fold returns for every input
takes an induction of its own; `Crc32c` is about one polynomial at its real width.

## Not modelled

- Power loss: nothing calls `fsync`, and after a crash of the machine any of the
  files may be anything.
- Hash and checksum collisions. BLAKE3 is injective here; CRC-32C is perfect except
  in `Crc32c`.
- Failing reads of `.partial`. `FileSource` failing to open or to read ends `send`
  like a killed sender.
- A `chunk_size` of zero, by which `Client::send` divides.
- A peer that goes silent without closing: there is no timeout to model.
- `Server::stop`, which nothing calls.
- The configuration of TLS contexts, the command line apart from the destination,
  version strings, logging: no state that changes.
- Kills of the server while several sessions run. `Receiver` has them for one
  session, and a kill leaves no thread that could interfere.

## Plan

`Connection` as a refinement of `FrameStream` in each direction, with the invariant of
`DecodingProofs`, and the channel of `Transfer` as an abstraction of `Connection`.
