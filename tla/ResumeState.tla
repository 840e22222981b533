---------------------------- MODULE ResumeState ----------------------------
(***************************************************************************)
(* io::ResumeState down to the bitmap and the file: the bit of each chunk, *)
(* save() system call by system call with a kill between any two, load()   *)
(* of whatever a kill or a full disk left behind.                          *)
(*                                                                         *)
(* A byte of the bitmap is the set of its bits.  A file is the sequence of *)
(* its fields, as load() reads them; a field cut short fails the gcount()  *)
(* test like an absent one.  U32 is 2^32 in the code.                      *)
(***************************************************************************)
EXTENDS Integers, Sequences

CONSTANTS
    Ids,           \* manifest ids
    Counts,        \* chunk counts
    Indices,       \* chunk indices that are marked
    InitialFiles,  \* sidecars of another origin that may lie there
    kMagic, kVersion,
    U32,           \* the modulus of uint32_t
    NoState,       \* no object, no file, or a load() that returns false
    MaxFaults      \* bound on failing operations

\* decode_manifest needs 32 bytes of payload for each chunk and a payload has
\* 64 MiB at most, so a chunk_count is far below 2^32, the modulus of uint32_t.
ASSUME ResumeAssumption ==
    /\ U32 \in Nat /\ MaxFaults \in Nat
    /\ Counts \subseteq Nat /\ Indices \subseteq Nat
    /\ \A n \in Counts : n + 7 < U32 /\ n \div 16777216 < 256

VARIABLES
    obj,     \* the ResumeState of the session, or NoState
    file,    \* the file at path, or NoState
    tmp,     \* the file at path.tmp, or NoState
    spc,     \* where save() is; "idle" outside it
    faults

stateVars == <<obj, file, tmp, spc, faults>>

-----------------------------------------------------------------------------
(***************************************************************************)
(* The bitmap.                                                             *)
(***************************************************************************)
\* (chunk_count + 7u) / 8u, in 32 bits.
BitmapBytes(count) == ((count + 7) % U32) \div 8

\* Faulty variant of New: the number of bytes is rounded down.
NewFloor(id, count) ==
    [id |-> id, count |-> count, bitmap |-> [k \in 1 .. count \div 8 |-> {}]]

New(id, count) ==
    [id |-> id, count |-> count, bitmap |-> [k \in 1 .. BitmapBytes(count) |-> {}]]

is_set(s, i) == i < s.count /\ i % 8 \in s.bitmap[i \div 8 + 1]

\* Faulty variant of mark_received: the shift is by the index within nine bits.
mark_received_shifted(s, i) ==
    IF i >= s.count THEN s
    ELSE [s EXCEPT !.bitmap[i \div 8 + 1] = @ \cup {i % 9}]

mark_received(s, i) ==
    IF i >= s.count THEN s
    ELSE [s EXCEPT !.bitmap[i \div 8 + 1] = @ \cup {i % 8}]

missing(s) == {i \in 0 .. s.count - 1 : ~is_set(s, i)}

-----------------------------------------------------------------------------
(***************************************************************************)
(* The file.                                                               *)
(***************************************************************************)
LittleEndian(n) ==
    <<n % 256, (n \div 256) % 256, (n \div 65536) % 256, (n \div 16777216) % 256>>

Written(s) == <<kMagic, kVersion, s.id>> \o LittleEndian(s.count) \o s.bitmap

Prefix(f, k) == SubSeq(f, 1, k)

CountIn(f) == f[4] + 256 * f[5] + 65536 * f[6] + 16777216 * f[7]

load(f) ==
    IF f = NoState THEN NoState
    ELSE IF Len(f) < 7 \/ f[1] # kMagic \/ f[2] # kVersion THEN NoState
    ELSE IF Len(f) < 7 + BitmapBytes(CountIn(f)) THEN NoState
    ELSE [id |-> f[3], count |-> CountIn(f),
          bitmap |-> SubSeq(f, 8, 7 + BitmapBytes(CountIn(f)))]

Bits == 0 .. 7

\* NoState is no object and no file; what lies there at first does not load.
ASSUME FileAssumption ==
    /\ NoState \notin [id : Ids, count : Counts, bitmap : Seq(SUBSET Bits)]
    /\ NoState \notin [id : Ids, count : Counts, got : SUBSET Nat]
    /\ NoState \notin Seq({kMagic, kVersion} \cup Ids \cup Nat \cup SUBSET Bits)
    /\ \A f \in InitialFiles : load(f) = NoState

-----------------------------------------------------------------------------
(***************************************************************************)
(* What handle_session_ calls.                                             *)
(***************************************************************************)
Fault == faults < MaxFaults /\ faults' = faults + 1

Construct(id, count) ==
    /\ spc = "idle"
    /\ obj' = New(id, count)
    /\ UNCHANGED <<file, tmp, spc, faults>>

MarkReceived(i) ==
    /\ spc = "idle" /\ obj # NoState
    /\ obj' = mark_received(obj, i)
    /\ UNCHANGED <<file, tmp, spc, faults>>

Load ==
    /\ spc = "idle"
    /\ load(file) # NoState
    /\ obj' = load(file)
    /\ UNCHANGED <<file, tmp, spc, faults>>

\* remove() ignores its error.
Remove ==
    /\ spc = "idle"
    /\ \/ file' = NoState /\ UNCHANGED faults
       \/ Fault /\ UNCHANGED file
    /\ UNCHANGED <<obj, tmp, spc>>

-----------------------------------------------------------------------------
(***************************************************************************)
(* save().  The fields sit in the stream's buffer, or some of them are in  *)
(* the file already; good() is asked before the flush, nothing after it.   *)
(***************************************************************************)
\* Faulty variant of SaveOpen: the sidecar itself is truncated, not a temporary.
SaveOpenInPlace ==
    /\ spc = "idle" /\ obj # NoState
    /\ \/ spc' = "flush" /\ tmp' = <<>> /\ file' = <<>> /\ UNCHANGED faults
       \/ Fault /\ UNCHANGED <<spc, tmp, file>>
    /\ UNCHANGED obj

SaveOpen ==
    /\ spc = "idle" /\ obj # NoState
    /\ \/ spc' = "flush" /\ tmp' = <<>> /\ UNCHANGED faults
       \/ Fault /\ UNCHANGED <<spc, tmp>>
    /\ UNCHANGED <<obj, file>>

\* A write that fails is seen by good(), or happens in the flush and is not.
SaveFlush ==
    /\ spc = "flush"
    /\ \/ tmp' = tmp \o Written(obj) /\ spc' = "rename" /\ UNCHANGED faults
       \/ /\ Fault
          /\ \E k \in 0 .. Len(Written(obj)) - 1 : tmp' = Prefix(Written(obj), k)
          /\ spc' \in {"rename", "idle"}
    /\ UNCHANGED <<obj, file>>

SaveRename ==
    /\ spc = "rename"
    /\ \/ file' = tmp /\ tmp' = NoState /\ spc' = "idle" /\ UNCHANGED faults
       \/ Fault /\ spc' = "remove" /\ UNCHANGED <<file, tmp>>
    /\ UNCHANGED obj

SaveRemove ==
    /\ spc = "remove"
    /\ file' \in {NoState, file}
    /\ spc' = "rename2"
    /\ UNCHANGED <<obj, tmp, faults>>

SaveRenameAgain ==
    /\ spc = "rename2"
    /\ \/ file' = tmp /\ tmp' = NoState
       \/ UNCHANGED <<file, tmp>>
    /\ spc' = "idle"
    /\ UNCHANGED <<obj, faults>>

\* The session returns between two calls.
Destroy ==
    /\ spc = "idle"
    /\ obj' = NoState
    /\ UNCHANGED <<file, tmp, spc, faults>>

\* kill -9, in the middle of the write too.
Kill ==
    /\ obj' = NoState /\ spc' = "idle"
    /\ \/ UNCHANGED tmp
       \/ spc = "flush" /\ \E k \in 1 .. Len(Written(obj)) : tmp' = Prefix(Written(obj), k)
    /\ UNCHANGED <<file, faults>>

-----------------------------------------------------------------------------
ResumeInit ==
    /\ obj = NoState /\ tmp = NoState
    /\ file \in InitialFiles \cup {NoState}
    /\ spc = "idle" /\ faults = 0

ResumeNext ==
    \/ \E id \in Ids, n \in Counts : Construct(id, n)
    \/ \E i \in Indices : MarkReceived(i)
    \/ Load
    \/ Remove
    \/ SaveOpen
    \/ SaveFlush
    \/ SaveRename
    \/ SaveRemove
    \/ SaveRenameAgain
    \/ Destroy
    \/ Kill

ResumeSpec == ResumeInit /\ [][ResumeNext]_stateVars

-----------------------------------------------------------------------------
(***************************************************************************)
(* Properties.                                                             *)
(***************************************************************************)

\* Every chunk has its bit: neither the arithmetic of the constructor, nor that
\* of load() on a file a kill or a full disk left, makes bitmap_[i / 8] reach
\* outside the vector for an index below chunk_count.
BitmapCovers ==
    \A s \in {obj, load(file)} \ {NoState} :
        /\ s.count \in Counts
        /\ \A i \in 0 .. s.count - 1 : i \div 8 + 1 \in 1 .. Len(s.bitmap)

\* A mark takes its own chunk off the list of missing ones and no other, also at
\* the edges of a byte and for an index beyond the last chunk: what REQ_CHUNKS
\* will ask for is what has not arrived.
MarkIsExact ==
    [][\A i \in Indices :
          MarkReceived(i) => missing(obj') = missing(obj) \ {i}]_stateVars

Received(s) ==
    IF s = NoState THEN NoState
    ELSE [id |-> s.id, count |-> s.count, got |-> 0 .. s.count - 1 \ missing(s)]

Store == INSTANCE ResumeStore WITH live   <- Received(obj),
                                   stored <- Received(load(file)),
                                   saving <- spc # "idle"

\* The bits are the set of received chunks, and the copy that load() accepts is
\* always the last one whose save() went through: a kill between or inside any
\* two steps of save() leaves the old copy or the new one, and a stray or cut
\* temporary file never shows.
ImplementsResumeStore == Store!StoreSpec

=============================================================================
