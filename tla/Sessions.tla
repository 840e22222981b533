------------------------------ MODULE Sessions ------------------------------
(***************************************************************************)
(* Server::run: a detached thread per connection, each in handle_session_, *)
(* on one directory and without any lock between them.                     *)
(*                                                                         *)
(* The directory maps names to inodes, because the threads do not all      *)
(* reach a file in the same way: the sink writes through its descriptor,   *)
(* which survives a rename; the read back, finalize() and ResumeState go   *)
(* by name; opening with trunc empties the inode that others have open.    *)
(* A thread takes one step per change of the directory or of a file.       *)
(*                                                                         *)
(* Senders are honest and their sources do not change, so that chunks come *)
(* in order and a fresh session's running hash is right; a sender may go   *)
(* away at any point.  Chunks have one byte and are larger than the        *)
(* stream's buffer: only the byte that pre-sizes .partial waits in it.     *)
(***************************************************************************)
EXTENDS Integers, Sequences, FiniteSets

CONSTANTS
    Threads,    \* the connections that will be accepted
    Jobs,       \* what their senders may transfer: [name, content] for each
    Values,     \* the byte values that the properties tell apart
    Inodes,     \* the inodes of the file system
    MaxFaults,  \* bound on renames that the file system refuses
    Zero, None

VARIABLES
    job,      \* what the sender of each connection transfers
    dir,      \* the inode of each name, or None
    data,     \* the content of each inode
    pc,       \* where the thread is in handle_session_
    got,      \* state
    resume,   \* resume_active
    sink,     \* the inode that the sink has open, or None
    presize,  \* the pre-sizing byte is still in the stream's buffer
    tmp,      \* the inode that save() has open, or None
    faults,   \* renames refused so far
    result,   \* "none", or how the session ended: "ACK", "ERROR" or "drop"
    shared    \* history: the destinations that had two sessions at a time

\* Faulty variant of Partial: one file for all the transfers.
PartialShared(n) == <<"partial">>

\* A name is its parts: "x", "partial" for x.partial.
Partial(n) == Append(n, "partial")
State(n)   == Append(n, "ftxstate")
Tmp(n)     == State(n) \o <<"tmp">>

Names ==
    LET dests == {job[t].name : t \in Threads} IN
    dests \cup UNION {{Partial(n), State(n), Tmp(n)} : n \in dests}

\* What a sidecar says: the identity of a manifest, and chunks.
Sides == [id : Seq(Values), got : SUBSET Nat]

\* No destination is called like a file that a transfer of another one uses:
\* handle_session_ would take one for the other.
ASSUME SessionsAssumption ==
    /\ Jobs \subseteq [Threads -> [name : Seq(STRING), content : Seq(Values)]]
    /\ \A j \in Jobs : \A t, u \in Threads :
          j[t].name \notin {Partial(j[u].name), State(j[u].name), Tmp(j[u].name)}
    /\ Zero \in Values /\ None \notin Inodes \cup Sides
    /\ MaxFaults \in Nat

\* A file is the bytes of a transfer or the fields of a sidecar.
Empty == [bytes |-> <<>>, side |-> None]

files  == <<dir, data>>
locals == <<got, resume, sink, presize, tmp>>
sessionVars == <<job, files, pc, locals, faults, result, shared>>

Size(t) == Len(job[t].content)
Name(t) == job[t].name
Indices(t) == 1 .. Size(t)

Manifest(t) == job[t].content     \* stands for its identity

-----------------------------------------------------------------------------
(***************************************************************************)
(* The file system.                                                        *)
(***************************************************************************)
Unused ==
    {i \in Inodes : /\ \A n \in Names : dir[n] # i
                    /\ \A t \in Threads : sink[t] # i /\ tmp[t] # i}

Exists(name) == dir[name] # None

\* open(name, trunc): the inode of an existing name, emptied, or a new one.
Inode(name) == IF Exists(name) THEN dir[name] ELSE CHOOSE i \in Unused : TRUE

Created(name) ==
    /\ Exists(name) \/ Unused # {}
    /\ dir' = [dir EXCEPT ![name] = Inode(name)]

Renamed(from, to) ==
    /\ Exists(from)
    /\ dir' = [dir EXCEPT ![to] = dir[from], ![from] = None]
    /\ UNCHANGED faults

\* rename() fails: there is no such file, or the file system refuses.
NotRenamed(from) ==
    \/ ~Exists(from) /\ UNCHANGED faults
    \/ Exists(from) /\ faults < MaxFaults /\ faults' = faults + 1

Removed(name) == dir' = [dir EXCEPT ![name] = None]

Put(file, k, byte) ==
    [Empty EXCEPT !.bytes =
        [j \in 1 .. (IF k > Len(file.bytes) THEN k ELSE Len(file.bytes)) |->
            IF j = k THEN byte
            ELSE IF j <= Len(file.bytes) THEN file.bytes[j] ELSE Zero]]

\* The file that the sink of t has open, once its buffer is written out.
Flushed(t) ==
    IF presize[t] THEN Put(data[sink[t]], Size(t), Zero) ELSE data[sink[t]]

-----------------------------------------------------------------------------
(***************************************************************************)
(* handle_session_.                                                        *)
(***************************************************************************)
Goto(t, label) == pc' = [pc EXCEPT ![t] = label]

\* The locals go out of scope; ~FileSink writes the buffer out.
Return(t, how) ==
    /\ Goto(t, "done")
    /\ result' = [result EXCEPT ![t] = how]
    /\ data' = IF sink[t] = None THEN data ELSE [data EXCEPT ![sink[t]] = Flushed(t)]
    /\ sink' = [sink EXCEPT ![t] = None]
    /\ presize' = [presize EXCEPT ![t] = FALSE]
    /\ got' = [got EXCEPT ![t] = {}]
    /\ resume' = [resume EXCEPT ![t] = FALSE]
    /\ UNCHANGED tmp

\* accept, and the detached thread up to the manifest.
Start(t) ==
    /\ pc[t] = "idle"
    /\ Goto(t, "load")
    /\ shared' = shared \cup
          {Name(t) : u \in {u \in Threads \ {t} :
                               Name(u) = Name(t) /\ pc[u] \notin {"idle", "done"}}}
    /\ UNCHANGED <<files, locals, faults, result>>

\* Faulty variant of Resumable: the manifest's identity is not compared.
ResumableAny(t) ==
    Exists(State(Name(t))) /\ data[dir[State(Name(t))]].side # None

Resumable(t) ==
    /\ Exists(State(Name(t)))
    /\ data[dir[State(Name(t))]].side # None
    /\ data[dir[State(Name(t))]].side.id = Manifest(t)

Load(t) ==
    /\ pc[t] = "load"
    /\ Goto(t, "open")
    /\ resume' = [resume EXCEPT ![t] = Resumable(t)]
    /\ IF Resumable(t)
       THEN got' = [got EXCEPT ![t] = data[dir[State(Name(t))]].side.got] /\ UNCHANGED dir
       ELSE Removed(State(Name(t))) /\ UNCHANGED got
    /\ UNCHANGED <<data, sink, presize, tmp, faults, result>>

Reusable(t) ==
    /\ resume[t]
    /\ Exists(Partial(Name(t)))
    /\ Len(data[dir[Partial(Name(t))]].bytes) >= Size(t)

Open(t) ==
    LET i == Inode(Partial(Name(t))) IN
    /\ pc[t] = "open"
    /\ Goto(t, "chunks")
    /\ sink' = [sink EXCEPT ![t] = i]
    /\ IF Reusable(t) THEN UNCHANGED <<files, presize>>
       ELSE /\ Created(Partial(Name(t)))
            /\ data' = [data EXCEPT ![i] = Empty]
            /\ presize' = [presize EXCEPT ![t] = Size(t) > 0]
    /\ UNCHANGED <<got, resume, tmp, faults, result>>

Missing(t) == Indices(t) \ got[t]

\* A CHUNK arrives, the first one that is missing: write_at and mark_received.
WriteChunk(t) ==
    /\ pc[t] = "chunks"
    /\ \E k \in Missing(t) :
          /\ \A j \in Missing(t) : k <= j
          /\ data' = [data EXCEPT ![sink[t]] = Put(Flushed(t), k, job[t].content[k])]
          /\ got' = [got EXCEPT ![t] = @ \cup {k}]
    /\ presize' = [presize EXCEPT ![t] = FALSE]
    /\ Goto(t, "save")
    /\ UNCHANGED <<dir, resume, sink, tmp, faults, result>>

RecvFails(t) ==
    /\ pc[t] \in {"load", "chunks"}
    /\ Return(t, "drop")
    /\ UNCHANGED <<dir, faults>>

(***************************************************************************)
(* ResumeState::save: open, write and close, rename; if the rename fails,  *)
(* remove and rename again.  The result is ignored.                        *)
(***************************************************************************)
SaveOpen(t) ==
    LET i == Inode(Tmp(Name(t))) IN
    /\ pc[t] = "save"
    /\ Goto(t, "write")
    /\ Created(Tmp(Name(t)))
    /\ data' = [data EXCEPT ![i] = Empty]
    /\ tmp' = [tmp EXCEPT ![t] = i]
    /\ UNCHANGED <<got, resume, sink, presize, faults, result>>

SaveWrite(t) ==
    /\ pc[t] = "write"
    /\ Goto(t, "rename")
    /\ data' = [data EXCEPT ![tmp[t]] =
                   [Empty EXCEPT !.side = [id |-> Manifest(t), got |-> got[t]]]]
    /\ tmp' = [tmp EXCEPT ![t] = None]
    /\ UNCHANGED <<dir, got, resume, sink, presize, faults, result>>

SaveRename(t) ==
    /\ pc[t] = "rename"
    /\ \/ Renamed(Tmp(Name(t)), State(Name(t))) /\ Goto(t, "chunks")
       \/ NotRenamed(Tmp(Name(t))) /\ Removed(State(Name(t))) /\ Goto(t, "again")
    /\ UNCHANGED <<data, locals, result>>

\* Faulty variant of SaveRenameAgain: save() tries until the rename succeeds.
SaveRenameUntil(t) ==
    /\ pc[t] = "again"
    /\ \/ Renamed(Tmp(Name(t)), State(Name(t))) /\ Goto(t, "chunks")
       \/ NotRenamed(Tmp(Name(t))) /\ UNCHANGED <<dir, pc>>
    /\ UNCHANGED <<data, locals, result>>

SaveRenameAgain(t) ==
    /\ pc[t] = "again"
    /\ Goto(t, "chunks")
    /\ \/ Renamed(Tmp(Name(t)), State(Name(t)))
       \/ NotRenamed(Tmp(Name(t))) /\ UNCHANGED dir
    /\ UNCHANGED <<data, locals, result>>

(***************************************************************************)
(* COMPLETE arrives.  A fresh session goes by its running hash; a resumed  *)
(* one flushes its sink and reads .partial back, by name.                  *)
(***************************************************************************)
Verified(t) ==
    \/ ~resume[t]
    \/ LET n == Partial(Name(t)) IN
       /\ Exists(n)
       /\ job[t].content = IF dir[n] = sink[t] THEN Flushed(t).bytes ELSE data[dir[n]].bytes

Verify(t) ==
    /\ pc[t] = "chunks"
    /\ Missing(t) = {}
    /\ IF Verified(t)
       THEN /\ Goto(t, "finalize")
            /\ data' = [data EXCEPT ![sink[t]] = Flushed(t)]
            /\ sink' = [sink EXCEPT ![t] = None]
            /\ presize' = [presize EXCEPT ![t] = FALSE]
            /\ UNCHANGED <<got, resume, tmp, result>>
       ELSE Return(t, "ERROR")
    /\ UNCHANGED <<dir, faults>>

\* Faulty variant of Finalize: the destination is removed before the rename.
FinalizeAfterRemove(t) ==
    /\ pc[t] = "finalize"
    /\ Removed(Name(t))
    /\ Goto(t, "finalize2")
    /\ UNCHANGED <<data, locals, faults, result>>

\* finalize(): the rename, by name.  When it fails the destination is removed ...
Finalize(t) ==
    /\ pc[t] = "finalize"
    /\ \/ Renamed(Partial(Name(t)), Name(t)) /\ Goto(t, "cleanup")
       \/ NotRenamed(Partial(Name(t))) /\ Removed(Name(t)) /\ Goto(t, "finalize2")
    /\ UNCHANGED <<data, locals, result>>

\* ... and the rename tried again.
FinalizeAgain(t) ==
    /\ pc[t] = "finalize2"
    /\ \/ /\ Renamed(Partial(Name(t)), Name(t))
          /\ Goto(t, "cleanup")
          /\ UNCHANGED <<data, locals, result>>
       \/ NotRenamed(Partial(Name(t))) /\ Return(t, "ERROR") /\ UNCHANGED dir

Cleanup(t) ==
    /\ pc[t] = "cleanup"
    /\ Removed(State(Name(t)))
    /\ Goto(t, "ack")
    /\ UNCHANGED <<data, locals, faults, result>>

SendAck(t) ==
    /\ pc[t] = "ack"
    /\ Return(t, "ACK")
    /\ UNCHANGED <<dir, faults>>

-----------------------------------------------------------------------------
SessionsInit ==
    /\ job \in Jobs
    /\ dir = [n \in Names |-> None]
    /\ data = [i \in Inodes |-> Empty]
    /\ pc = [t \in Threads |-> "idle"]
    /\ got = [t \in Threads |-> {}]
    /\ resume = [t \in Threads |-> FALSE]
    /\ sink = [t \in Threads |-> None]
    /\ presize = [t \in Threads |-> FALSE]
    /\ tmp = [t \in Threads |-> None]
    /\ faults = 0
    /\ result = [t \in Threads |-> "none"]
    /\ shared = {}

Step(t) ==
    \/ Start(t)
    \/ /\ \/ Load(t) \/ Open(t) \/ WriteChunk(t) \/ RecvFails(t)
          \/ SaveOpen(t) \/ SaveWrite(t) \/ SaveRename(t) \/ SaveRenameAgain(t)
          \/ Verify(t) \/ Finalize(t) \/ FinalizeAgain(t) \/ Cleanup(t) \/ SendAck(t)
       /\ UNCHANGED shared

SessionsNext == UNCHANGED job /\ \E t \in Threads : Step(t)

SessionsSpec == SessionsInit /\ [][SessionsNext]_sessionVars

\* The system schedules every thread; a sender goes on or its connection fails.
FairSessionsSpec == SessionsSpec /\ \A t \in Threads : WF_sessionVars(UNCHANGED job /\ Step(t))

-----------------------------------------------------------------------------
(***************************************************************************)
(* Properties.                                                             *)
(***************************************************************************)

\* The file called name is one of the contents that were sent there.
Whole(name) ==
    \E t \in Threads : Name(t) = name /\ data[dir[name]].bytes = job[t].content

\* The sessions whose destination no other one had at the same time.
Alone == {t \in Threads : Name(t) \notin shared}

\* A destination that exists is, byte for byte, one of the contents that were
\* sent to it: no other session's .partial, and no descriptor that outlives a
\* rename, ever shows through, even when a rename is refused and tried again.
DeliveredWhole ==
    \A t \in Alone : Exists(Name(t)) => Whole(Name(t))

\* A session that does not lose its sender ends in ACK: neither sessions of other
\* destinations, which may fight over theirs, nor what an earlier one of this
\* destination left behind makes it fail.
NobodyFails ==
    faults = 0 => \A t \in Alone : result[t] # "ERROR"

\* Once a session has sent ACK, its destination is there, whole, for good, or
\* until two sessions have it at the same time.
AckedStays ==
    faults = 0 => \A t \in Alone :
        result[t] = "ACK" => Exists(Name(t)) /\ Whole(Name(t))

\* However the sessions of one destination take files away from each other, every
\* one of them ends: no thread waits for a file that another has renamed.
EverySessionEnds == <>(\A t \in Threads : pc[t] = "done")

=============================================================================
