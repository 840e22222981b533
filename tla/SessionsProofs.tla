--------------------------- MODULE SessionsProofs ---------------------------
(***************************************************************************)
(* DeliveredWhole, NobodyFails and AckedStays of Sessions, for any number  *)
(* of connections, destinations, contents and inodes.                      *)
(*                                                                         *)
(* The argument has two halves.  A step of a thread stays within the       *)
(* family of its destination: the names derived from it and the inodes     *)
(* that they, or the sinks and saves of its threads, hold.  Families never *)
(* overlap (Apart), so that what is true of one destination survives the   *)
(* steps of all the others, whatever those do to each other.  And a        *)
(* destination that has one session at a time goes through handle_session_ *)
(* as a sequential program, of which Fine is the invariant.                *)
(***************************************************************************)
EXTENDS Sessions, TLAPS

Family(n) == {n, Partial(n), State(n), Tmp(n)}

Dests == {Name(t) : t \in Threads}

Labels == {"idle", "load", "open", "chunks", "save", "write", "rename", "again",
           "finalize", "finalize2", "cleanup", "ack", "done"}

\* Where the sink is open.
Sinking == {"chunks", "save", "write", "rename", "again"}

Active(t) == pc[t] \notin {"idle", "done"}

FileSet == [bytes : Seq(Values), side : Sides \cup {None}]

Typed ==
    /\ job \in Jobs
    /\ dir \in [Names -> Inodes \cup {None}]
    /\ data \in [Inodes -> FileSet]
    /\ pc \in [Threads -> Labels]
    /\ got \in [Threads -> SUBSET Nat]
    /\ resume \in [Threads -> BOOLEAN]
    /\ sink \in [Threads -> Inodes \cup {None}]
    /\ presize \in [Threads -> BOOLEAN]
    /\ tmp \in [Threads -> Inodes \cup {None}]
    /\ faults \in Nat
    /\ result \in [Threads -> {"none", "ACK", "ERROR", "drop"}]

\* What the place of a thread says of its locals.
LocalsOK(t) ==
    /\ sink[t] # None <=> pc[t] \in Sinking
    /\ presize[t] => pc[t] = "chunks" /\ Size(t) > 0
    /\ tmp[t] # None <=> pc[t] = "write"
    /\ pc[t] \in {"idle", "load"} => got[t] = {} /\ ~resume[t]
    /\ pc[t] = "open" /\ ~resume[t] => got[t] = {}
    /\ result[t] # "none" => pc[t] = "done"

Locals == \A t \in Threads : LocalsOK(t)

\* No two names have one inode.
Distinct == \A a, b \in Names : dir[a] = dir[b] /\ dir[a] # None => a = b

Holds(n, i) ==
    \/ \E a \in Family(n) : dir[a] = i
    \/ \E t \in Threads : Name(t) = n /\ (sink[t] = i \/ tmp[t] = i)

\* No inode belongs to two destinations.
Apart == \A m, n \in Dests : \A i \in Inodes : Holds(m, i) /\ Holds(n, i) => m = n

Solo ==
    \A t, u \in Threads :
        Active(t) /\ Active(u) /\ Name(t) = Name(u) /\ Name(t) \notin shared => t = u

SideOf(n) == data[dir[State(n)]].side

\* bytes has the length of c, and the chunks done of it.
HasChunks(bytes, c, done) ==
    /\ Len(bytes) = Len(c)
    /\ done \subseteq 1 .. Len(c)
    /\ \A k \in done : bytes[k] = c[k]

\* The sidecar has been loaded, or removed.
OpenOK(t) ==
    /\ pc[t] = "open" /\ resume[t] =>
          /\ Exists(State(Name(t)))
          /\ SideOf(Name(t)) = [id |-> Manifest(t), got |-> got[t]]
    /\ pc[t] = "open" /\ ~resume[t] => ~Exists(State(Name(t)))

\* The sink is .partial and has the chunks of state; no sidecar of another file.
SinkOK(t) ==
    pc[t] \in Sinking =>
        /\ sink[t] = dir[Partial(Name(t))]
        /\ HasChunks(Flushed(t).bytes, job[t].content, got[t])
        /\ Exists(State(Name(t))) => SideOf(Name(t)).id = Manifest(t) /\ ~presize[t]

SaveOK(t) ==
    /\ pc[t] = "write" => tmp[t] = dir[Tmp(Name(t))]
    /\ pc[t] \in {"rename", "again"} =>
          /\ Exists(Tmp(Name(t)))
          /\ data[dir[Tmp(Name(t))]].side = [id |-> Manifest(t), got |-> got[t]]

EndOK(t) ==
    /\ pc[t] \in {"finalize", "finalize2"} =>
          /\ Exists(Partial(Name(t)))
          /\ data[dir[Partial(Name(t))]].bytes = job[t].content
    /\ pc[t] = "finalize2" => faults > 0
    /\ pc[t] \in {"cleanup", "ack"} => Exists(Name(t))

ResultOK(t) ==
    /\ result[t] = "ERROR" => faults > 0
    /\ result[t] = "ACK" => Exists(Name(t)) \/ faults > 0

SessionOK(t) == OpenOK(t) /\ SinkOK(t) /\ SaveOK(t) /\ EndOK(t)

\* What a sidecar records is in .partial, unless that has just been renamed.
SideOK(n) ==
    Exists(State(n)) =>
        /\ SideOf(n) # None
        /\ \/ \E t \in Threads : Name(t) = n /\ pc[t] = "cleanup"
           \/ /\ Exists(Partial(n))
              /\ HasChunks(data[dir[Partial(n)]].bytes, SideOf(n).id, SideOf(n).got)

Fine(n) ==
    /\ \A t \in Threads : Name(t) = n => SessionOK(t) /\ ResultOK(t)
    /\ SideOK(n)
    /\ Exists(n) => Whole(n)

SessionsInv ==
    /\ Typed /\ Locals /\ Distinct /\ Apart /\ Solo
    /\ \A n \in Dests \ shared : Fine(n)

-----------------------------------------------------------------------------
(***************************************************************************)
(* Names, and the bytes of a file.                                         *)
(***************************************************************************)
LEMMA JobType ==
    ASSUME Typed, NEW t \in Threads
    PROVE  /\ Name(t) \in Seq(STRING) /\ Name(t) \in Dests
           /\ job[t].content \in Seq(Values) /\ Size(t) \in Nat
BY SessionsAssumption DEF Typed, Name, Dests, Size

LEMMA FamilyNames ==
    ASSUME Typed, NEW n \in Dests
    PROVE  /\ n \in Names /\ Partial(n) \in Names /\ State(n) \in Names /\ Tmp(n) \in Names
           /\ n # Partial(n) /\ n # State(n) /\ n # Tmp(n)
           /\ Partial(n) # State(n) /\ Partial(n) # Tmp(n) /\ State(n) # Tmp(n)
<1>1. PICK t \in Threads : n = Name(t)
  BY Zenon DEF Dests
<1>2. n \in Seq(STRING)
  BY <1>1, JobType, Zenon
<1>3. n \in Names /\ Partial(n) \in Names /\ State(n) \in Names /\ Tmp(n) \in Names
  BY <1>1 DEF Names, Name
<1>4. n # Partial(n) /\ n # State(n) /\ n # Tmp(n)
  BY <1>1, SessionsAssumption, Zenon DEF Typed, Name
<1>5. Partial(n) # State(n) /\ Partial(n) # Tmp(n) /\ State(n) # Tmp(n)
  BY <1>2 DEF Partial, State, Tmp
<1> QED
  BY <1>3, <1>4, <1>5, Zenon

LEMMA FamiliesApart ==
    ASSUME Typed, NEW m \in Dests, NEW n \in Dests, m # n
    PROVE  Family(m) \cap Family(n) = {}
<1>1. PICK t \in Threads : m = Name(t)
  BY Zenon DEF Dests
<1>2. PICK u \in Threads : n = Name(u)
  BY Zenon DEF Dests
<1>3. m \in Seq(STRING) /\ n \in Seq(STRING)
  BY <1>1, <1>2, JobType, Zenon
<1>4. m \notin Family(n) /\ n \notin Family(m)
  BY <1>1, <1>2, SessionsAssumption DEF Typed, Name, Family
<1>5. Partial(m) # Partial(n) /\ State(m) # State(n) /\ Partial(m) # State(n) /\ State(m) # Partial(n)
  BY <1>3 DEF Partial, State
<1> DEFINE Parts == STRING \cup {"ftxstate"}
<1>6. State(m) \in Seq(Parts) /\ State(n) \in Seq(Parts)
  <2>1. m \in Seq(Parts) /\ n \in Seq(Parts)
    BY <1>3
  <2> QED
    BY <2>1 DEF State
<1> HIDE DEF Parts
<1>7. Tmp(m) # Tmp(n)
  BY <1>5, <1>6 DEF Tmp
<1>8. Tmp(m) # Partial(n) /\ Tmp(m) # State(n) /\ Tmp(n) # Partial(m) /\ Tmp(n) # State(m)
  BY <1>3, <1>6 DEF Tmp, Partial, State
<1> QED
  BY <1>4, <1>5, <1>7, <1>8, Zenon DEF Family

LEMMA PutIs ==
    ASSUME NEW f \in FileSet, NEW k \in Nat, NEW b \in Values, k > 0
    PROVE  /\ Put(f, k, b) \in FileSet
           /\ Len(Put(f, k, b).bytes) = IF k >= Len(f.bytes) THEN k ELSE Len(f.bytes)
           /\ Put(f, k, b).bytes[k] = b
           /\ \A j \in 1 .. Len(f.bytes) : j # k => Put(f, k, b).bytes[j] = f.bytes[j]
<1> DEFINE len == IF k > Len(f.bytes) THEN k ELSE Len(f.bytes)
           g == [j \in 1 .. len |->
                   IF j = k THEN b ELSE IF j <= Len(f.bytes) THEN f.bytes[j] ELSE Zero]
<1>1. f.bytes \in Seq(Values) /\ Len(f.bytes) \in Nat
  BY DEF FileSet
<1>2. len \in Nat /\ len = IF k >= Len(f.bytes) THEN k ELSE Len(f.bytes)
  BY <1>1
<1> HIDE DEF len
<1>3. Put(f, k, b) = [Empty EXCEPT !.bytes = g]
  BY Zenon DEF Put, len
<1>4. \A j \in 1 .. len : g[j] \in Values
  BY <1>1, <1>2, SessionsAssumption
<1>5. g \in [1 .. len -> Values]
  BY <1>4, Zenon
<1>6. g[k] = b /\ \A j \in 1 .. Len(f.bytes) : j # k => g[j] = f.bytes[j]
  BY <1>1, <1>2
<1> HIDE DEF g
<1>7. g \in Seq(Values) /\ Len(g) = len
  BY <1>2, <1>5
<1>8. Put(f, k, b) = [bytes |-> g, side |-> None]
  BY <1>3, Zenon DEF Empty
<1> QED
  BY <1>1, <1>2, <1>8, <1>6, <1>7 DEF FileSet

LEMMA EmptyIs == Empty \in FileSet /\ Empty.bytes = <<>>
BY DEF Empty, FileSet

LEMMA FlushedType ==
    ASSUME Typed, NEW t \in Threads, LocalsOK(t), sink[t] # None
    PROVE  Flushed(t) \in FileSet
<1>1. sink[t] \in Inodes /\ data[sink[t]] \in FileSet
  BY Zenon DEF Typed
<1>2. CASE presize[t]
  BY <1>1, <1>2, PutIs, JobType, SessionsAssumption, Zenon DEF Flushed, LocalsOK
<1>3. CASE ~presize[t]
  BY <1>1, <1>3, Zenon DEF Flushed
<1> QED
  BY <1>2, <1>3, Zenon

-----------------------------------------------------------------------------
(***************************************************************************)
(* What a step does outside of the family of its destination: nothing.     *)
(***************************************************************************)

\* An inode that a step for destination m may come to use.
Mine(m, i) == i \in Inodes /\ (Holds(m, i) \/ i \in Unused)

DirMoves(m) ==
    /\ dir' \in [Names -> Inodes \cup {None}]
    /\ Distinct'
    /\ \A a \in Names \ Family(m) : dir'[a] = dir[a]
    /\ \A a \in Family(m) : dir'[a] # None => Mine(m, dir'[a])

LEMMA UnusedIs ==
    ASSUME Typed, NEW i \in Unused
    PROVE  /\ i \in Inodes
           /\ \A a \in Names : dir[a] # i
           /\ \A t \in Threads : sink[t] # i /\ tmp[t] # i
BY Zenon DEF Unused

LEMMA StillNamed ==
    ASSUME Typed, UNCHANGED job
    PROVE  Names' = Names /\ Dests' = Dests /\ \A t : Name(t)' = Name(t)
BY Zenon DEF Names, Dests, Name

LEMMA DirSame ==
    ASSUME Typed, Distinct, UNCHANGED job, NEW m \in Dests, UNCHANGED dir
    PROVE  DirMoves(m)
BY StillNamed, FamilyNames DEF DirMoves, Mine, Holds, Distinct, Typed, Family

LEMMA DirRemoved ==
    ASSUME Typed, Distinct, UNCHANGED job, NEW m \in Dests, NEW a \in Family(m), Removed(a)
    PROVE  DirMoves(m)
BY StillNamed, FamilyNames, Zenon DEF DirMoves, Mine, Holds, Distinct, Typed, Family, Removed

LEMMA DirRenamed ==
    ASSUME Typed, Distinct, UNCHANGED job, NEW m \in Dests,
           NEW a \in Family(m), NEW b \in Family(m), a # b, Renamed(a, b)
    PROVE  DirMoves(m)
<1>1. a \in Names /\ b \in Names /\ Family(m) \subseteq Names
  BY FamilyNames, Zenon DEF Family
<1>2. dir' = [dir EXCEPT ![b] = dir[a], ![a] = None]
  BY Zenon DEF Renamed
<1>3. dir' \in [Names -> Inodes \cup {None}]
  BY <1>1, <1>2, Zenon DEF Typed
<1>4. dir'[a] = None /\ dir'[b] = dir[a] /\ \A c \in Names : c # a /\ c # b => dir'[c] = dir[c]
  BY <1>1, <1>2, Zenon DEF Typed
<1>5. Distinct'
  BY <1>1, <1>4, StillNamed DEF Distinct
<1>6. \A c \in Family(m) : dir[c] # None => Mine(m, dir[c])
  BY <1>1, Zenon DEF Mine, Holds, Typed
<1> QED
  BY <1>1, <1>3, <1>4, <1>5, <1>6, Zenon DEF DirMoves

LEMMA InodeIs ==
    ASSUME Typed, NEW m \in Dests, NEW a \in Family(m), Exists(a) \/ Unused # {}
    PROVE  /\ Mine(m, Inode(a))
           /\ Exists(a) => Inode(a) = dir[a]
           /\ ~Exists(a) => Inode(a) \in Unused
<1>1. CASE Exists(a)
  BY <1>1, FamilyNames DEF Exists, Inode, Typed, Mine, Holds, Family
<1>2. CASE ~Exists(a)
  <2>1. Inode(a) \in Unused
    BY <1>2, Zenon DEF Inode
  <2> QED
    BY <1>2, <2>1, UnusedIs, Zenon DEF Mine
<1> QED
  BY <1>1, <1>2, Zenon

LEMMA DirCreated ==
    ASSUME Typed, Distinct, UNCHANGED job, NEW m \in Dests, NEW a \in Family(m), Created(a)
    PROVE  DirMoves(m)
<1>1. a \in Names /\ Family(m) \subseteq Names
  BY FamilyNames, Zenon DEF Family
<1>2. dir' = [dir EXCEPT ![a] = Inode(a)] /\ Mine(m, Inode(a))
  BY InodeIs, Zenon DEF Created
<1>3. \A b \in Names : b # a => dir[b] # Inode(a)
  <2>1. CASE Exists(a)
    BY <1>1, <2>1, InodeIs, Zenon DEF Distinct, Exists
  <2>2. CASE ~Exists(a)
    BY <2>2, InodeIs, UnusedIs, Zenon DEF Created
  <2> QED
    BY <2>1, <2>2, Zenon
<1>4. Distinct'
  BY <1>1, <1>2, <1>3, StillNamed, Zenon DEF Distinct, Typed
<1>5. \A b \in Family(m) : dir[b] # None => Mine(m, dir[b])
  BY <1>1, Zenon DEF Mine, Holds, Typed
<1> QED
  BY <1>1, <1>2, <1>4, <1>5, Zenon DEF DirMoves, Typed, Mine

DataMoves(m) ==
    /\ data' \in [Inodes -> FileSet]
    /\ \A i \in Inodes : ~Mine(m, i) => data'[i] = data[i]

LocalMoves(u) ==
    /\ pc' \in [Threads -> Labels]
    /\ got' \in [Threads -> SUBSET Nat]
    /\ resume' \in [Threads -> BOOLEAN]
    /\ sink' \in [Threads -> Inodes \cup {None}]
    /\ presize' \in [Threads -> BOOLEAN]
    /\ tmp' \in [Threads -> Inodes \cup {None}]
    /\ result' \in [Threads -> {"none", "ACK", "ERROR", "drop"}]
    /\ \A t \in Threads \ {u} :
          /\ pc'[t] = pc[t] /\ got'[t] = got[t] /\ resume'[t] = resume[t]
          /\ sink'[t] = sink[t] /\ presize'[t] = presize[t] /\ tmp'[t] = tmp[t]
          /\ result'[t] = result[t]
    /\ sink'[u] # None => Mine(Name(u), sink'[u])
    /\ tmp'[u] # None => Mine(Name(u), tmp'[u])
    /\ LocalsOK(u)'

Moves(u) ==
    /\ DirMoves(Name(u))
    /\ DataMoves(Name(u))
    /\ LocalMoves(u)
    /\ faults' \in Nat /\ faults' >= faults

LEMMA OwnInodes ==
    ASSUME Typed, NEW u \in Threads
    PROVE  /\ sink[u] # None => Mine(Name(u), sink[u])
           /\ tmp[u] # None => Mine(Name(u), tmp[u])
BY Zenon DEF Mine, Holds, Typed

LEMMA DataSame ==
    ASSUME Typed, NEW m, UNCHANGED data
    PROVE  DataMoves(m)
BY Zenon DEF DataMoves, Typed

LEMMA DataWritten ==
    ASSUME Typed, NEW m, NEW i, Mine(m, i), NEW f \in FileSet,
           data' = [data EXCEPT ![i] = f]
    PROVE  DataMoves(m)
BY Zenon DEF DataMoves, Typed, Mine

LEMMA ReturnMoves ==
    ASSUME Typed, NEW u \in Threads, LocalsOK(u), UNCHANGED job, pc[u] # "write",
           NEW how \in {"ACK", "ERROR", "drop"}, Return(u, how)
    PROVE  DataMoves(Name(u)) /\ LocalMoves(u)
<1>1. DataMoves(Name(u))
  <2>1. CASE sink[u] = None
    BY <2>1, DataSame, Zenon DEF Return
  <2>2. CASE sink[u] # None
    BY <2>2, DataWritten, FlushedType, OwnInodes, Zenon DEF Return
  <2> QED
    BY <2>1, <2>2, Zenon
<1>2. /\ pc' = [pc EXCEPT ![u] = "done"]
      /\ result' = [result EXCEPT ![u] = how]
      /\ sink' = [sink EXCEPT ![u] = None]
      /\ presize' = [presize EXCEPT ![u] = FALSE]
      /\ got' = [got EXCEPT ![u] = {}]
      /\ resume' = [resume EXCEPT ![u] = FALSE]
      /\ tmp' = tmp /\ tmp[u] = None
  BY Zenon DEF Return, Goto, LocalsOK
<1>3. LocalsOK(u)'
  BY <1>2, Zenon DEF LocalsOK, Typed, Sinking
<1>4. LocalMoves(u)
  BY <1>2, <1>3, Zenon DEF LocalMoves, Typed, Labels
<1> QED
  BY <1>1, <1>4, Zenon

LEMMA StartMoves ==
    ASSUME Typed, Locals, Distinct, UNCHANGED job, NEW u \in Threads, Start(u)
    PROVE  Moves(u)
<1>1. DirMoves(Name(u)) /\ DataMoves(Name(u))
  BY DirSame, DataSame, JobType, Zenon DEF Start, files
<1>2. LocalMoves(u)
  BY OwnInodes, StillNamed, Zenon DEF Start, Goto, locals, Typed, Locals, LocalsOK, LocalMoves, Labels, Sinking, Size
<1> QED
  BY <1>1, <1>2 DEF Moves, Start, Typed

LEMMA LoadMoves ==
    ASSUME Typed, Locals, Distinct, UNCHANGED job, NEW u \in Threads, Load(u)
    PROVE  Moves(u)
<1>1. DirMoves(Name(u))
  BY DirSame, DirRemoved, JobType, Zenon DEF Load, Family
<1>2. DataMoves(Name(u))
  BY DataSame, Zenon DEF Load
<1>3. got'[u] \in SUBSET Nat
  <2>1. CASE Resumable(u)
    <3>1. dir[State(Name(u))] \in Inodes
      BY <2>1, JobType, FamilyNames, Zenon DEF Resumable, Exists, Typed
    <3>2. data[dir[State(Name(u))]].side \in Sides
      BY <2>1, <3>1, Zenon DEF Resumable, Typed, FileSet
    <3> QED
      BY <2>1, <3>2, ZenonT(60) DEF Load, Sides, Typed
  <2>2. CASE ~Resumable(u)
    BY <2>2, Zenon DEF Load, Typed
  <2> QED
    BY <2>1, <2>2, Zenon
<1>4. LocalMoves(u)
  <2>1. Resumable(u) \in BOOLEAN
    BY Zenon DEF Resumable
  <2>2. /\ pc[u] = "load" /\ pc' = [pc EXCEPT ![u] = "open"]
        /\ resume' = [resume EXCEPT ![u] = Resumable(u)]
        /\ got' = [got EXCEPT ![u] = got'[u]]
        /\ ~Resumable(u) => got'[u] = got[u]
        /\ UNCHANGED <<sink, presize, tmp, result>>
    BY Zenon DEF Load, Goto, Typed
  <2>3. LocalsOK(u)'
    BY <2>1, <2>2, Zenon DEF LocalsOK, Locals, Typed, Sinking
  <2> QED
    BY <1>3, <2>1, <2>2, <2>3, OwnInodes, Zenon DEF LocalMoves, Typed, Labels
<1> QED
  BY <1>1, <1>2, <1>4 DEF Moves, Load, Typed

LEMMA OpenMoves ==
    ASSUME Typed, Locals, Distinct, UNCHANGED job, NEW u \in Threads, Open(u)
    PROVE  Moves(u)
<1> DEFINE p == Partial(Name(u))
           i == Inode(p)
<1>1. p \in Family(Name(u)) /\ Name(u) \in Dests /\ Size(u) \in Nat
  BY JobType, Zenon DEF Family
<1>2. Exists(p) \/ Unused # {}
  BY Zenon DEF Open, Reusable, Created
<1>3. Mine(Name(u), i) /\ i \in Inodes /\ i # None
  BY <1>1, <1>2, InodeIs, SessionsAssumption, Zenon DEF Mine
<1>4. DirMoves(Name(u))
  BY <1>1, DirSame, DirCreated, Zenon DEF Open, files
<1>5. DataMoves(Name(u))
  BY <1>3, DataSame, DataWritten, EmptyIs, Zenon DEF Open, files
<1>6. /\ pc[u] = "open" /\ pc' = [pc EXCEPT ![u] = "chunks"]
      /\ sink' = [sink EXCEPT ![u] = i]
      /\ UNCHANGED <<got, resume, tmp, result, faults>>
  BY Zenon DEF Open, Goto
<1>7. presize' = presize \/ presize' = [presize EXCEPT ![u] = Size(u) > 0]
  BY Zenon DEF Open
<1> HIDE DEF i
<1>8. LocalsOK(u)'
  BY <1>1, <1>3, <1>6, <1>7, Zenon DEF LocalsOK, Locals, Typed, Sinking, Size
<1>9. /\ presize' \in [Threads -> BOOLEAN]
      /\ \A t \in Threads \ {u} : presize'[t] = presize[t]
  <2> DEFINE b == Size(u) > 0
  <2>1. b \in BOOLEAN /\ (presize' = presize \/ presize' = [presize EXCEPT ![u] = b])
    BY <1>7
  <2> HIDE DEF b
  <2> QED
    BY <2>1, Zenon DEF Typed
<1>10. LocalMoves(u)
  BY <1>3, <1>6, <1>8, <1>9, OwnInodes, Zenon DEF LocalMoves, Typed, Labels
<1> QED
  BY <1>4, <1>5, <1>6, <1>10 DEF Moves, Typed

LEMMA WriteChunkMoves ==
    ASSUME Typed, Locals, Distinct, UNCHANGED job, NEW u \in Threads, WriteChunk(u)
    PROVE  Moves(u)
<1>0. PICK k \in Missing(u) :
          /\ data' = [data EXCEPT ![sink[u]] = Put(Flushed(u), k, job[u].content[k])]
          /\ got' = [got EXCEPT ![u] = @ \cup {k}]
  BY Zenon DEF WriteChunk
<1>1. DirMoves(Name(u))
  BY DirSame, JobType, Zenon DEF WriteChunk
<1>2. k \in Nat /\ k > 0 /\ job[u].content[k] \in Values
  <2>1. k \in 1 .. Size(u)
    BY Zenon DEF Missing, Indices
  <2> QED
    BY <2>1, JobType DEF Size
<1>3. Mine(Name(u), sink[u]) /\ Flushed(u) \in FileSet
  BY OwnInodes, FlushedType, Zenon DEF WriteChunk, Locals, LocalsOK, Sinking
<1>4. /\ pc[u] = "chunks" /\ pc' = [pc EXCEPT ![u] = "save"]
      /\ data' = [data EXCEPT ![sink[u]] = Put(Flushed(u), k, job[u].content[k])]
      /\ presize' = [presize EXCEPT ![u] = FALSE]
      /\ got' = [got EXCEPT ![u] = @ \cup {k}]
      /\ UNCHANGED <<dir, resume, sink, tmp, faults, result>>
  BY <1>0, Zenon DEF WriteChunk, Goto
<1>5. DataMoves(Name(u))
  BY <1>2, <1>3, <1>4, PutIs, DataWritten, Zenon
<1>6. LocalsOK(u)'
  BY <1>4, Zenon DEF LocalsOK, Locals, Typed, Sinking
<1>7. LocalMoves(u)
  BY <1>2, <1>4, <1>6, OwnInodes, Zenon DEF LocalMoves, Typed, Labels
<1> QED
  BY <1>1, <1>4, <1>5, <1>7 DEF Moves, Typed

LEMMA RecvFailsMoves ==
    ASSUME Typed, Locals, Distinct, UNCHANGED job, NEW u \in Threads, RecvFails(u)
    PROVE  Moves(u)
<1>1. DirMoves(Name(u))
  BY DirSame, JobType, Zenon DEF RecvFails
<1>2. DataMoves(Name(u)) /\ LocalMoves(u)
  BY ReturnMoves, Zenon DEF RecvFails, Locals
<1> QED
  BY <1>1, <1>2 DEF Moves, RecvFails, Typed

LEMMA SaveOpenMoves ==
    ASSUME Typed, Locals, Distinct, UNCHANGED job, NEW u \in Threads, SaveOpen(u)
    PROVE  Moves(u)
<1> DEFINE i == Inode(Tmp(Name(u)))
<1>1. Tmp(Name(u)) \in Family(Name(u)) /\ Name(u) \in Dests
  BY JobType, Zenon DEF Family
<1>2. DirMoves(Name(u))
  BY <1>1, DirCreated, Zenon DEF SaveOpen
<1>3. Mine(Name(u), i) /\ i \in Inodes /\ i # None
  BY <1>1, InodeIs, SessionsAssumption, Zenon DEF Mine, SaveOpen, Created
<1>4. DataMoves(Name(u))
  BY <1>3, DataWritten, EmptyIs, Zenon DEF SaveOpen
<1>5. /\ pc[u] = "save" /\ pc' = [pc EXCEPT ![u] = "write"]
      /\ tmp' = [tmp EXCEPT ![u] = i]
      /\ UNCHANGED <<got, resume, sink, presize, faults, result>>
  BY Zenon DEF SaveOpen, Goto
<1> HIDE DEF i
<1>6. LocalsOK(u)'
  BY <1>3, <1>5, Zenon DEF LocalsOK, Locals, Typed, Sinking
<1>7. LocalMoves(u)
  BY <1>3, <1>5, <1>6, OwnInodes, Zenon DEF LocalMoves, Typed, Labels
<1> QED
  BY <1>2, <1>4, <1>5, <1>7 DEF Moves, Typed

LEMMA SaveWriteMoves ==
    ASSUME Typed, Locals, Distinct, UNCHANGED job, NEW u \in Threads, SaveWrite(u)
    PROVE  Moves(u)
<1> DEFINE f == [Empty EXCEPT !.side = [id |-> Manifest(u), got |-> got[u]]]
<1>1. DirMoves(Name(u))
  BY DirSame, JobType, Zenon DEF SaveWrite
<1>2. f \in FileSet
  <2> DEFINE side == [id |-> Manifest(u), got |-> got[u]]
  <2>1. side \in Sides
    BY JobType, Zenon DEF Sides, Manifest, Typed
  <2> HIDE DEF side
  <2>2. [Empty EXCEPT !.side = side] = [bytes |-> <<>>, side |-> side]
    BY DEF Empty
  <2>3. [bytes |-> <<>>, side |-> side] \in FileSet
    BY <2>1 DEF FileSet
  <2> QED
    BY <2>2, <2>3, Zenon DEF side
<1>3. Mine(Name(u), tmp[u])
  BY OwnInodes, Zenon DEF SaveWrite, Locals, LocalsOK
<1>4. DataMoves(Name(u))
  BY <1>2, <1>3, DataWritten, Zenon DEF SaveWrite
<1>5. /\ pc[u] = "write" /\ pc' = [pc EXCEPT ![u] = "rename"]
      /\ tmp' = [tmp EXCEPT ![u] = None]
      /\ UNCHANGED <<got, resume, sink, presize, faults, result>>
  BY Zenon DEF SaveWrite, Goto
<1>6. LocalsOK(u)'
  BY <1>5, Zenon DEF LocalsOK, Locals, Typed, Sinking
<1>7. LocalMoves(u)
  BY <1>5, <1>6, OwnInodes, Zenon DEF LocalMoves, Typed, Labels
<1> QED
  BY <1>1, <1>4, <1>5, <1>7 DEF Moves, Typed

\* A step that changes no local but the place of the thread.
LEMMA GotoMoves ==
    ASSUME Typed, Locals, NEW u \in Threads, UNCHANGED job, NEW label \in Labels, Goto(u, label),
           pc[u] \in Sinking <=> label \in Sinking,
           pc[u] \notin {"idle", "load", "open", "chunks", "write", "done"},
           label \notin {"idle", "load", "open", "write"},
           UNCHANGED <<locals, result>>
    PROVE  LocalMoves(u)
<1>1. pc' = [pc EXCEPT ![u] = label] /\ UNCHANGED <<got, resume, sink, presize, tmp, result>>
  BY Zenon DEF Goto, locals
<1>2. LocalsOK(u)'
  BY <1>1, Zenon DEF LocalsOK, Locals, Typed
<1> QED
  BY <1>1, <1>2, OwnInodes, Zenon DEF LocalMoves, Typed

LEMMA FaultsGrow ==
    ASSUME Typed, NEW a, NEW b, Renamed(a, b) \/ NotRenamed(a)
    PROVE  faults' \in Nat /\ faults' >= faults
BY DEF Typed, Renamed, NotRenamed

LEMMA SaveRenameMoves ==
    ASSUME Typed, Locals, Distinct, UNCHANGED job, NEW u \in Threads, SaveRename(u)
    PROVE  Moves(u)
<1> DEFINE s == State(Name(u))
           x == Tmp(Name(u))
<1>1. s \in Family(Name(u)) /\ x \in Family(Name(u)) /\ x # s /\ Name(u) \in Dests
  BY JobType, FamilyNames, Zenon DEF Family
<1>2. Renamed(x, s) \/ (NotRenamed(x) /\ Removed(s))
  BY Zenon DEF SaveRename
<1>3. pc[u] = "rename" /\ (Goto(u, "chunks") \/ Goto(u, "again")) /\ UNCHANGED <<data, locals, result>>
  BY Zenon DEF SaveRename
<1>4. DirMoves(Name(u))
  BY <1>1, <1>2, DirRenamed, DirRemoved, Zenon
<1>5. LocalMoves(u)
  BY <1>3, GotoMoves, Zenon DEF Sinking, Labels
<1> QED
  BY <1>2, <1>3, <1>4, <1>5, FaultsGrow, DataSame, Zenon DEF Moves

LEMMA SaveRenameAgainMoves ==
    ASSUME Typed, Locals, Distinct, UNCHANGED job, NEW u \in Threads, SaveRenameAgain(u)
    PROVE  Moves(u)
<1> DEFINE s == State(Name(u))
           x == Tmp(Name(u))
<1>1. s \in Family(Name(u)) /\ x \in Family(Name(u)) /\ x # s /\ Name(u) \in Dests
  BY JobType, FamilyNames, Zenon DEF Family
<1>2. Renamed(x, s) \/ (NotRenamed(x) /\ UNCHANGED dir)
  BY Zenon DEF SaveRenameAgain
<1>3. pc[u] = "again" /\ Goto(u, "chunks") /\ UNCHANGED <<data, locals, result>>
  BY Zenon DEF SaveRenameAgain
<1>4. DirMoves(Name(u))
  BY <1>1, <1>2, DirRenamed, DirSame, Zenon
<1>5. LocalMoves(u)
  BY <1>3, GotoMoves, Zenon DEF Sinking, Labels
<1> QED
  BY <1>2, <1>3, <1>4, <1>5, FaultsGrow, DataSame, Zenon DEF Moves

LEMMA VerifyMoves ==
    ASSUME Typed, Locals, Distinct, UNCHANGED job, NEW u \in Threads, Verify(u)
    PROVE  Moves(u)
<1>1. DirMoves(Name(u)) /\ faults' = faults
  BY DirSame, JobType, Zenon DEF Verify
<1>2. CASE ~Verified(u)
  <2>1. DataMoves(Name(u)) /\ LocalMoves(u)
    BY <1>2, ReturnMoves, Zenon DEF Verify, Locals
  <2> QED
    BY <1>1, <2>1 DEF Moves, Typed
<1>3. CASE Verified(u)
  <2>1. Mine(Name(u), sink[u]) /\ Flushed(u) \in FileSet
    BY OwnInodes, FlushedType, Zenon DEF Verify, Locals, LocalsOK, Sinking
  <2>2. /\ pc[u] = "chunks" /\ pc' = [pc EXCEPT ![u] = "finalize"]
        /\ data' = [data EXCEPT ![sink[u]] = Flushed(u)]
        /\ sink' = [sink EXCEPT ![u] = None]
        /\ presize' = [presize EXCEPT ![u] = FALSE]
        /\ UNCHANGED <<got, resume, tmp, result>>
    BY <1>3, Zenon DEF Verify, Goto
  <2>3. DataMoves(Name(u))
    BY <2>1, <2>2, DataWritten, Zenon
  <2>4. LocalsOK(u)'
    BY <2>2, Zenon DEF LocalsOK, Locals, Typed, Sinking
  <2>5. LocalMoves(u)
    BY <2>2, <2>4, OwnInodes, Zenon DEF LocalMoves, Typed, Labels
  <2> QED
    BY <1>1, <2>3, <2>5 DEF Moves, Typed
<1> QED
  BY <1>2, <1>3, Zenon

LEMMA FinalizeMoves ==
    ASSUME Typed, Locals, Distinct, UNCHANGED job, NEW u \in Threads, Finalize(u)
    PROVE  Moves(u)
<1> DEFINE p == Partial(Name(u))
<1>1. p \in Family(Name(u)) /\ Name(u) \in Family(Name(u)) /\ p # Name(u) /\ Name(u) \in Dests
  BY JobType, FamilyNames, Zenon DEF Family
<1>2. Renamed(p, Name(u)) \/ (NotRenamed(p) /\ Removed(Name(u)))
  BY Zenon DEF Finalize
<1>3. pc[u] = "finalize" /\ (Goto(u, "cleanup") \/ Goto(u, "finalize2")) /\ UNCHANGED <<data, locals, result>>
  BY Zenon DEF Finalize
<1>4. DirMoves(Name(u))
  BY <1>1, <1>2, DirRenamed, DirRemoved, Zenon
<1>5. LocalMoves(u)
  BY <1>3, GotoMoves, Zenon DEF Sinking, Labels
<1> QED
  BY <1>2, <1>3, <1>4, <1>5, FaultsGrow, DataSame, Zenon DEF Moves

LEMMA FinalizeAgainMoves ==
    ASSUME Typed, Locals, Distinct, UNCHANGED job, NEW u \in Threads, FinalizeAgain(u)
    PROVE  Moves(u)
<1> DEFINE p == Partial(Name(u))
<1>1. p \in Family(Name(u)) /\ Name(u) \in Family(Name(u)) /\ p # Name(u) /\ Name(u) \in Dests
  BY JobType, FamilyNames, Zenon DEF Family
<1>2. CASE Renamed(p, Name(u)) /\ Goto(u, "cleanup") /\ UNCHANGED <<data, locals, result>>
  <2>1. DirMoves(Name(u))
    BY <1>1, <1>2, DirRenamed, Zenon
  <2>2. LocalMoves(u)
    BY <1>2, GotoMoves, Zenon DEF Sinking, Labels, FinalizeAgain
  <2> QED
    BY <1>2, <2>1, <2>2, FaultsGrow, DataSame, Zenon DEF Moves
<1>3. CASE NotRenamed(p) /\ Return(u, "ERROR") /\ UNCHANGED dir
  <2>1. DirMoves(Name(u))
    BY <1>1, <1>3, DirSame, Zenon
  <2>2. DataMoves(Name(u)) /\ LocalMoves(u)
    BY <1>3, ReturnMoves, Zenon DEF FinalizeAgain, Locals
  <2> QED
    BY <1>3, <2>1, <2>2, FaultsGrow, Zenon DEF Moves
<1> QED
  BY <1>2, <1>3, Zenon DEF FinalizeAgain

LEMMA CleanupMoves ==
    ASSUME Typed, Locals, Distinct, UNCHANGED job, NEW u \in Threads, Cleanup(u)
    PROVE  Moves(u)
<1>1. DirMoves(Name(u))
  BY DirRemoved, JobType, Zenon DEF Cleanup, Family
<1>2. LocalMoves(u)
  BY GotoMoves, Zenon DEF Cleanup, Sinking, Labels
<1> QED
  BY <1>1, <1>2, DataSame DEF Moves, Cleanup, Typed

LEMMA SendAckMoves ==
    ASSUME Typed, Locals, Distinct, UNCHANGED job, NEW u \in Threads, SendAck(u)
    PROVE  Moves(u)
<1>1. DirMoves(Name(u))
  BY DirSame, JobType, Zenon DEF SendAck
<1>2. DataMoves(Name(u)) /\ LocalMoves(u)
  BY ReturnMoves, Zenon DEF SendAck, Locals
<1> QED
  BY <1>1, <1>2 DEF Moves, SendAck, Typed

LEMMA StepMoves ==
    ASSUME Typed, Locals, Distinct, UNCHANGED job, NEW u \in Threads, Step(u)
    PROVE  Moves(u)
BY StartMoves, LoadMoves, OpenMoves, WriteChunkMoves, RecvFailsMoves, SaveOpenMoves,
   SaveWriteMoves, SaveRenameMoves, SaveRenameAgainMoves, VerifyMoves, FinalizeMoves,
   FinalizeAgainMoves, CleanupMoves, SendAckMoves, Zenon DEF Step

-----------------------------------------------------------------------------
(***************************************************************************)
(* What follows for all the threads, and for the other destinations.       *)
(***************************************************************************)
LEMMA MovesTyped ==
    ASSUME Typed, Locals, UNCHANGED job, NEW u \in Threads, Moves(u)
    PROVE  Typed' /\ Locals' /\ Distinct'
<1>1. Typed'
  BY StillNamed, Zenon DEF Typed, Moves, DirMoves, DataMoves, LocalMoves
<1>2. \A t \in Threads \ {u} : LocalsOK(t)'
  BY DEF Locals, LocalsOK, Moves, LocalMoves, Size
<1>3. Locals'
  BY <1>2, Zenon DEF Locals, Moves, LocalMoves
<1> QED
  BY <1>1, <1>3, Zenon DEF Moves, DirMoves

LEMMA UnusedNotHeld ==
    ASSUME Typed, NEW n \in Dests, NEW i \in Inodes, Holds(n, i)
    PROVE  i \notin Unused
BY UnusedIs, FamilyNames, Zenon DEF Holds, Family

LEMMA HeldBefore ==
    ASSUME Typed, UNCHANGED job, NEW u \in Threads, Moves(u),
           NEW n \in Dests, NEW i \in Inodes, Holds(n, i)'
    PROVE  IF n = Name(u) THEN Mine(n, i) ELSE Holds(n, i)
<1>1. (\A t : Name(t)' = Name(t)) /\ Name(u) \in Dests
  BY StillNamed, JobType, Zenon
<1>2. CASE \E a \in Family(n) : dir'[a] = i
  <2>1. PICK a \in Family(n) : dir'[a] = i
    BY <1>2, Zenon
  <2>2. CASE n = Name(u)
    BY <2>1, <2>2, SessionsAssumption, Zenon DEF Moves, DirMoves
  <2>3. CASE n # Name(u)
    <3>1. a \in Names \ Family(Name(u))
      BY <1>1, <2>1, <2>3, FamiliesApart, FamilyNames, Zenon DEF Family
    <3> QED
      BY <2>1, <2>3, <3>1, Zenon DEF Moves, DirMoves, Holds
  <2> QED
    BY <2>2, <2>3, Zenon
<1>3. CASE \E t \in Threads : Name(t) = n /\ (sink'[t] = i \/ tmp'[t] = i)
  <2>1. PICK t \in Threads : Name(t) = n /\ (sink'[t] = i \/ tmp'[t] = i)
    BY <1>3, Zenon
  <2>2. CASE t = u
    BY <2>1, <2>2, SessionsAssumption, Zenon DEF Moves, LocalMoves
  <2>3. CASE t # u
    BY <2>1, <2>3, Zenon DEF Moves, LocalMoves, Holds, Mine
  <2> QED
    BY <2>2, <2>3, Zenon
<1> QED
  BY <1>1, <1>2, <1>3, Zenon DEF Holds, Family

LEMMA MovesApart ==
    ASSUME Typed, Apart, UNCHANGED job, NEW u \in Threads, Moves(u)
    PROVE  Apart'
<1>0. SUFFICES ASSUME NEW m \in Dests, NEW n \in Dests, NEW i \in Inodes,
                      Holds(m, i)', Holds(n, i)', m # n
               PROVE  FALSE
  BY StillNamed, Zenon DEF Apart
<1>1. IF m = Name(u) THEN Mine(m, i) ELSE Holds(m, i)
  BY <1>0, HeldBefore, Zenon
<1>2. IF n = Name(u) THEN Mine(n, i) ELSE Holds(n, i)
  BY <1>0, HeldBefore, Zenon
<1> QED
  BY <1>0, <1>1, <1>2, UnusedNotHeld, Zenon DEF Apart, Mine

LEMMA OthersSame ==
    ASSUME Typed, Apart, UNCHANGED job, NEW u \in Threads, Moves(u),
           NEW n \in Dests, n # Name(u)
    PROVE  /\ \A a \in Family(n) : dir'[a] = dir[a]
           /\ \A i \in Inodes : Holds(n, i) => data'[i] = data[i]
<1>1. Name(u) \in Dests
  BY JobType, Zenon
<1>2. \A a \in Family(n) : a \in Names \ Family(Name(u))
  BY <1>1, FamiliesApart, FamilyNames, Zenon DEF Family
<1>3. \A i \in Inodes : Holds(n, i) => ~Mine(Name(u), i)
  BY <1>1, UnusedNotHeld, Zenon DEF Mine, Apart
<1> QED
  BY <1>2, <1>3, Zenon DEF Moves, DirMoves, DataMoves

LEMMA OthersFine ==
    ASSUME Typed, Locals, Apart, UNCHANGED job, NEW u \in Threads, Moves(u),
           NEW n \in Dests, n # Name(u), Fine(n)
    PROVE  Fine(n)'
<1>1. /\ dir'[n] = dir[n] /\ dir'[Partial(n)] = dir[Partial(n)]
      /\ dir'[State(n)] = dir[State(n)] /\ dir'[Tmp(n)] = dir[Tmp(n)]
  BY OthersSame, Zenon DEF Family
<1>2. \A a \in Family(n) : dir[a] # None => dir[a] \in Inodes /\ data'[dir[a]] = data[dir[a]]
  <2>1. \A a \in Family(n) : dir[a] # None => dir[a] \in Inodes /\ Holds(n, dir[a])
    BY FamilyNames, Zenon DEF Typed, Family, Holds
  <2> QED
    BY <2>1, OthersSame, Zenon
<1>3. /\ dir[n] # None => data'[dir[n]] = data[dir[n]]
      /\ dir[Partial(n)] # None => data'[dir[Partial(n)]] = data[dir[Partial(n)]]
      /\ dir[State(n)] # None => data'[dir[State(n)]] = data[dir[State(n)]]
      /\ dir[Tmp(n)] # None => data'[dir[Tmp(n)]] = data[dir[Tmp(n)]]
  BY <1>2, Zenon DEF Family
<1>4. \A t : Name(t)' = Name(t) /\ Manifest(t)' = Manifest(t) /\ job'[t] = job[t]
  BY Zenon DEF Name, Manifest
<1>5. ASSUME NEW t \in Threads, Name(t) = n
      PROVE  SessionOK(t)' /\ ResultOK(t)'
  <2>1. /\ pc'[t] = pc[t] /\ got'[t] = got[t] /\ resume'[t] = resume[t]
        /\ sink'[t] = sink[t] /\ presize'[t] = presize[t] /\ tmp'[t] = tmp[t]
        /\ result'[t] = result[t]
    BY <1>5, Zenon DEF Moves, LocalMoves
  <2>2. SessionOK(t) /\ ResultOK(t)
    BY <1>5, Zenon DEF Fine
  <2>3. OpenOK(t)'
    BY <1>1, <1>3, <1>4, <1>5, <2>1, <2>2, Zenon DEF SessionOK, OpenOK, Exists, SideOf
  <2>4. SinkOK(t)'
    <3>1. SUFFICES ASSUME pc[t] \in Sinking
                   PROVE  SinkOK(t)'
      BY <2>1, Zenon DEF SinkOK
    <3>2. sink[t] \in Inodes /\ Holds(n, sink[t])
      BY <1>5, <3>1, Zenon DEF Typed, Locals, LocalsOK, Holds
    <3>3. Flushed(t)' = Flushed(t)
      BY <1>4, <2>1, <3>2, OthersSame DEF Flushed, Size
    <3> QED
      BY <1>1, <1>3, <1>4, <1>5, <2>1, <2>2, <3>1, <3>3, ZenonT(60)
         DEF SessionOK, SinkOK, HasChunks, Exists, SideOf
  <2>5. SaveOK(t)'
    BY <1>1, <1>3, <1>4, <1>5, <2>1, <2>2, Zenon DEF SessionOK, SaveOK, Exists
  <2>6. EndOK(t)' /\ ResultOK(t)'
    BY SMTT(60), <1>1, <1>3, <1>4, <1>5, <2>1, <2>2 DEF SessionOK, EndOK, ResultOK, Exists, Moves, Typed
  <2> QED
    BY <2>3, <2>4, <2>5, <2>6, Zenon DEF SessionOK
<1>6. SideOK(n)'
  <2>1. \A t \in Threads : Name(t) = n => pc'[t] = pc[t]
    BY Zenon DEF Moves, LocalMoves
  <2>2. SUFFICES ASSUME Exists(State(n)) PROVE SideOK(n)'
    BY <1>1, Zenon DEF SideOK, Exists
  <2>3. SideOf(n)' = SideOf(n) /\ SideOf(n) # None
    BY <1>1, <1>3, <2>2, Zenon DEF SideOf, Exists, Fine, SideOK
  <2>4. CASE \E t \in Threads : Name(t) = n /\ pc[t] = "cleanup"
    BY <1>4, <2>1, <2>3, <2>4, Zenon DEF SideOK
  <2>5. CASE /\ Exists(Partial(n))
             /\ HasChunks(data[dir[Partial(n)]].bytes, SideOf(n).id, SideOf(n).got)
    BY <1>1, <1>3, <2>3, <2>5, Zenon DEF SideOK, Exists, HasChunks
  <2> QED
    BY <2>2, <2>4, <2>5, Zenon DEF Fine, SideOK
<1>7. Exists(n)' => Whole(n)'
  BY <1>1, <1>3, <1>4, Zenon DEF Fine, Exists, Whole
<1> QED
  BY <1>4, <1>5, <1>6, <1>7, Zenon DEF Fine

-----------------------------------------------------------------------------
(***************************************************************************)
(* A destination with one session at a time: its thread's own steps.       *)
(***************************************************************************)
Running(u) ==
    /\ Typed /\ Locals /\ Distinct /\ Fine(Name(u))
    /\ \A t \in Threads : t # u /\ Name(t) = Name(u) => ~Active(t)

FineStep(n, u) ==
    /\ SessionOK(u)' /\ ResultOK(u)' /\ SideOK(n)'
    /\ Exists(n)' => Whole(n)'
    /\ Exists(n) => Exists(n)' \/ faults' > 0

LEMMA OwnNames ==
    ASSUME Typed, Distinct, NEW n \in Dests
    PROVE  /\ dir[n] \in Inodes \cup {None} /\ dir[Partial(n)] \in Inodes \cup {None}
           /\ dir[State(n)] \in Inodes \cup {None} /\ dir[Tmp(n)] \in Inodes \cup {None}
           /\ dir[n] # None => dir[n] \notin {dir[Partial(n)], dir[State(n)], dir[Tmp(n)]}
           /\ dir[Partial(n)] # None => dir[Partial(n)] \notin {dir[State(n)], dir[Tmp(n)]}
           /\ dir[State(n)] # None => dir[State(n)] # dir[Tmp(n)]
BY FamilyNames, Zenon DEF Typed, Distinct

LEMMA AllChunks ==
    ASSUME NEW bytes \in Seq(Values), NEW c \in Seq(Values), NEW done,
           HasChunks(bytes, c, done), (1 .. Len(c)) \ done = {}
    PROVE  bytes = c
BY DEF HasChunks

LEMMA ChunkAdded ==
    ASSUME NEW f \in FileSet, NEW c \in Seq(Values), NEW done, HasChunks(f.bytes, c, done),
           NEW k \in 1 .. Len(c)
    PROVE  HasChunks(Put(f, k, c[k]).bytes, c, done \cup {k})
<1>1. Len(f.bytes) = Len(c) /\ Len(c) \in Nat /\ done \subseteq 1 .. Len(c)
  BY DEF HasChunks
<1>2. k \in Nat /\ k > 0 /\ c[k] \in Values
  BY <1>1
<1>3. /\ Len(Put(f, k, c[k]).bytes) = IF k >= Len(f.bytes) THEN k ELSE Len(f.bytes)
      /\ Put(f, k, c[k]).bytes[k] = c[k]
      /\ \A j \in 1 .. Len(f.bytes) : j # k => Put(f, k, c[k]).bytes[j] = f.bytes[j]
  BY <1>2, PutIs
<1>4. Len(Put(f, k, c[k]).bytes) = Len(c)
  BY <1>1, <1>3
<1>5. \A j \in done \cup {k} : Put(f, k, c[k]).bytes[j] = c[j]
  BY <1>1, <1>3, Zenon DEF HasChunks
<1> QED
  BY <1>1, <1>4, <1>5, Zenon DEF HasChunks

LEMMA WholeKept ==
    ASSUME UNCHANGED job, NEW n, Exists(n) => Whole(n), dir'[n] = dir[n],
           dir[n] # None => data'[dir[n]] = data[dir[n]]
    PROVE  Exists(n)' => Whole(n)'
BY Zenon DEF Exists, Whole, Name

\* What the sidecar records is in .partial while the thread is not in cleanup.
LEMMA SideHeld ==
    ASSUME NEW u \in Threads, Running(u), Active(u), pc[u] # "cleanup", NEW n, n = Name(u),
           Exists(State(n))
    PROVE  /\ SideOf(n) # None /\ Exists(Partial(n))
           /\ HasChunks(data[dir[Partial(n)]].bytes, SideOf(n).id, SideOf(n).got)
BY Zenon DEF Running, Fine, SideOK, Active

LEMMA SideKept ==
    ASSUME NEW u \in Threads, Running(u), Active(u), pc[u] # "cleanup", NEW n, n = Name(u),
           dir'[State(n)] = dir[State(n)], dir'[Partial(n)] = dir[Partial(n)],
           Exists(State(n)) => /\ data'[dir[State(n)]] = data[dir[State(n)]]
                               /\ data'[dir[Partial(n)]] = data[dir[Partial(n)]]
    PROVE  SideOK(n)' /\ (Exists(State(n)) => SideOf(n)' = SideOf(n))
<1>1. CASE ~Exists(State(n))
  BY <1>1, Zenon DEF SideOK, Exists
<1>2. CASE Exists(State(n))
  <2>1. /\ SideOf(n) # None /\ Exists(Partial(n))
        /\ HasChunks(data[dir[Partial(n)]].bytes, SideOf(n).id, SideOf(n).got)
    BY <1>2, SideHeld, Zenon
  <2>2. SideOf(n)' = SideOf(n)
    BY <1>2, Zenon DEF SideOf
  <2> QED
    BY <1>2, <2>1, <2>2 DEF SideOK, Exists, HasChunks
<1> QED
  BY <1>1, <1>2, Zenon

\* A thread that has ended has nothing left to do right, but its result.
LEMMA DoneOK ==
    ASSUME NEW u \in Threads, pc'[u] = "done"
    PROVE  SessionOK(u)'
BY Zenon DEF SessionOK, OpenOK, SinkOK, SaveOK, EndOK, Sinking

LEMMA NoResultOK ==
    ASSUME NEW u \in Threads, LocalsOK(u)', pc'[u] # "done"
    PROVE  ResultOK(u)'
BY Zenon DEF ResultOK, LocalsOK

LEMMA LoadFine ==
    ASSUME NEW u \in Threads, Running(u), UNCHANGED job, Moves(u), NEW n, n = Name(u), Load(u)
    PROVE  FineStep(n, u)
<1>1. Typed /\ Locals /\ Distinct /\ Fine(n) /\ n \in Dests
  BY JobType, Zenon DEF Running
<1>2. Name(u)' = n /\ Manifest(u)' = Manifest(u)
  BY Zenon DEF Name, Manifest
<1>3. pc'[u] = "open" /\ resume'[u] = Resumable(u) /\ UNCHANGED <<data, faults>> /\ Active(u)
  BY <1>1, Zenon DEF Load, Goto, Typed, Active
<1>4. CASE Resumable(u)
  <2>1. dir' = dir /\ got'[u] = SideOf(n).got
    BY <1>1, <1>4, Zenon DEF Load, SideOf, Typed
  <2>2. Exists(State(n)) /\ SideOf(n) \in Sides /\ SideOf(n).id = Manifest(u)
    BY <1>1, <1>4, OwnNames, Zenon DEF Resumable, Exists, SideOf, Typed, FileSet
  <2>3. SideOf(n) = [id |-> Manifest(u), got |-> got'[u]]
    BY <2>1, <2>2, Zenon DEF Sides
  <2>4. OpenOK(u)'
    BY <1>2, <1>3, <1>4, <2>1, <2>2, <2>3, Zenon DEF OpenOK, Exists, SideOf
  <2>5. SideOK(n)' /\ (Exists(n)' => Whole(n)') /\ (Exists(n) => Exists(n)')
    BY <1>1, <1>3, <2>1, SideKept, WholeKept, Zenon DEF Exists, Fine, Load
  <2> QED
    BY <1>3, <2>4, <2>5, NoResultOK, Zenon
       DEF FineStep, SessionOK, SinkOK, SaveOK, EndOK, Sinking, Moves, LocalMoves
<1>5. CASE ~Resumable(u)
  <2>1. dir'[State(n)] = None /\ dir'[n] = dir[n]
    BY <1>1, <1>5, FamilyNames, Zenon DEF Load, Removed, Typed
  <2>2. OpenOK(u)'
    BY <1>2, <1>3, <1>5, <2>1, Zenon DEF OpenOK, Exists
  <2>3. SideOK(n)' /\ (Exists(n)' => Whole(n)') /\ (Exists(n) => Exists(n)')
    BY <1>1, <1>3, <2>1, WholeKept, Zenon DEF Exists, SideOK, Fine
  <2> QED
    BY <1>3, <2>2, <2>3, NoResultOK, Zenon
       DEF FineStep, SessionOK, SinkOK, SaveOK, EndOK, Sinking, Moves, LocalMoves
<1> QED
  BY <1>4, <1>5, Zenon

LEMMA OpenFine ==
    ASSUME NEW u \in Threads, Running(u), UNCHANGED job, Moves(u), NEW n, n = Name(u), Open(u)
    PROVE  FineStep(n, u)
<1> DEFINE p == Partial(n)
           i == Inode(p)
           c == job[u].content
<1>1. Typed /\ Locals /\ Distinct /\ Fine(n) /\ n \in Dests /\ p \in Family(n)
  BY JobType, Zenon DEF Running, Family
<1>2. Name(u)' = n /\ Manifest(u)' = Manifest(u) /\ job' = job /\ Size(u)' = Size(u)
  BY Zenon DEF Name, Manifest, Size
<1>3. /\ pc[u] = "open" /\ pc'[u] = "chunks" /\ sink'[u] = i
      /\ UNCHANGED <<faults, got, resume>> /\ Active(u)
  BY <1>1, Zenon DEF Open, Goto, Typed, Active
<1>4. SessionOK(u)
  BY <1>1, Zenon DEF Fine
<1>5. SinkOK(u)' => SessionOK(u)' /\ ResultOK(u)'
  BY <1>3, NoResultOK, Zenon DEF SessionOK, OpenOK, SaveOK, EndOK, Moves, LocalMoves
<1>6. CASE resume[u]
  <2>1. Exists(State(n)) /\ SideOf(n) = [id |-> Manifest(u), got |-> got[u]]
    BY <1>3, <1>4, <1>6, Zenon DEF SessionOK, OpenOK
  <2>2. Exists(p) /\ HasChunks(data[dir[p]].bytes, c, got[u])
    BY <1>3, <2>1, SideHeld DEF Manifest
  <2>3. Reusable(u)
    BY <1>1, <1>6, <2>2, JobType DEF Reusable, HasChunks, Size
  <2>4. dir' = dir /\ data' = data /\ presize' = presize /\ i = dir[p]
    BY <2>2, <2>3, Zenon DEF Open, files, Inode
  <2>5. ~presize[u]
    BY <1>1, <1>3, Zenon DEF Locals, LocalsOK
  <2>6. SinkOK(u)'
    <3>1. Flushed(u)' = data[dir[p]]
      BY <1>3, <2>4, <2>5, Zenon DEF Flushed
    <3>2. SideOf(n)' = SideOf(n)
      BY <2>4, Zenon DEF SideOf
    <3> QED
      BY <1>2, <1>3, <2>1, <2>2, <2>4, <2>5, <3>1, <3>2 DEF SinkOK, HasChunks
  <2>7. SideOK(n)' /\ (Exists(n)' => Whole(n)') /\ (Exists(n) => Exists(n)')
    BY <1>1, <1>3, <2>4, SideKept, WholeKept, Zenon DEF Exists, Fine
  <2> QED
    BY <1>5, <2>6, <2>7, Zenon DEF FineStep
<1>7. CASE ~resume[u]
  <2>1. ~Exists(State(n)) /\ got[u] = {}
    BY <1>1, <1>3, <1>4, <1>7, Zenon DEF SessionOK, OpenOK, Locals, LocalsOK
  <2>2. /\ Created(p) /\ data' = [data EXCEPT ![i] = Empty]
        /\ presize' = [presize EXCEPT ![u] = Size(u) > 0]
    BY <1>7, Zenon DEF Open, Reusable
  <2>3. i \in Inodes /\ dir'[p] = i /\ \A a \in Names : a # p => dir'[a] = dir[a]
    BY <1>1, <2>2, InodeIs, FamilyNames, Zenon DEF Created, Mine, Typed
  <2>4. dir[n] # None => dir[n] # i
    <3>1. CASE Exists(p)
      BY <1>1, <3>1, OwnNames, Zenon DEF Inode, Exists
    <3>2. CASE ~Exists(p)
      BY <1>1, <2>2, <3>2, InodeIs, UnusedIs, FamilyNames, Zenon DEF Created
    <3> QED
      BY <3>1, <3>2, Zenon
  <2>5. dir'[n] = dir[n] /\ dir'[State(n)] = None /\ (dir[n] # None => data'[dir[n]] = data[dir[n]])
    BY <1>1, <2>1, <2>2, <2>3, <2>4, FamilyNames, OwnNames, Zenon DEF Exists, Typed
  <2>6. Len(Flushed(u)'.bytes) = Size(u)
    <3>1. data'[i] = Empty /\ Size(u) \in Nat
      BY <1>1, <2>2, <2>3, JobType, Zenon DEF Typed
    <3>2. CASE Size(u) > 0
      <4>1. presize'[u]
        BY <1>1, <2>2, <3>2, Zenon DEF Typed
      <4>2. Flushed(u)' = Put(Empty, Size(u), Zero)
        BY <1>2, <1>3, <3>1, <4>1, Zenon DEF Flushed, Put
      <4>3. Len(Put(Empty, Size(u), Zero).bytes) =
               IF Size(u) >= Len(Empty.bytes) THEN Size(u) ELSE Len(Empty.bytes)
        BY <3>1, <3>2, EmptyIs, PutIs, SessionsAssumption
      <4> QED
        BY <3>1, <4>2, <4>3, EmptyIs
    <3>3. CASE ~(Size(u) > 0)
      <4>1. ~presize'[u]
        BY <1>1, <2>2, <3>3, Zenon DEF Typed
      <4>2. Flushed(u)' = Empty
        BY <1>3, <3>1, <4>1, Zenon DEF Flushed
      <4> QED
        BY <3>1, <3>3, <4>2, EmptyIs
    <3> QED
      BY <3>2, <3>3, Zenon
  <2>7. SinkOK(u)'
    BY <1>2, <1>3, <2>1, <2>3, <2>5, <2>6, Zenon DEF SinkOK, HasChunks, Exists, Size
  <2>8. SideOK(n)' /\ (Exists(n)' => Whole(n)') /\ (Exists(n) => Exists(n)')
    BY <1>1, <2>5, WholeKept, Zenon DEF Exists, SideOK, Fine
  <2> QED
    BY <1>5, <2>7, <2>8, Zenon DEF FineStep
<1> QED
  BY <1>6, <1>7, Zenon

LEMMA WriteChunkFine ==
    ASSUME NEW u \in Threads, Running(u), UNCHANGED job, Moves(u), NEW n, n = Name(u),
           WriteChunk(u)
    PROVE  FineStep(n, u)
<1> DEFINE p == Partial(n)
           c == job[u].content
           f == Flushed(u)
<1>0. PICK k \in Missing(u) :
          /\ data' = [data EXCEPT ![sink[u]] = Put(f, k, c[k])]
          /\ got' = [got EXCEPT ![u] = @ \cup {k}]
  BY Zenon DEF WriteChunk
<1>1. Typed /\ Locals /\ Distinct /\ Fine(n) /\ n \in Dests /\ c \in Seq(Values)
  BY JobType, Zenon DEF Running
<1>2. Name(u)' = n /\ Manifest(u)' = Manifest(u) /\ job' = job
  BY Zenon DEF Name, Manifest
<1>3. k \in 1 .. Len(c)
  BY Zenon DEF Missing, Indices, Size
<1>4. /\ pc[u] = "chunks" /\ pc'[u] = "save" /\ sink'[u] = sink[u] /\ got'[u] = got[u] \cup {k}
      /\ data' = [data EXCEPT ![sink[u]] = Put(f, k, c[k])]
      /\ presize'[u] = FALSE /\ UNCHANGED <<dir, faults>> /\ Active(u)
  BY <1>0, <1>1, Zenon DEF WriteChunk, Goto, Typed, Active
<1>5. /\ sink[u] = dir[p] /\ HasChunks(f.bytes, c, got[u])
      /\ Exists(State(n)) => SideOf(n).id = c /\ ~presize[u]
  BY <1>1, <1>4, Zenon DEF Fine, SessionOK, SinkOK, Sinking, Manifest
<1>6. dir[p] \in Inodes /\ f \in FileSet
  BY <1>1, <1>4, <1>5, FlushedType, Zenon DEF Locals, LocalsOK, Sinking, Typed
<1> HIDE DEF f
<1>7. data'[dir[p]] = Put(f, k, c[k])
  BY <1>1, <1>4, <1>5, <1>6, Zenon DEF Typed
<1>8. /\ dir[n] # None => data'[dir[n]] = data[dir[n]]
      /\ dir[State(n)] # None => data'[dir[State(n)]] = data[dir[State(n)]]
  BY <1>1, <1>4, <1>5, <1>6, OwnNames, ZenonT(60) DEF Typed
<1>9. SinkOK(u)'
  <2>1. Flushed(u)' = Put(f, k, c[k])
    BY <1>4, <1>5, <1>7, Zenon DEF Flushed
  <2>2. HasChunks(Put(f, k, c[k]).bytes, c, got[u] \cup {k})
    BY <1>1, <1>3, <1>5, <1>6, ChunkAdded, Zenon
  <2>3. Exists(State(n))' => SideOf(n)' = SideOf(n)
    BY <1>4, <1>8, Zenon DEF Exists, SideOf
  <2> QED
    BY <1>2, <1>4, <1>5, <2>1, <2>2, <2>3, Zenon DEF SinkOK, HasChunks, Exists, Manifest
<1>10. SessionOK(u)' /\ ResultOK(u)'
  BY <1>4, <1>9, NoResultOK, Zenon DEF SessionOK, OpenOK, SaveOK, EndOK, Moves, LocalMoves
<1>11. SideOK(n)'
  <2>1. SUFFICES ASSUME Exists(State(n)) PROVE SideOK(n)'
    BY <1>4, Zenon DEF SideOK, Exists
  <2>2. SideOf(n) # None /\ Exists(p) /\ HasChunks(data[dir[p]].bytes, SideOf(n).id, SideOf(n).got)
    BY <1>4, <2>1, SideHeld, Zenon
  <2>3. f = data[dir[p]]
    BY <1>5, <2>1, Zenon DEF Flushed, f
  <2>4. HasChunks(Put(f, k, c[k]).bytes, c, SideOf(n).got \cup {k})
    BY <1>1, <1>3, <1>5, <1>6, <2>1, <2>2, <2>3, ChunkAdded, Zenon
  <2>5. HasChunks(data'[dir[p]].bytes, SideOf(n).id, SideOf(n).got)
    BY <1>5, <1>7, <2>1, <2>4, Zenon DEF HasChunks
  <2>6. SideOf(n)' = SideOf(n)
    BY <1>4, <1>8, <2>1, Zenon DEF Exists, SideOf
  <2> QED
    BY <1>4, <2>2, <2>5, <2>6, Zenon DEF SideOK, Exists, HasChunks
<1>12. (Exists(n)' => Whole(n)') /\ (Exists(n) => Exists(n)')
  BY <1>1, <1>4, <1>8, WholeKept, Zenon DEF Fine, Exists
<1> QED
  BY <1>10, <1>11, <1>12, Zenon DEF FineStep

\* Once there is a sidecar, nothing waits in the buffer of the sink: closing it
\* changes no file that a name leads to, but the .partial of a fresh session.
LEMMA ReturnKeeps ==
    ASSUME NEW u \in Threads, Running(u), UNCHANGED job, Active(u), pc[u] # "cleanup",
           NEW n, n = Name(u), NEW how, Return(u, how), UNCHANGED dir
    PROVE  SideOK(n)' /\ (Exists(n)' => Whole(n)') /\ (Exists(n) => Exists(n)')
<1> DEFINE p == Partial(n)
<1>1. Typed /\ Locals /\ Distinct /\ Fine(n) /\ n \in Dests
  BY JobType, Zenon DEF Running
<1>2. CASE sink[u] = None
  <2>1. data' = data
    BY <1>2, Zenon DEF Return
  <2> QED
    BY <1>1, <2>1, SideKept, WholeKept, Zenon DEF Fine, Exists
<1>3. CASE sink[u] # None
  <2>1. pc[u] \in Sinking
    BY <1>1, <1>3, Zenon DEF Locals, LocalsOK
  <2>2. sink[u] = dir[p] /\ (Exists(State(n)) => ~presize[u]) /\ dir[p] \in Inodes
    BY <1>1, <1>3, <2>1, Zenon DEF Fine, SessionOK, SinkOK, Typed
  <2>3. data' = [data EXCEPT ![dir[p]] = Flushed(u)]
    BY <1>3, <2>2, Zenon DEF Return
  <2>4. /\ dir[n] # None => data'[dir[n]] = data[dir[n]]
        /\ dir[State(n)] # None => data'[dir[State(n)]] = data[dir[State(n)]]
    BY <1>1, <2>2, <2>3, OwnNames, Zenon DEF Typed
  <2>5. Exists(State(n)) => data'[dir[p]] = data[dir[p]]
    BY <1>1, <2>2, <2>3, Zenon DEF Flushed, Typed
  <2>6. SideOK(n)'
    BY <2>4, <2>5, SideKept, Zenon DEF Exists
  <2> QED
    BY <1>1, <2>4, <2>6, WholeKept, Zenon DEF Fine, Exists
<1> QED
  BY <1>2, <1>3, Zenon

LEMMA RecvFailsFine ==
    ASSUME NEW u \in Threads, Running(u), UNCHANGED job, NEW n, n = Name(u), RecvFails(u)
    PROVE  FineStep(n, u)
<1>1. Typed /\ pc'[u] = "done" /\ result'[u] = "drop"
  BY Zenon DEF Running, RecvFails, Return, Goto, Typed
<1>2. Active(u) /\ pc[u] # "cleanup" /\ Return(u, "drop") /\ UNCHANGED dir
  BY Zenon DEF RecvFails, Active
<1>3. SideOK(n)' /\ (Exists(n)' => Whole(n)') /\ (Exists(n) => Exists(n)')
  BY <1>2, ReturnKeeps, Zenon
<1> QED
  BY <1>1, <1>3, DoneOK, Zenon DEF FineStep, ResultOK

LEMMA SaveOpenFine ==
    ASSUME NEW u \in Threads, Running(u), UNCHANGED job, Moves(u), NEW n, n = Name(u), SaveOpen(u)
    PROVE  FineStep(n, u)
<1> DEFINE x == Tmp(n)
           i == Inode(x)
<1>1. Typed /\ Locals /\ Distinct /\ Fine(n) /\ n \in Dests /\ x \in Family(n)
  BY JobType, Zenon DEF Running, Family
<1>2. Name(u)' = n /\ Manifest(u)' = Manifest(u) /\ job' = job
  BY Zenon DEF Name, Manifest
<1>3. /\ pc[u] = "save" /\ pc'[u] = "write" /\ tmp'[u] = i /\ Created(x)
      /\ data' = [data EXCEPT ![i] = Empty]
      /\ UNCHANGED <<faults, got, sink, presize>> /\ Active(u)
  BY <1>1, Zenon DEF SaveOpen, Goto, Typed, Active
<1>4. i \in Inodes /\ dir'[x] = i /\ \A a \in Names : a # x => dir'[a] = dir[a]
  BY <1>1, <1>3, InodeIs, FamilyNames, Zenon DEF Created, Mine, Typed
<1>5. /\ dir[n] # None => dir[n] # i
      /\ dir[Partial(n)] # None => dir[Partial(n)] # i
      /\ dir[State(n)] # None => dir[State(n)] # i
  <2>1. CASE Exists(x)
    BY <1>1, <2>1, OwnNames, Zenon DEF Inode, Exists
  <2>2. CASE ~Exists(x)
    BY <1>1, <1>3, <2>2, InodeIs, UnusedIs, FamilyNames, Zenon DEF Created
  <2> QED
    BY <2>1, <2>2, Zenon
<1> HIDE DEF i
<1>6. /\ dir'[n] = dir[n] /\ dir'[Partial(n)] = dir[Partial(n)] /\ dir'[State(n)] = dir[State(n)]
      /\ dir[n] # None => data'[dir[n]] = data[dir[n]]
      /\ dir[Partial(n)] # None => data'[dir[Partial(n)]] = data[dir[Partial(n)]]
      /\ dir[State(n)] # None => data'[dir[State(n)]] = data[dir[State(n)]]
  BY <1>1, <1>3, <1>4, <1>5, FamilyNames, OwnNames, Zenon DEF Typed
<1>7. SinkOK(u) /\ sink[u] # None /\ pc[u] \in Sinking
  BY <1>1, <1>3, Zenon DEF Fine, SessionOK, Locals, LocalsOK, Sinking
<1>8. SideOK(n)' /\ (Exists(State(n)) => SideOf(n)' = SideOf(n))
  BY <1>1, <1>3, <1>6, SideKept, SideHeld, Zenon DEF Exists
<1>9. SinkOK(u)'
  <2>1. Flushed(u)' = Flushed(u)
    BY SMTT(60), <1>2, <1>3, <1>6, <1>7 DEF Flushed, SinkOK, Size
  <2> QED
    BY <1>2, <1>3, <1>6, <1>7, <1>8, <2>1, Zenon DEF SinkOK, HasChunks, Exists
<1>10. SaveOK(u)'
  BY <1>2, <1>3, <1>4, Zenon DEF SaveOK
<1>11. SessionOK(u)' /\ ResultOK(u)'
  BY <1>3, <1>9, <1>10, NoResultOK, Zenon DEF SessionOK, OpenOK, EndOK, Moves, LocalMoves
<1>12. (Exists(n)' => Whole(n)') /\ (Exists(n) => Exists(n)')
  BY <1>1, <1>6, WholeKept, Zenon DEF Fine, Exists
<1> QED
  BY <1>8, <1>11, <1>12, Zenon DEF FineStep

LEMMA SaveWriteFine ==
    ASSUME NEW u \in Threads, Running(u), UNCHANGED job, Moves(u), NEW n, n = Name(u), SaveWrite(u)
    PROVE  FineStep(n, u)
<1> DEFINE x == Tmp(n)
           side == [id |-> Manifest(u), got |-> got[u]]
<1>1. Typed /\ Locals /\ Distinct /\ Fine(n) /\ n \in Dests
  BY JobType, Zenon DEF Running
<1>2. Name(u)' = n /\ Manifest(u)' = Manifest(u) /\ job' = job
  BY Zenon DEF Name, Manifest
<1>3. /\ pc[u] = "write" /\ pc'[u] = "rename"
      /\ data' = [data EXCEPT ![tmp[u]] = [Empty EXCEPT !.side = side]]
      /\ UNCHANGED <<dir, faults, got, sink, presize>> /\ Active(u)
  BY <1>1, Zenon DEF SaveWrite, Goto, Typed, Active
<1>4. SinkOK(u) /\ sink[u] # None /\ pc[u] \in Sinking /\ tmp[u] = dir[x] /\ tmp[u] \in Inodes
  BY <1>1, <1>3, Zenon DEF Fine, SessionOK, SaveOK, Locals, LocalsOK, Sinking, Typed
<1> HIDE DEF side
<1>5. /\ dir[n] # None => data'[dir[n]] = data[dir[n]]
      /\ dir[Partial(n)] # None => data'[dir[Partial(n)]] = data[dir[Partial(n)]]
      /\ dir[State(n)] # None => data'[dir[State(n)]] = data[dir[State(n)]]
      /\ data'[dir[x]] = [Empty EXCEPT !.side = side]
  BY <1>1, <1>3, <1>4, OwnNames DEF Typed
<1>6. SideOK(n)' /\ (Exists(State(n)) => SideOf(n)' = SideOf(n))
  BY SMTT(60), <1>1, <1>3, <1>5, SideKept, SideHeld DEF Exists
<1>7. SinkOK(u)'
  <2>1. Flushed(u)' = Flushed(u)
    BY <1>2, <1>3, <1>4, <1>5 DEF Flushed, SinkOK, Size
  <2> QED
    BY <1>2, <1>3, <1>4, <1>6, <2>1, Zenon DEF SinkOK, HasChunks, Exists
<1>8. SaveOK(u)'
  <2>1. data'[dir[x]].side = side /\ dir[x] # None
    BY <1>4, <1>5, SessionsAssumption, Zenon DEF Empty
  <2> QED
    BY <1>2, <1>3, <2>1, Zenon DEF SaveOK, Exists, side
<1>9. SessionOK(u)' /\ ResultOK(u)'
  BY <1>3, <1>7, <1>8, NoResultOK, Zenon DEF SessionOK, OpenOK, EndOK, Moves, LocalMoves
<1>10. (Exists(n)' => Whole(n)') /\ (Exists(n) => Exists(n)')
  BY <1>1, <1>3, <1>5, WholeKept, Zenon DEF Fine, Exists
<1> QED
  BY <1>6, <1>9, <1>10, Zenon DEF FineStep

\* A rename of the temporary file makes a sidecar that says what .partial has.
LEMMA SavedFine ==
    ASSUME NEW u \in Threads, Running(u), UNCHANGED job, Moves(u), NEW n, n = Name(u),
           pc[u] \in {"rename", "again"}, pc'[u] = "chunks", UNCHANGED <<data, locals>>,
           Renamed(Tmp(n), State(n))
    PROVE  FineStep(n, u)
<1> DEFINE p == Partial(n)
<1>1. Typed /\ Locals /\ Distinct /\ Fine(n) /\ n \in Dests
  BY JobType, Zenon DEF Running
<1>2. Name(u)' = n /\ Manifest(u)' = Manifest(u) /\ job' = job /\ Size(u)' = Size(u)
  BY Zenon DEF Name, Manifest, Size
<1>3. /\ SinkOK(u) /\ pc[u] \in Sinking /\ ~presize[u]
      /\ UNCHANGED <<got, sink, presize>>
  BY <1>1, Zenon DEF Fine, SessionOK, Locals, LocalsOK, Sinking, locals
<1>4. /\ dir[Tmp(n)] # None
      /\ data[dir[Tmp(n)]].side = [id |-> Manifest(u), got |-> got[u]]
  BY <1>1, Zenon DEF Fine, SessionOK, SaveOK, Exists
<1>5. /\ dir'[State(n)] = dir[Tmp(n)] /\ dir'[p] = dir[p] /\ dir'[n] = dir[n]
  BY <1>1, FamilyNames, Zenon DEF Renamed, Typed
<1>6. Exists(State(n))' /\ SideOf(n)' = [id |-> Manifest(u), got |-> got[u]]
  BY <1>4, <1>5, Zenon DEF SideOf, Exists
<1>7. sink[u] = dir[p] /\ dir[p] # None /\ HasChunks(data[dir[p]].bytes, job[u].content, got[u])
  BY <1>1, <1>3, Zenon DEF SinkOK, Flushed, Locals, LocalsOK
<1>8. SinkOK(u)'
  <2>1. Flushed(u)' = data[dir[p]]
    BY <1>3, <1>7, Zenon DEF Flushed
  <2> QED
    BY SMTT(60), <1>2, <1>3, <1>5, <1>6, <1>7, <2>1 DEF SinkOK, HasChunks
<1>9. SessionOK(u)' /\ ResultOK(u)'
  BY <1>8, NoResultOK, Zenon DEF SessionOK, OpenOK, SaveOK, EndOK, Moves, LocalMoves
<1>10. SideOK(n)'
  <2>1. HasChunks(data[dir[p]].bytes, Manifest(u), got[u])
    BY <1>7, Zenon DEF Manifest
  <2>2. SideOf(n)' # None
    <3>1. [id |-> Manifest(u), got |-> got[u]] \in Sides
      BY <1>1, JobType, Zenon DEF Manifest, Sides, Typed
    <3> QED
      BY <1>6, <3>1, SessionsAssumption, Zenon
  <2> QED
    BY SMTT(60), <1>5, <1>6, <1>7, <2>1, <2>2 DEF SideOK, Exists, HasChunks
<1>11. (Exists(n)' => Whole(n)') /\ (Exists(n) => Exists(n)')
  BY <1>1, <1>5, WholeKept, Zenon DEF Fine, Exists
<1> QED
  BY <1>9, <1>10, <1>11, Zenon DEF FineStep

\* When the rename fails, the session goes on with no sidecar or with the one it had.
LEMMA NotSavedFine ==
    ASSUME NEW u \in Threads, Running(u), UNCHANGED job, Moves(u), NEW n, n = Name(u),
           pc[u] \in {"rename", "again"}, pc'[u] \in {"chunks", "again"},
           UNCHANGED <<data, locals>>, UNCHANGED dir \/ Removed(State(n))
    PROVE  FineStep(n, u)
<1> DEFINE p == Partial(n)
<1>1. Typed /\ Locals /\ Distinct /\ Fine(n) /\ n \in Dests
  BY JobType, Zenon DEF Running
<1>2. Name(u)' = n /\ Manifest(u)' = Manifest(u) /\ job' = job /\ Size(u)' = Size(u)
  BY Zenon DEF Name, Manifest, Size
<1>3. /\ SinkOK(u) /\ SaveOK(u) /\ pc[u] \in Sinking /\ pc[u] # "cleanup" /\ Active(u)
      /\ UNCHANGED <<got, sink, presize>>
  BY <1>1, Zenon DEF Fine, SessionOK, Sinking, locals, Active
<1>4. /\ dir'[p] = dir[p] /\ dir'[n] = dir[n] /\ dir'[Tmp(n)] = dir[Tmp(n)]
      /\ dir'[State(n)] # None => dir'[State(n)] = dir[State(n)]
  BY <1>1, FamilyNames, Zenon DEF Removed, Typed
<1>5. SideOK(n)' /\ (Exists(State(n))' => Exists(State(n)) /\ SideOf(n)' = SideOf(n))
  <2>1. CASE dir'[State(n)] = None
    BY <2>1, Zenon DEF SideOK, Exists
  <2>2. CASE dir'[State(n)] = dir[State(n)]
    BY <1>3, <1>4, <2>2, SideKept, Zenon DEF Exists
  <2> QED
    BY <1>4, <2>1, <2>2, Zenon
<1>6. SinkOK(u)'
  <2>1. Flushed(u)' = Flushed(u)
    BY <1>2, <1>3, Zenon DEF Flushed
  <2> QED
    BY <1>2, <1>3, <1>4, <1>5, <2>1, Zenon DEF SinkOK, HasChunks
<1>7. SaveOK(u)'
  BY <1>2, <1>3, <1>4, Zenon DEF SaveOK, Exists
<1>8. SessionOK(u)' /\ ResultOK(u)'
  BY <1>6, <1>7, NoResultOK, Zenon DEF SessionOK, OpenOK, EndOK, Moves, LocalMoves
<1>9. (Exists(n)' => Whole(n)') /\ (Exists(n) => Exists(n)')
  BY <1>1, <1>4, WholeKept, Zenon DEF Fine, Exists
<1> QED
  BY <1>5, <1>8, <1>9, Zenon DEF FineStep

LEMMA SaveRenameFine ==
    ASSUME NEW u \in Threads, Running(u), UNCHANGED job, Moves(u), NEW n, n = Name(u),
           SaveRename(u) \/ SaveRenameAgain(u)
    PROVE  FineStep(n, u)
<1>1. Typed
  BY Zenon DEF Running
<1>2. CASE SaveRename(u)
  BY <1>1, <1>2, SavedFine, NotSavedFine, Zenon DEF SaveRename, Goto, Typed
<1>3. CASE SaveRenameAgain(u)
  BY <1>1, <1>3, SavedFine, NotSavedFine, Zenon DEF SaveRenameAgain, Goto, Typed
<1> QED
  BY <1>2, <1>3, Zenon

LEMMA VerifyFine ==
    ASSUME NEW u \in Threads, Running(u), UNCHANGED job, Moves(u), NEW n, n = Name(u), Verify(u)
    PROVE  FineStep(n, u)
<1> DEFINE p == Partial(n)
           c == job[u].content
           f == Flushed(u)
<1>1. Typed /\ Locals /\ Distinct /\ Fine(n) /\ n \in Dests /\ c \in Seq(Values)
  BY JobType, Zenon DEF Running
<1>2. Name(u)' = n /\ Manifest(u)' = Manifest(u) /\ job' = job
  BY Zenon DEF Name, Manifest
<1>3. /\ pc[u] = "chunks" /\ Active(u) /\ (1 .. Len(c)) \ got[u] = {}
      /\ UNCHANGED <<dir, faults>>
  BY Zenon DEF Verify, Active, Missing, Indices, Size
<1>4. /\ sink[u] = dir[p] /\ dir[p] # None /\ HasChunks(f.bytes, c, got[u])
      /\ Exists(State(n)) => ~presize[u]
  BY <1>1, <1>3, Zenon DEF Fine, SessionOK, SinkOK, Sinking, Locals, LocalsOK
<1>5. dir[p] \in Inodes /\ f \in FileSet
  BY <1>1, <1>3, <1>4, FlushedType, Zenon DEF Locals, LocalsOK, Sinking, Typed
<1>6. f.bytes = c
  <2>1. f.bytes \in Seq(Values)
    BY <1>5, Zenon DEF FileSet
  <2> QED
    BY <1>1, <1>3, <1>4, <2>1, AllChunks, Zenon
<1>7. Verified(u)
  BY <1>4, <1>6, Zenon DEF Verified, Exists
<1>8. pc'[u] = "finalize" /\ data' = [data EXCEPT ![dir[p]] = f]
  BY <1>1, <1>4, <1>7, Zenon DEF Verify, Goto, Typed
<1>9. /\ dir[n] # None => data'[dir[n]] = data[dir[n]]
      /\ dir[State(n)] # None => data'[dir[State(n)]] = data[dir[State(n)]]
      /\ data'[dir[p]] = f
      /\ Exists(State(n)) => f = data[dir[p]]
  BY <1>1, <1>4, <1>5, <1>8, OwnNames, Zenon DEF Typed, Flushed
<1> HIDE DEF f
<1>10. SideOK(n)'
  BY <1>3, <1>9, SideKept, Zenon DEF Exists
<1>11. SessionOK(u)' /\ ResultOK(u)'
  BY <1>2, <1>3, <1>4, <1>6, <1>8, <1>9, NoResultOK, Zenon
     DEF SessionOK, OpenOK, SinkOK, SaveOK, EndOK, Sinking, Exists, Moves, LocalMoves
<1>12. (Exists(n)' => Whole(n)') /\ (Exists(n) => Exists(n)')
  BY <1>1, <1>3, <1>9, WholeKept, Zenon DEF Fine, Exists
<1> QED
  BY <1>10, <1>11, <1>12, Zenon DEF FineStep

\* .partial becomes the destination.
LEMMA DeliveredFine ==
    ASSUME NEW u \in Threads, Running(u), UNCHANGED job, Moves(u), NEW n, n = Name(u),
           pc[u] \in {"finalize", "finalize2"}, pc'[u] = "cleanup", UNCHANGED data,
           Renamed(Partial(n), n)
    PROVE  FineStep(n, u)
<1> DEFINE p == Partial(n)
<1>1. Typed /\ Locals /\ Distinct /\ Fine(n) /\ n \in Dests
  BY JobType, Zenon DEF Running
<1>2. Name(u)' = n /\ job' = job
  BY Zenon DEF Name
<1>3. dir[p] # None /\ data[dir[p]].bytes = job[u].content
  BY <1>1, Zenon DEF Fine, SessionOK, EndOK, Exists
<1>4. dir'[n] = dir[p] /\ dir'[State(n)] = dir[State(n)]
  BY <1>1, FamilyNames, Zenon DEF Renamed, Typed
<1>5. Exists(n)' /\ Whole(n)'
  BY <1>2, <1>3, <1>4, Zenon DEF Exists, Whole
<1>6. SideOK(n)'
  BY <1>1, <1>2, <1>4, Zenon DEF SideOK, SideOf, Exists, Fine
<1>7. SessionOK(u)' /\ ResultOK(u)'
  BY <1>2, <1>5, NoResultOK, Zenon
     DEF SessionOK, OpenOK, SinkOK, SaveOK, EndOK, Sinking, Moves, LocalMoves
<1> QED
  BY <1>5, <1>6, <1>7, Zenon DEF FineStep

LEMMA FinalizeFine ==
    ASSUME NEW u \in Threads, Running(u), UNCHANGED job, Moves(u), NEW n, n = Name(u), Finalize(u)
    PROVE  FineStep(n, u)
<1>1. Typed /\ Locals /\ Distinct /\ Fine(n) /\ n \in Dests
  BY JobType, Zenon DEF Running
<1>2. Name(u)' = n /\ job' = job
  BY Zenon DEF Name
<1>3. CASE Renamed(Partial(n), n) /\ Goto(u, "cleanup")
  BY <1>1, <1>3, DeliveredFine, Zenon DEF Finalize, Goto, Typed
<1>4. CASE NotRenamed(Partial(n)) /\ Removed(n) /\ Goto(u, "finalize2")
  <2>1. pc'[u] = "finalize2" /\ data' = data /\ Active(u) /\ pc[u] # "cleanup"
    BY <1>1, <1>4, Zenon DEF Finalize, Goto, Typed, Active
  <2>2. Exists(Partial(n)) /\ data[dir[Partial(n)]].bytes = job[u].content
    BY <1>1, Zenon DEF Finalize, Fine, SessionOK, EndOK
  <2>3. faults' > 0
    BY SMTT(60), <1>1, <1>4, <2>2 DEF NotRenamed, Typed
  <2>4. dir'[n] = None /\ dir'[Partial(n)] = dir[Partial(n)] /\ dir'[State(n)] = dir[State(n)]
    BY <1>1, <1>4, FamilyNames, Zenon DEF Removed, Typed
  <2>5. SideOK(n)'
    BY <2>1, <2>4, SideKept, Zenon
  <2>6. SessionOK(u)' /\ ResultOK(u)'
    BY <1>2, <2>1, <2>2, <2>3, <2>4, NoResultOK, Zenon
       DEF SessionOK, OpenOK, SinkOK, SaveOK, EndOK, Sinking, Exists, Moves, LocalMoves
  <2> QED
    BY <2>3, <2>4, <2>5, <2>6, Zenon DEF FineStep, Exists
<1> QED
  BY <1>3, <1>4, Zenon DEF Finalize

LEMMA FinalizeAgainFine ==
    ASSUME NEW u \in Threads, Running(u), UNCHANGED job, Moves(u), NEW n, n = Name(u),
           FinalizeAgain(u)
    PROVE  FineStep(n, u)
<1>1. Typed /\ Locals /\ Distinct /\ Fine(n)
  BY Zenon DEF Running
<1>2. CASE Renamed(Partial(n), n) /\ Goto(u, "cleanup") /\ UNCHANGED data
  BY <1>1, <1>2, DeliveredFine, Zenon DEF FinalizeAgain, Goto, Typed
<1>3. CASE NotRenamed(Partial(n)) /\ Return(u, "ERROR") /\ UNCHANGED dir
  <2>1. Active(u) /\ pc[u] # "cleanup" /\ pc'[u] = "done"
    BY <1>1, <1>3, Zenon DEF FinalizeAgain, Active, Return, Goto, Typed
  <2>2. SideOK(n)' /\ (Exists(n)' => Whole(n)') /\ (Exists(n) => Exists(n)')
    BY <1>3, <2>1, ReturnKeeps, Zenon
  <2>3. faults' > 0
    BY SMTT(60), <1>1 DEF FinalizeAgain, Fine, SessionOK, EndOK, Moves, Typed
  <2> QED
    BY <2>1, <2>2, <2>3, DoneOK, Zenon DEF FineStep, ResultOK
<1> QED
  BY <1>2, <1>3, Zenon DEF FinalizeAgain

LEMMA CleanupFine ==
    ASSUME NEW u \in Threads, Running(u), UNCHANGED job, Moves(u), NEW n, n = Name(u), Cleanup(u)
    PROVE  FineStep(n, u)
<1>1. Typed /\ Locals /\ Distinct /\ Fine(n) /\ n \in Dests
  BY JobType, Zenon DEF Running
<1>2. Name(u)' = n /\ job' = job
  BY Zenon DEF Name
<1>3. pc[u] = "cleanup" /\ pc'[u] = "ack" /\ data' = data
  BY <1>1, Zenon DEF Cleanup, Goto, Typed
<1>4. dir'[n] = dir[n] /\ dir'[State(n)] = None
  BY <1>1, FamilyNames, Zenon DEF Cleanup, Removed, Typed
<1>5. Exists(n)
  BY <1>1, <1>3, Zenon DEF Fine, SessionOK, EndOK
<1>6. SessionOK(u)' /\ ResultOK(u)'
  BY <1>2, <1>3, <1>4, <1>5, NoResultOK, Zenon
     DEF SessionOK, OpenOK, SinkOK, SaveOK, EndOK, Sinking, Exists, Moves, LocalMoves
<1>7. SideOK(n)' /\ (Exists(n)' => Whole(n)') /\ (Exists(n) => Exists(n)')
  BY <1>1, <1>3, <1>4, WholeKept, Zenon DEF Fine, Exists, SideOK
<1> QED
  BY <1>6, <1>7, Zenon DEF FineStep

LEMMA SendAckFine ==
    ASSUME NEW u \in Threads, Running(u), UNCHANGED job, Moves(u), NEW n, n = Name(u), SendAck(u)
    PROVE  FineStep(n, u)
<1>1. Typed /\ Locals /\ Distinct /\ Fine(n) /\ Name(u)' = n
  BY Zenon DEF Running, Name
<1>2. /\ pc[u] = "ack" /\ Active(u) /\ pc'[u] = "done"
      /\ result'[u] = "ACK" /\ Return(u, "ACK") /\ UNCHANGED dir
  BY <1>1, Zenon DEF SendAck, Active, Return, Goto, Typed
<1>3. SideOK(n)' /\ (Exists(n)' => Whole(n)') /\ (Exists(n) => Exists(n)')
  BY <1>2, ReturnKeeps, Zenon
<1>4. Exists(n)'
  BY <1>1, <1>2, <1>3, Zenon DEF Fine, SessionOK, EndOK
<1> QED
  BY <1>1, <1>2, <1>3, <1>4, DoneOK, Zenon DEF FineStep, ResultOK

LEMMA StartFine ==
    ASSUME NEW u \in Threads, Running(u), UNCHANGED job, Moves(u), NEW n, n = Name(u), Start(u)
    PROVE  FineStep(n, u)
<1>1. Typed /\ Locals /\ Distinct /\ Fine(n)
  BY Zenon DEF Running
<1>2. \A t : Name(t)' = Name(t)
  BY Zenon DEF Name
<1>3. /\ pc[u] = "idle" /\ pc'[u] = "load" /\ UNCHANGED <<dir, data>>
      /\ \A t \in Threads : t # u => pc'[t] = pc[t]
  BY <1>1, Zenon DEF Start, Goto, files, Typed
<1>4. SessionOK(u)' /\ ResultOK(u)'
  BY <1>3, NoResultOK, Zenon
     DEF SessionOK, OpenOK, SinkOK, SaveOK, EndOK, Sinking, Moves, LocalMoves
<1>5. SideOK(n)'
  <2>1. SideOf(n)' = SideOf(n)
    BY <1>3, Zenon DEF SideOf
  <2> QED
    BY <1>1, <1>2, <1>3, <2>1, Zenon DEF Fine, SideOK, Exists, HasChunks
<1>6. (Exists(n)' => Whole(n)') /\ (Exists(n) => Exists(n)')
  BY <1>1, <1>3, WholeKept, Zenon DEF Fine, Exists
<1> QED
  BY <1>4, <1>5, <1>6, Zenon DEF FineStep

LEMMA StepFine ==
    ASSUME NEW u \in Threads, Running(u), UNCHANGED job, Moves(u), NEW n, n = Name(u), Step(u)
    PROVE  Fine(n)'
<1>1. FineStep(n, u)
  BY StartFine, LoadFine, OpenFine, WriteChunkFine, RecvFailsFine, SaveOpenFine, SaveWriteFine,
     SaveRenameFine, VerifyFine, FinalizeFine, FinalizeAgainFine, CleanupFine, SendAckFine, Zenon DEF Step
<1>2. \A t : Name(t)' = Name(t)
  BY Zenon DEF Name
<1>3. ASSUME NEW t \in Threads, t # u, Name(t) = n
      PROVE  SessionOK(t)' /\ ResultOK(t)'
  <2>1. /\ pc'[t] = pc[t] /\ result'[t] = result[t] /\ pc[t] \in {"idle", "done"}
        /\ faults \in Nat /\ faults' \in Nat /\ faults' >= faults
    BY <1>3, Zenon DEF Moves, LocalMoves, Running, Active, Typed
  <2>2. SessionOK(t)'
    BY <2>1, Zenon DEF SessionOK, OpenOK, SinkOK, SaveOK, EndOK, Sinking
  <2>3. ResultOK(t)'
    BY SMTT(60), <1>1, <1>2, <1>3, <2>1 DEF FineStep, ResultOK, Running, Fine
  <2> QED
    BY <2>2, <2>3, Zenon
<1> QED
  BY <1>1, <1>2, <1>3, Zenon DEF Fine, FineStep

-----------------------------------------------------------------------------
(***************************************************************************)
(* The invariant, and what follows from it.                                *)
(***************************************************************************)
LEMMA SharedGrows ==
    ASSUME NEW u \in Threads, Step(u)
    PROVE  /\ shared \subseteq shared'
           /\ Start(u) \/ (Active(u) /\ shared' = shared)
           /\ Start(u) => \A t \in Threads : t # u /\ Name(t) = Name(u) /\ Active(t) => Name(u) \in shared'
<1>1. CASE Start(u)
  BY <1>1, Zenon DEF Start, Active
<1>2. CASE ~Start(u)
  BY <1>2, Zenon DEF Step, Load, Open, WriteChunk, RecvFails, SaveOpen, SaveWrite, SaveRename,
              SaveRenameAgain, Verify, Finalize, FinalizeAgain, Cleanup, SendAck, Active
<1> QED
  BY <1>1, <1>2, Zenon

LEMMA StepSolo ==
    ASSUME Typed, Solo, UNCHANGED job, NEW u \in Threads, Moves(u), Step(u)
    PROVE  Solo'
<1>0. SUFFICES ASSUME NEW t \in Threads, NEW v \in Threads,
                      Active(t)', Active(v)', Name(t) = Name(v), Name(t) \notin shared', t # v
               PROVE  FALSE
  BY StillNamed DEF Solo
<1>1. \A w \in Threads : w # u => (Active(w)' <=> Active(w))
  BY Zenon DEF Moves, LocalMoves, Active
<1>2. Name(t) \notin shared /\ Name(v) \notin shared
  BY <1>0, SharedGrows, Zenon
<1>3. CASE t = u
  BY <1>0, <1>1, <1>2, <1>3, SharedGrows, Zenon DEF Solo
<1>4. CASE v = u
  BY <1>0, <1>1, <1>2, <1>4, SharedGrows, Zenon DEF Solo
<1>5. CASE t # u /\ v # u
  BY <1>0, <1>1, <1>2, <1>5, Zenon DEF Solo
<1> QED
  BY <1>3, <1>4, <1>5, Zenon

LEMMA SessionsInvInit == SessionsInit => SessionsInv
<1>0. SUFFICES ASSUME SessionsInit PROVE SessionsInv
  OBVIOUS
<1>1. Typed
  BY <1>0, EmptyIs, Zenon DEF SessionsInit, Typed, Labels
<1>2. Locals
  BY <1>0, Zenon DEF SessionsInit, Locals, LocalsOK, Sinking
<1>3. \A n \in Dests : dir[n] = None /\ dir[Partial(n)] = None /\ dir[State(n)] = None /\ dir[Tmp(n)] = None
  BY <1>0, <1>1, FamilyNames, Zenon DEF SessionsInit
<1>4. Distinct
  BY <1>0, Zenon DEF SessionsInit, Distinct
<1>5. Apart
  BY <1>0, <1>3, SessionsAssumption DEF SessionsInit, Apart, Holds, Family
<1>6. Solo
  BY <1>0, Zenon DEF SessionsInit, Solo, Active
<1>7. \A n \in Dests : Fine(n)
  BY <1>0, <1>3, Zenon DEF SessionsInit, Fine, SessionOK, OpenOK, SinkOK, SaveOK, EndOK, ResultOK,
              SideOK, Exists, Sinking
<1> QED
  BY <1>1, <1>2, <1>4, <1>5, <1>6, <1>7, Zenon DEF SessionsInv

LEMMA SessionsInvStep == SessionsInv /\ [SessionsNext]_sessionVars => SessionsInv'
<1>1. ASSUME SessionsInv, UNCHANGED job, NEW u \in Threads, Step(u)
      PROVE  SessionsInv'
  <2>1. Typed /\ Locals /\ Distinct /\ Apart /\ Solo
    BY <1>1, Zenon DEF SessionsInv
  <2>2. Moves(u)
    BY <1>1, <2>1, StepMoves, Zenon
  <2>3. Typed' /\ Locals' /\ Distinct' /\ Apart' /\ Solo'
    BY <1>1, <2>1, <2>2, MovesTyped, MovesApart, StepSolo, Zenon
  <2>4. ASSUME NEW n \in Dests \ shared' PROVE Fine(n)'
    <3>1. n \in Dests /\ n \notin shared /\ Fine(n)
      BY <1>1, <2>4, SharedGrows, Zenon DEF SessionsInv
    <3>2. CASE n # Name(u)
      BY <1>1, <2>1, <2>2, <3>1, <3>2, OthersFine, Zenon
    <3>3. CASE n = Name(u)
      <4>1. \A t \in Threads : t # u /\ Name(t) = n => ~Active(t)
        BY <1>1, <2>1, <2>4, <3>1, <3>3, SharedGrows, Zenon DEF Solo
      <4> QED
        BY <1>1, <2>1, <2>2, <3>1, <3>3, <4>1, StepFine, Zenon DEF Running
    <3> QED
      BY <3>2, <3>3, Zenon
  <2>5. Dests' = Dests
    BY <1>1, <2>1, StillNamed, Zenon
  <2> QED
    BY <2>3, <2>4, <2>5, Zenon DEF SessionsInv
<1>2. ASSUME SessionsInv, UNCHANGED sessionVars
      PROVE  SessionsInv'
  <2>1. UNCHANGED <<job, dir, data, pc, got, resume, sink, presize, tmp, faults, result, shared>>
    BY <1>2, Zenon DEF sessionVars, files, locals
  <2>2. Names' = Names /\ Dests' = Dests /\ \A t : Name(t)' = Name(t)
    BY <2>1, Zenon DEF Names, Dests, Name
  <2>3. Typed'
    BY <1>2, <2>1, <2>2 DEF SessionsInv, Typed
  <2>4. Locals'
    <3>1. \A t : LocalsOK(t)' <=> LocalsOK(t)
      BY <2>1 DEF LocalsOK, Size
    <3> QED
      BY <1>2, <3>1, Zenon DEF SessionsInv, Locals
  <2>5. Distinct' /\ Solo'
    BY <1>2, <2>1, <2>2, Zenon DEF SessionsInv, Distinct, Solo, Active
  <2>6. Apart'
    <3>1. \A n, i : Holds(n, i)' <=> Holds(n, i)
      BY <2>1, <2>2, Zenon DEF Holds
    <3> QED
      BY <1>2, <2>2, <3>1, Zenon DEF SessionsInv, Apart
  <2>7. ASSUME NEW n PROVE Fine(n)' <=> Fine(n)
    <3>1. /\ \A t : Manifest(t)' = Manifest(t) /\ Flushed(t)' = Flushed(t)
          /\ \A m : (Exists(m)' <=> Exists(m)) /\ SideOf(m)' = SideOf(m)
      BY <2>1, Zenon DEF Manifest, Flushed, Size, Exists, SideOf
    <3>2. \A t : (OpenOK(t)' <=> OpenOK(t)) /\ (SaveOK(t)' <=> SaveOK(t)) /\ (EndOK(t)' <=> EndOK(t))
      BY <2>1, <2>2, <3>1, Zenon DEF OpenOK, SaveOK, EndOK
    <3>3. \A t : SinkOK(t)' <=> SinkOK(t)
      BY <2>1, <2>2, <3>1, Zenon DEF SinkOK, HasChunks
    <3>4. \A t : SessionOK(t)' <=> SessionOK(t)
      BY <3>2, <3>3, Zenon DEF SessionOK
    <3>5. \A t : ResultOK(t)' <=> ResultOK(t)
      BY <2>1, Zenon DEF ResultOK, Exists, Name
    <3>6. (SideOK(n)' <=> SideOK(n)) /\ (Exists(n)' <=> Exists(n)) /\ (Whole(n)' <=> Whole(n))
      BY <2>1, Zenon DEF SideOK, SideOf, Exists, HasChunks, Whole, Name
    <3>7. \A t : Name(t)' = Name(t)
      BY <2>1, Zenon DEF Name
    <3> QED
      BY <3>4, <3>5, <3>6, <3>7, Zenon DEF Fine
  <2> QED
    BY <1>2, <2>1, <2>2, <2>3, <2>4, <2>5, <2>6, <2>7, Zenon DEF SessionsInv
<1> QED
  BY <1>1, <1>2, Zenon DEF SessionsNext

LEMMA SessionsInvAlways == SessionsSpec => []SessionsInv
BY SessionsInvInit, SessionsInvStep, PTL DEF SessionsSpec

\* A destination that was never shared is, whenever it exists, one of the contents
\* that were sent to it, however many sessions of this and of other destinations
\* handle_session_ runs beside each other, and whatever renames are refused.
THEOREM DeliveredWholeAlways == SessionsSpec => []DeliveredWhole
<1>1. SessionsInv => DeliveredWhole
  BY Zenon DEF SessionsInv, DeliveredWhole, Alone, Fine, Dests
<1> QED
  BY <1>1, SessionsInvAlways, PTL

\* Without refused renames no session of a destination that was never shared ends
\* in ERROR, whatever earlier sessions and the sessions of others left behind.
THEOREM NobodyFailsAlways == SessionsSpec => []NobodyFails
<1>1. SessionsInv => NobodyFails
  BY DEF SessionsInv, NobodyFails, Alone, Fine, Dests, ResultOK
<1> QED
  BY <1>1, SessionsInvAlways, PTL

\* Without refused renames a destination is there, whole, from the ACK on, for as
\* long as no two sessions have it at the same time.
THEOREM AckedStaysAlways == SessionsSpec => []AckedStays
<1>1. SessionsInv => AckedStays
  BY DEF SessionsInv, AckedStays, Alone, Fine, Dests, ResultOK
<1> QED
  BY <1>1, SessionsInvAlways, PTL

=============================================================================
