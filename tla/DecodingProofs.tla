--------------------------- MODULE DecodingProofs ---------------------------
(***************************************************************************)
(* Proofs about the two formats that are decoded: the state file of        *)
(* ResumeState and the frames of FrameDecoder.                             *)
(*                                                                         *)
(* ResumeState: the bitmap has a bit for every chunk, a mark sets one bit, *)
(* and the bits and the file implement ResumeStore, for any number of      *)
(* chunks and of failing operations.                                       *)
(*                                                                         *)
(* FrameDecoder, for every stream of frames, header size and limit, and    *)
(* every way to cut the stream into feed() calls: what is in buffer_ and   *)
(* what is still to come are together the bytes of the frames that have    *)
(* not been taken.                                                         *)
(***************************************************************************)
EXTENDS ResumeState, FrameDecoder, DataLemmas

-----------------------------------------------------------------------------
(***************************************************************************)
(* ResumeState.                                                            *)
(***************************************************************************)
\* An object as the constructor and load() make them.
Sound(s) ==
    /\ s \in [id : Ids, count : Counts, bitmap : Seq(SUBSET Bits)]
    /\ Len(s.bitmap) = BitmapBytes(s.count)

\* The inductive invariant.  A temporary file that is about to be renamed holds
\* the object that is being saved or, after a write that failed, nothing that
\* loads.
RInv ==
    /\ obj = NoState \/ Sound(obj)
    /\ load(file) = NoState \/ Sound(load(file))
    /\ faults \in Nat
    /\ spc \in {"idle", "flush", "rename", "remove", "rename2"}
    /\ spc # "idle" => obj # NoState
    /\ spc = "flush" => tmp = <<>>
    /\ spc \in {"remove", "rename2"} => faults > 0
    /\ spc \in {"rename", "remove", "rename2"} =>
          \/ load(tmp) = obj
          \/ load(tmp) = NoState /\ faults > 0

-----------------------------------------------------------------------------
(***************************************************************************)
(* The bitmap.                                                             *)
(***************************************************************************)
LEMMA SmallModulus ==
    ASSUME NEW a \in Nat, NEW u \in Nat, a < u
    PROVE  a % u = a
  OBVIOUS

LEMMA BytesEnough ==
    ASSUME NEW n \in Counts
    PROVE  /\ n \in Nat
           /\ BitmapBytes(n) = (n + 7) \div 8
           /\ BitmapBytes(n) \in Nat
           /\ \A i \in 0 .. n - 1 : i \div 8 + 1 \in 1 .. BitmapBytes(n)
<1>1. n \in Nat /\ n + 7 \in Nat /\ n + 7 < U32 /\ U32 \in Nat
  BY ResumeAssumption
<1>2. (n + 7) % U32 = n + 7
  BY <1>1, SmallModulus
<1>3. BitmapBytes(n) = (n + 7) \div 8
  BY <1>2 DEF BitmapBytes
<1>4. (n + 7) \div 8 \in Nat /\ \A i \in 0 .. n - 1 : i \div 8 + 1 \in 1 .. (n + 7) \div 8
  BY <1>1
<1> QED
  BY <1>1, <1>3, <1>4

LEMMA NewSound ==
    ASSUME NEW id \in Ids, NEW n \in Counts
    PROVE  /\ Sound(New(id, n))
           /\ missing(New(id, n)) = 0 .. n - 1
<1> DEFINE b == [k \in 1 .. BitmapBytes(n) |-> {}]
<1>1. b \in Seq(SUBSET Bits) /\ Len(b) = BitmapBytes(n)
  BY BytesEnough
<1>2. New(id, n) = [id |-> id, count |-> n, bitmap |-> b]
  BY DEF New
<1>3. \A i \in 0 .. n - 1 : b[i \div 8 + 1] = {}
  BY BytesEnough
<1> HIDE DEF b
<1>4. Sound(New(id, n))
  BY <1>1, <1>2 DEF Sound
<1>5. \A i \in 0 .. n - 1 : ~is_set(New(id, n), i)
  BY <1>2, <1>3 DEF is_set
<1> QED
  BY <1>2, <1>4, <1>5 DEF missing

\* The bit of a chunk is its own.
LEMMA BitPlace ==
    ASSUME NEW i \in Nat, NEW j \in Nat, i \div 8 = j \div 8, i % 8 = j % 8
    PROVE  i = j
  OBVIOUS

LEMMA MarkExact ==
    ASSUME NEW s, Sound(s), NEW i \in Nat
    PROVE  /\ Sound(mark_received(s, i))
           /\ mark_received(s, i).id = s.id
           /\ mark_received(s, i).count = s.count
           /\ missing(mark_received(s, i)) = missing(s) \ {i}
<1> DEFINE t == mark_received(s, i)
<1>0. s.count \in Counts /\ s.bitmap \in Seq(SUBSET Bits)
  BY DEF Sound
<1>1. s.count \in Counts /\ s.count \in Nat /\ s.bitmap \in Seq(SUBSET Bits)
  BY <1>0, BytesEnough
<1>2. CASE i >= s.count
  <2>1. t = s
    BY <1>2 DEF mark_received
  <2>2. i \notin missing(s)
    BY <1>1, <1>2 DEF missing
  <2> QED
    BY <2>1, <2>2
<1>3. CASE ~(i >= s.count)
  <2> DEFINE k == i \div 8 + 1
             b == [s.bitmap EXCEPT ![k] = @ \cup {i % 8}]
  <2>1. i \in 0 .. s.count - 1 /\ i % 8 \in Bits
    BY <1>1, <1>3 DEF Bits
  <2>2. k \in 1 .. Len(s.bitmap)
    BY <1>1, <2>1, BytesEnough DEF Sound
  <2>3. t = [s EXCEPT !.bitmap = b]
    BY <1>3 DEF mark_received
  <2>4. s.bitmap[k] \in SUBSET Bits
    BY <1>1, <2>2
  <2>5. b \in Seq(SUBSET Bits) /\ Len(b) = Len(s.bitmap)
    BY <1>1, <2>1, <2>2, <2>4
  <2>6. /\ b[k] = s.bitmap[k] \cup {i % 8}
        /\ \A m \in 1 .. Len(s.bitmap) : m # k => b[m] = s.bitmap[m]
    BY <1>1, <2>2
  <2>7. i \div 8 \in Nat
    BY <2>1
  <2> HIDE DEF b
  <2>8. t.id = s.id /\ t.count = s.count /\ t.bitmap = b /\ Sound(t)
    BY <2>3, <2>5 DEF Sound
  <2>9. ASSUME NEW j \in 0 .. s.count - 1
        PROVE  is_set(t, j) <=> is_set(s, j) \/ j = i
    <3>1. /\ j \in Nat /\ j < s.count /\ j \div 8 \in Nat
          /\ j \div 8 + 1 \in 1 .. Len(s.bitmap)
      BY <1>1, <2>9, BytesEnough DEF Sound
    <3>2. /\ is_set(t, j) <=> j % 8 \in b[j \div 8 + 1]
          /\ is_set(s, j) <=> j % 8 \in s.bitmap[j \div 8 + 1]
      BY <2>8, <3>1 DEF is_set
    <3>3. CASE j \div 8 = i \div 8
      <4>1. b[j \div 8 + 1] = s.bitmap[j \div 8 + 1] \cup {i % 8}
        BY <2>6, <3>3
      <4>2. j % 8 = i % 8 => j = i
        BY <2>1, <3>1, <3>3, BitPlace
      <4> QED
        BY <3>2, <4>1, <4>2
    <3>4. CASE j \div 8 # i \div 8
      <4>1. j \div 8 + 1 # k
        BY <2>7, <3>1, <3>4
      <4> QED
        BY <2>6, <3>1, <3>2, <3>4, <4>1
    <3> QED
      BY <3>3, <3>4
  <2> QED
    BY <2>8, <2>9 DEF missing
<1> QED
  BY <1>2, <1>3

-----------------------------------------------------------------------------
(***************************************************************************)
(* The file: load() finds what save() wrote, and nothing in a part of it.  *)
(***************************************************************************)
LEMMA Division ==
    ASSUME NEW n \in Nat
    PROVE  \E q, r \in Nat : n = 256 * q + r /\ r < 256 /\ q = n \div 256
<1>1. n \div 256 \in Nat /\ n % 256 \in Nat /\ n % 256 < 256
  OBVIOUS
<1>2. n = 256 * (n \div 256) + (n % 256)
  OBVIOUS
<1> QED
  BY <1>1, <1>2

LEMMA Quotients ==
    ASSUME NEW n \in Nat
    PROVE  /\ n \div 65536 = (n \div 256) \div 256
           /\ n \div 16777216 = (n \div 65536) \div 256
<1>1. PICK q, r \in Nat : n = 256 * q + r /\ r < 256 /\ q = n \div 256
  BY Division
<1>2. PICK q2, r2 \in Nat : q = 256 * q2 + r2 /\ r2 < 256 /\ q2 = q \div 256
  BY Division
<1>3. PICK q3, r3 \in Nat : q2 = 256 * q3 + r3 /\ r3 < 256 /\ q3 = q2 \div 256
  BY Division
<1>4. n = 65536 * q2 + (256 * r2 + r) /\ 256 * r2 + r \in Nat /\ 256 * r2 + r < 65536
  BY <1>1, <1>2
<1>5. n \div 65536 = q2
  BY <1>4
<1>6. /\ n = 16777216 * q3 + (65536 * r3 + 256 * r2 + r)
      /\ 65536 * r3 + 256 * r2 + r \in Nat
      /\ 65536 * r3 + 256 * r2 + r < 16777216
  BY <1>3, <1>4
<1>7. n \div 16777216 = q3
  BY <1>6
<1> QED
  BY <1>1, <1>2, <1>3, <1>5, <1>7

\* The four bytes of a count, and what they add up to.
Fits32(n) == n \div 16777216 < 256

Sum(n) ==
    (n % 256) + 256 * ((n \div 256) % 256) + 65536 * ((n \div 65536) % 256)
        + 16777216 * ((n \div 16777216) % 256)

LEMMA CountSurvives ==
    ASSUME NEW n \in Nat, Fits32(n)
    PROVE  Sum(n) = n
<1> DEFINE a == n \div 256
           b == n \div 65536
           c == n \div 16777216
<1>1. n = 256 * a + (n % 256) /\ a \in Nat
  BY SMT
<1>2. b = a \div 256 /\ c = b \div 256
  BY Quotients, SMT
<1> HIDE DEF a, b
<1>3. a = 256 * b + (a % 256) /\ b \in Nat
  BY <1>1, <1>2, SMT
<1>4. b = 256 * c + (b % 256) /\ c \in Nat /\ c < 256
  BY <1>2, <1>3, SMT DEF Fits32
<1> HIDE DEF c
<1>5. c % 256 = c
  BY <1>4, SMT
<1>6. (n % 256) + 256 * (a % 256) + 65536 * (b % 256) + 16777216 * (c % 256) = n
  BY <1>1, <1>3, <1>4, <1>5, SMT
<1> QED
  BY <1>6, SMT DEF a, b, c, Sum

\* The set the fields of a file are from.
Fields == {kMagic, kVersion} \cup Ids \cup Nat \cup SUBSET Bits

LEMMA Joined ==
    ASSUME NEW a \in Seq(Fields), NEW b \in Seq(Fields)
    PROVE  /\ a \o b \in Seq(Fields)
           /\ Len(a \o b) = Len(a) + Len(b)
           /\ \A j \in 1 .. Len(a) : (a \o b)[j] = a[j]
           /\ \A j \in 1 .. Len(b) : (a \o b)[Len(a) + j] = b[j]
<1>1. /\ a \o b \in Seq(Fields)
      /\ Len(a \o b) = Len(a) + Len(b)
      /\ \A i \in 1 .. Len(a) + Len(b) :
            (a \o b)[i] = IF i <= Len(a) THEN a[i] ELSE b[i - Len(a)]
  OBVIOUS
<1>2. Len(a) \in Nat /\ Len(b) \in Nat
  OBVIOUS
<1>3. ASSUME NEW j \in 1 .. Len(b)
      PROVE  (a \o b)[Len(a) + j] = b[j]
  <2>1. Len(a) + j \in 1 .. Len(a) + Len(b) /\ ~(Len(a) + j <= Len(a)) /\ Len(a) + j - Len(a) = j
    BY <1>2, <1>3
  <2> QED
    BY <1>1, <2>1
<1>4. ASSUME NEW j \in 1 .. Len(a)
      PROVE  (a \o b)[j] = a[j]
  BY <1>1, <1>2, <1>4
<1> QED
  BY <1>1, <1>3, <1>4

LEMMA WrittenFields ==
    ASSUME NEW s, Sound(s)
    PROVE  /\ Written(s) \in Seq(Fields)
           /\ Len(Written(s)) = 7 + BitmapBytes(s.count)
           /\ Written(s)[1] = kMagic /\ Written(s)[2] = kVersion /\ Written(s)[3] = s.id
           /\ CountIn(Written(s)) = s.count
           /\ \A j \in 1 .. BitmapBytes(s.count) : Written(s)[7 + j] = s.bitmap[j]
           /\ BitmapBytes(s.count) \in Nat
<1> DEFINE n == s.count
           h == <<kMagic, kVersion, s.id>>
           c == <<n % 256, (n \div 256) % 256, (n \div 65536) % 256, (n \div 16777216) % 256>>
           w == Written(s)
<1>1. s.id \in Ids /\ n \in Counts /\ s.bitmap \in Seq(SUBSET Bits)
  BY DEF Sound
<1>2. n \in Nat /\ Fits32(n) /\ BitmapBytes(n) \in Nat
  <2>1. n \in Nat /\ BitmapBytes(n) \in Nat
    BY <1>1, BytesEnough
  <2>2. \A x \in Counts : Fits32(x)
    BY ResumeAssumption, SMT DEF Fits32
  <2> QED
    BY <1>1, <2>1, <2>2
<1>3. h \in Seq(Fields) /\ Len(h) = 3
  BY <1>1 DEF Fields
<1>4. c \in Seq(Nat) /\ Len(c) = 4
  BY <1>2
<1>5. c \in Seq(Fields) /\ s.bitmap \in Seq(Fields)
  BY <1>1, <1>4 DEF Fields
<1>6. w = (h \o c) \o s.bitmap
  BY DEF Written, LittleEndian
<1>7. h[1] = kMagic /\ h[2] = kVersion /\ h[3] = s.id
  OBVIOUS
<1>8. /\ c[1] = n % 256 /\ c[2] = (n \div 256) % 256 /\ c[3] = (n \div 65536) % 256
      /\ c[4] = (n \div 16777216) % 256
  OBVIOUS
<1> DEFINE hc == h \o c
<1>9. hc = h \o c /\ w = hc \o s.bitmap
  BY <1>6
<1> HIDE DEF h, c, w, hc
<1>10. /\ hc \in Seq(Fields) /\ Len(hc) = 3 + Len(c)
       /\ \A j \in 1 .. 3 : hc[j] = h[j]
       /\ \A j \in 1 .. Len(c) : hc[3 + j] = c[j]
  <2>1. h \in Seq(Fields) /\ c \in Seq(Fields)
    BY <1>3, <1>5
  <2>2. /\ h \o c \in Seq(Fields) /\ Len(h \o c) = Len(h) + Len(c)
        /\ \A j \in 1 .. Len(h) : (h \o c)[j] = h[j]
        /\ \A j \in 1 .. Len(c) : (h \o c)[Len(h) + j] = c[j]
    BY <2>1, Joined
  <2> QED
    BY <1>3, <1>9, <2>2
<1>11. Len(hc) = 7 /\ \A j \in 1 .. 4 : hc[3 + j] = c[j]
  BY <1>4, <1>10
<1>12. /\ w \in Seq(Fields) /\ Len(w) = 7 + Len(s.bitmap)
       /\ \A j \in 1 .. 7 : w[j] = hc[j]
       /\ \A j \in 1 .. Len(s.bitmap) : w[7 + j] = s.bitmap[j]
  <2>1. hc \in Seq(Fields) /\ s.bitmap \in Seq(Fields)
    BY <1>5, <1>10
  <2>2. /\ hc \o s.bitmap \in Seq(Fields) /\ Len(hc \o s.bitmap) = Len(hc) + Len(s.bitmap)
        /\ \A j \in 1 .. Len(hc) : (hc \o s.bitmap)[j] = hc[j]
        /\ \A j \in 1 .. Len(s.bitmap) : (hc \o s.bitmap)[Len(hc) + j] = s.bitmap[j]
    BY <2>1, Joined
  <2> QED
    BY <1>9, <1>11, <2>2
<1>13. Len(s.bitmap) = BitmapBytes(n)
  BY DEF Sound
<1>14. /\ w[1] = h[1] /\ w[2] = h[2] /\ w[3] = h[3]
       /\ w[4] = c[1] /\ w[5] = c[2] /\ w[6] = c[3] /\ w[7] = c[4]
  <2>1. \A j \in {1, 2, 3} : j \in 1 .. 3 /\ j \in 1 .. 7
    OBVIOUS
  <2>2. \A j \in {1, 2, 3, 4} : j \in 1 .. 4 /\ 3 + j \in 1 .. 7
    OBVIOUS
  <2>3. \A j \in {1, 2, 3} : w[j] = h[j]
    BY <1>10, <1>12, <2>1, Zenon
  <2>4. \A j \in {1, 2, 3, 4} : w[3 + j] = c[j]
    BY <1>11, <1>12, <2>2, Zenon
  <2>5. w[3 + 1] = c[1] /\ w[3 + 2] = c[2] /\ w[3 + 3] = c[3] /\ w[3 + 4] = c[4]
    BY <2>4, Zenon
  <2>6. w[4] = c[1] /\ w[5] = c[2] /\ w[6] = c[3] /\ w[7] = c[4]
    BY <2>5, 3 + 1 = 4, 3 + 2 = 5, 3 + 3 = 6, 3 + 4 = 7
  <2> QED
    BY <2>3, <2>6
<1>15. CountIn(w) = n
  <2>1. CountIn(w) = c[1] + 256 * c[2] + 65536 * c[3] + 16777216 * c[4]
    <3>1. c[1] \in Nat /\ c[2] \in Nat /\ c[3] \in Nat /\ c[4] \in Nat
      BY <1>2, <1>8, SMT
    <3>2. CountIn(w) = w[4] + 256 * w[5] + 65536 * w[6] + 16777216 * w[7]
      BY SMT DEF CountIn
    <3> QED
      BY <1>14, <3>1, <3>2, SMT
  <2>2. c[1] + 256 * c[2] + 65536 * c[3] + 16777216 * c[4] = n
    <3>1. Sum(n) = n
      BY <1>2, CountSurvives, Zenon
    <3> QED
      BY <1>8, <3>1, SMT DEF Sum
  <2> QED
    BY <2>1, <2>2, SMT
<1>16. BitmapBytes(n) \in Nat
  BY <1>2, SMT
<1> QED
  BY <1>7, <1>12, <1>13, <1>14, <1>15, <1>16, Zenon DEF w

LEMMA LoadWritten ==
    ASSUME NEW s, Sound(s)
    PROVE  load(Written(s)) = s
<1> DEFINE w == Written(s)
           m == BitmapBytes(s.count)
<1>1. /\ w \in Seq(Fields) /\ Len(w) = 7 + m /\ m \in Nat
      /\ w[1] = kMagic /\ w[2] = kVersion /\ w[3] = s.id /\ CountIn(w) = s.count
      /\ \A j \in 1 .. m : w[7 + j] = s.bitmap[j]
  BY WrittenFields
<1>2. w # NoState
  <2>1. NoState \notin Seq(Fields)
    BY FileAssumption, Zenon DEF Fields
  <2> QED
    BY <1>1, <2>1, Zenon
<1>3. s.bitmap \in Seq(SUBSET Bits) /\ Len(s.bitmap) = m
  BY DEF Sound
<1> HIDE DEF w, m
<1>4. SubSeq(w, 8, 7 + m) = s.bitmap
  <2>1. /\ SubSeq(w, 8, 7 + m) \in Seq(Fields) /\ Len(SubSeq(w, 8, 7 + m)) = m
        /\ \A j \in 1 .. m : SubSeq(w, 8, 7 + m)[j] = w[7 + j]
    BY <1>1
  <2> QED
    BY <1>1, <1>3, <2>1
<1>5. load(w) = [id |-> s.id, count |-> s.count, bitmap |-> s.bitmap]
  <2>1. ~(Len(w) < 7) /\ ~(Len(w) < 7 + BitmapBytes(CountIn(w)))
    BY <1>1 DEF m
  <2>2. load(w) = [id |-> w[3], count |-> CountIn(w), bitmap |-> SubSeq(w, 8, 7 + BitmapBytes(CountIn(w)))]
    BY <1>1, <1>2, <2>1 DEF load
  <2> QED
    BY <1>1, <1>4, <2>2 DEF m
<1> QED
  BY <1>5 DEF w, Sound

LEMMA LoadPrefix ==
    ASSUME NEW s, Sound(s), NEW k \in 0 .. Len(Written(s)) - 1
    PROVE  load(Prefix(Written(s), k)) = NoState
<1> DEFINE w == Written(s)
           p == Prefix(w, k)
           m == BitmapBytes(s.count)
<1>1. w \in Seq(Fields) /\ Len(w) = 7 + m /\ m \in Nat /\ CountIn(w) = s.count
  BY WrittenFields
<1>2. k \in Nat /\ k < 7 + m
  BY <1>1
<1>3. Len(p) = k /\ \A j \in 1 .. k : p[j] = w[j]
  BY <1>1, <1>2 DEF Prefix
<1> HIDE DEF w, p, m
<1>4. CASE k < 7
  BY <1>3, <1>4 DEF load, p, w
<1>5. CASE k >= 7
  <2>1. p[4] = w[4] /\ p[5] = w[5] /\ p[6] = w[6] /\ p[7] = w[7]
    BY <1>2, <1>3, <1>5
  <2>2. CountIn(p) = s.count
    BY <1>1, <2>1 DEF CountIn
  <2>3. Len(p) < 7 + BitmapBytes(CountIn(p))
    BY <1>2, <1>3, <2>2 DEF m
  <2> QED
    BY <2>3 DEF load, p, w
<1> QED
  BY <1>2, <1>4, <1>5

-----------------------------------------------------------------------------
(***************************************************************************)
(* The abstraction: a sound object stands for the set of its chunks.       *)
(***************************************************************************)
LEMMA Distinct ==
    /\ load(NoState) = NoState
    /\ Received(NoState) = NoState
    /\ \A s : Sound(s) => s # NoState /\ Received(s) # NoState
<1>1. load(NoState) = NoState /\ Received(NoState) = NoState
  BY DEF load, Received
<1>2. ASSUME NEW s, Sound(s)
      PROVE  s # NoState /\ Received(s) # NoState
  <2>1. s \in [id : Ids, count : Counts, bitmap : Seq(SUBSET Bits)]
    BY <1>2 DEF Sound
  <2>2. s # NoState
    BY <2>1, FileAssumption, Zenon
  <2>3. Received(s) = [id |-> s.id, count |-> s.count, got |-> 0 .. s.count - 1 \ missing(s)]
    BY <2>2 DEF Received
  <2>4. s.id \in Ids /\ s.count \in Counts /\ 0 .. s.count - 1 \ missing(s) \in SUBSET Nat
    BY <2>1, BytesEnough
  <2>5. Received(s) \in [id : Ids, count : Counts, got : SUBSET Nat]
    BY <2>3, <2>4
  <2> QED
    BY <2>2, <2>5, FileAssumption, Zenon
<1> QED
  BY <1>1, <1>2

LEMMA ReceivedNew ==
    ASSUME NEW id \in Ids, NEW n \in Counts
    PROVE  Received(New(id, n)) = [id |-> id, count |-> n, got |-> {}]
<1>1. New(id, n) # NoState /\ missing(New(id, n)) = 0 .. n - 1
  BY NewSound, Distinct
<1>2. New(id, n).id = id /\ New(id, n).count = n
  BY DEF New
<1> QED
  BY <1>1, <1>2 DEF Received

LEMMA ReceivedMarked ==
    ASSUME NEW s, Sound(s), NEW i \in Nat
    PROVE  Received(mark_received(s, i)) =
              [Received(s) EXCEPT !.got = @ \cup ({i} \cap 0 .. Received(s).count - 1)]
<1> DEFINE t == mark_received(s, i)
<1>1. Sound(t) /\ t.id = s.id /\ t.count = s.count /\ missing(t) = missing(s) \ {i}
  BY MarkExact
<1>2. s # NoState /\ t # NoState
  BY <1>1, Distinct
<1>3. Received(s) = [id |-> s.id, count |-> s.count, got |-> 0 .. s.count - 1 \ missing(s)]
  BY <1>2 DEF Received
<1> HIDE DEF t
<1>4. Received(t) = [id |-> s.id, count |-> s.count,
                     got |-> 0 .. s.count - 1 \ (missing(s) \ {i})]
  BY <1>1, <1>2 DEF Received
<1>5. 0 .. s.count - 1 \ (missing(s) \ {i})
        = (0 .. s.count - 1 \ missing(s)) \cup ({i} \cap 0 .. s.count - 1)
  OBVIOUS
<1> QED
  BY <1>3, <1>4, <1>5 DEF t

-----------------------------------------------------------------------------
(***************************************************************************)
(* Every action keeps RInv and is a step, or none, of ResumeStore.         *)
(***************************************************************************)
Simulates == Store!StoreNext \/ UNCHANGED Store!storeVars

LEMMA ConstructSteps ==
    ASSUME RInv, NEW id \in Ids, NEW n \in Counts, Construct(id, n)
    PROVE  RInv' /\ Simulates
<1>1. Sound(obj') /\ Received(obj') = [id |-> id, count |-> n, got |-> {}]
  BY NewSound, ReceivedNew DEF Construct
<1>2. RInv'
  BY <1>1 DEF RInv, Construct
<1>3. Store!Fresh(id, n)
  BY <1>1 DEF Store!Fresh, Construct
<1> QED
  BY <1>2, <1>3 DEF Simulates, Store!StoreNext

LEMMA MarkReceivedSteps ==
    ASSUME RInv, NEW i \in Indices, MarkReceived(i)
    PROVE  /\ RInv' /\ Simulates
           /\ missing(obj') = missing(obj) \ {i}
<1>1. Sound(obj) /\ i \in Nat /\ obj' = mark_received(obj, i)
  BY ResumeAssumption DEF RInv, MarkReceived
<1>2. Sound(obj') /\ missing(obj') = missing(obj) \ {i}
  BY <1>1, MarkExact
<1>3. Received(obj') =
         [Received(obj) EXCEPT !.got = @ \cup ({i} \cap 0 .. Received(obj).count - 1)]
  BY <1>1, ReceivedMarked
<1>4. RInv'
  BY <1>2 DEF RInv, MarkReceived
<1>5. Received(obj) # NoState
  BY <1>1, Distinct
<1>6. Store!Mark(i)
  BY <1>3, <1>5 DEF Store!Mark, MarkReceived
<1> QED
  BY <1>2, <1>4, <1>6 DEF Simulates, Store!StoreNext

LEMMA LoadSteps ==
    ASSUME RInv, Load
    PROVE  RInv' /\ Simulates
<1>1. Sound(load(file)) /\ obj' = load(file) /\ load(file') = load(file)
  BY DEF RInv, Load
<1>2. Received(load(file)) # NoState
  BY <1>1, Distinct
<1>3. RInv'
  BY <1>1 DEF RInv, Load
<1>4. Store!Reload
  BY <1>1, <1>2 DEF Store!Reload, Load
<1> QED
  BY <1>3, <1>4 DEF Simulates, Store!StoreNext

LEMMA RemoveSteps ==
    ASSUME RInv, Remove
    PROVE  RInv' /\ Simulates
<1>1. CASE file' = NoState /\ UNCHANGED faults
  <2>1. load(file') = NoState /\ Received(load(file')) = NoState
    BY <1>1, Distinct
  <2>2. RInv'
    BY <1>1, <2>1 DEF RInv, Remove
  <2>3. Store!Forget
    BY <1>1, <2>1 DEF Store!Forget, Remove
  <2> QED
    BY <2>2, <2>3 DEF Simulates, Store!StoreNext
<1>2. CASE Fault /\ UNCHANGED file
  <2>1. RInv'
    BY <1>2 DEF RInv, Remove, Fault
  <2>2. Store!Fail
    BY <1>2 DEF Store!Fail, Remove, Fault
  <2> QED
    BY <2>1, <2>2 DEF Simulates, Store!StoreNext
<1> QED
  BY <1>1, <1>2 DEF Remove

LEMMA SaveOpenSteps ==
    ASSUME RInv, SaveOpen
    PROVE  RInv' /\ Simulates
<1>1. Sound(obj) /\ Received(obj) # NoState
  BY Distinct DEF RInv, SaveOpen
<1>2. CASE spc' = "flush" /\ tmp' = <<>> /\ UNCHANGED faults
  <2>1. RInv'
    BY <1>2 DEF RInv, SaveOpen
  <2>2. Store!StartSave
    BY <1>1, <1>2 DEF Store!StartSave, SaveOpen
  <2> QED
    BY <2>1, <2>2 DEF Simulates, Store!StoreNext
<1>3. CASE Fault /\ UNCHANGED <<spc, tmp>>
  <2>1. RInv'
    BY <1>3 DEF RInv, SaveOpen, Fault
  <2>2. Store!Fail
    BY <1>3 DEF Store!Fail, SaveOpen, Fault
  <2> QED
    BY <2>1, <2>2 DEF Simulates, Store!StoreNext
<1> QED
  BY <1>2, <1>3 DEF SaveOpen

LEMMA SaveFlushSteps ==
    ASSUME RInv, SaveFlush
    PROVE  RInv' /\ Simulates
<1>1. Sound(obj) /\ tmp = <<>> /\ spc = "flush"
  BY DEF RInv, SaveFlush
<1>2. CASE tmp' = tmp \o Written(obj) /\ spc' = "rename" /\ UNCHANGED faults
  <2>1. Written(obj) \in Seq(Fields)
    BY <1>1, WrittenFields
  <2>2. tmp' = Written(obj)
    BY <1>1, <1>2, <2>1
  <2>3. load(tmp') = obj
    BY <1>1, <2>2, LoadWritten
  <2>4. RInv'
    BY <1>2, <2>3 DEF RInv, SaveFlush
  <2>5. UNCHANGED Store!storeVars
    BY <1>1, <1>2 DEF Store!storeVars, SaveFlush
  <2> QED
    BY <2>4, <2>5 DEF Simulates
<1>3. CASE /\ Fault
           /\ \E k \in 0 .. Len(Written(obj)) - 1 : tmp' = Prefix(Written(obj), k)
           /\ spc' \in {"rename", "idle"}
  <2>1. load(tmp') = NoState
    BY <1>1, <1>3, LoadPrefix
  <2>2. RInv'
    BY <1>3, <2>1 DEF RInv, SaveFlush, Fault
  <2>3. Store!Fail
    BY <1>1, <1>3 DEF Store!Fail, SaveFlush, Fault
  <2> QED
    BY <2>2, <2>3 DEF Simulates, Store!StoreNext
<1> QED
  BY <1>2, <1>3 DEF SaveFlush

\* file' = tmp, at the end of either rename.
LEMMA Renamed ==
    ASSUME RInv, spc \in {"rename", "rename2"}, spc' = "idle", UNCHANGED <<obj, faults>>,
           file' = tmp
    PROVE  RInv' /\ Simulates
<1>1. Sound(obj)
  BY DEF RInv
<1>2. CASE load(tmp) = obj
  <2>1. load(file') = obj
    BY <1>2
  <2>2. RInv'
    BY <1>1, <2>1 DEF RInv
  <2>3. Store!Replace
    BY <2>1 DEF Store!Replace
  <2> QED
    BY <2>2, <2>3 DEF Simulates, Store!StoreNext
<1>3. CASE load(tmp) = NoState /\ faults > 0
  <2>1. load(file') = NoState /\ Received(load(file')) = NoState
    BY <1>3, Distinct
  <2>2. RInv'
    BY <2>1 DEF RInv
  <2>3. Store!Lose
    BY <1>3, <2>1 DEF Store!Lose
  <2> QED
    BY <2>2, <2>3 DEF Simulates, Store!StoreNext
<1> QED
  BY <1>2, <1>3 DEF RInv

LEMMA SaveRenameSteps ==
    ASSUME RInv, SaveRename
    PROVE  RInv' /\ Simulates
<1>1. CASE file' = tmp /\ tmp' = NoState /\ spc' = "idle" /\ UNCHANGED faults
  BY <1>1, Renamed DEF SaveRename
<1>2. CASE Fault /\ spc' = "remove" /\ UNCHANGED <<file, tmp>>
  <2>1. RInv'
    BY <1>2 DEF RInv, SaveRename, Fault
  <2>2. Store!Fail
    BY <1>2 DEF Store!Fail, SaveRename, Fault
  <2> QED
    BY <2>1, <2>2 DEF Simulates, Store!StoreNext
<1> QED
  BY <1>1, <1>2 DEF SaveRename

LEMMA SaveRemoveSteps ==
    ASSUME RInv, SaveRemove
    PROVE  RInv' /\ Simulates
<1>1. load(file') \in {NoState, load(file)}
      /\ Received(load(file')) \in {Received(load(file)), NoState}
  BY Distinct DEF SaveRemove
<1>2. RInv'
  BY <1>1 DEF RInv, SaveRemove
<1>3. Store!Lose
  BY <1>1 DEF Store!Lose, SaveRemove, RInv
<1> QED
  BY <1>2, <1>3 DEF Simulates, Store!StoreNext

LEMMA SaveRenameAgainSteps ==
    ASSUME RInv, SaveRenameAgain
    PROVE  RInv' /\ Simulates
<1>1. CASE file' = tmp /\ tmp' = NoState
  BY <1>1, Renamed DEF SaveRenameAgain
<1>2. CASE UNCHANGED <<file, tmp>>
  <2>1. RInv'
    BY <1>2 DEF RInv, SaveRenameAgain
  <2>2. Store!Lose
    BY <1>2 DEF Store!Lose, SaveRenameAgain, RInv
  <2> QED
    BY <2>1, <2>2 DEF Simulates, Store!StoreNext
<1> QED
  BY <1>1, <1>2 DEF SaveRenameAgain

LEMMA EndSteps ==
    ASSUME RInv, Destroy \/ Kill
    PROVE  RInv' /\ Simulates
<1>1. obj' = NoState /\ spc' = "idle" /\ UNCHANGED <<file, faults>>
  BY DEF Destroy, Kill
<1>2. RInv'
  BY <1>1 DEF RInv
<1>3. Store!EndSession
  BY <1>1, Distinct DEF Store!EndSession
<1> QED
  BY <1>2, <1>3 DEF Simulates, Store!StoreNext

LEMMA NextSteps ==
    ASSUME RInv, ResumeNext
    PROVE  RInv' /\ Simulates
  BY ConstructSteps, MarkReceivedSteps, LoadSteps, RemoveSteps, SaveOpenSteps,
     SaveFlushSteps, SaveRenameSteps, SaveRemoveSteps, SaveRenameAgainSteps, EndSteps
     DEF ResumeNext

LEMMA StutterSteps ==
    ASSUME RInv, UNCHANGED stateVars
    PROVE  RInv' /\ UNCHANGED Store!storeVars
  BY DEF RInv, stateVars, Store!storeVars

LEMMA Start ==
    ASSUME ResumeInit
    PROVE  RInv /\ Store!StoreInit
<1>1. load(file) = NoState
  <2>1. \A f \in InitialFiles : load(f) = NoState
    BY FileAssumption, Zenon
  <2> QED
    BY <2>1, Distinct DEF ResumeInit
<1> QED
  BY <1>1, Distinct DEF ResumeInit, RInv, Store!StoreInit

LEMMA RInvAlways == ResumeSpec => []RInv
<1>1. ResumeInit => RInv
  BY Start
<1>2. RInv /\ [ResumeNext]_stateVars => RInv'
  BY NextSteps, StutterSteps
<1> QED
  BY <1>1, <1>2, PTL DEF ResumeSpec

-----------------------------------------------------------------------------
\* Every chunk has its bit, in the object and in what load() accepts, whatever
\* the number of chunks and wherever a save was cut.
THEOREM BitmapAlwaysCovers == ResumeSpec => []BitmapCovers
<1>1. ASSUME NEW s, Sound(s)
      PROVE  /\ s.count \in Counts
             /\ \A i \in 0 .. s.count - 1 : i \div 8 + 1 \in 1 .. Len(s.bitmap)
  <2>1. s.count \in Counts /\ Len(s.bitmap) = BitmapBytes(s.count)
    BY <1>1 DEF Sound
  <2> QED
    BY <2>1, BytesEnough
<1>2. RInv => BitmapCovers
  BY <1>1, Zenon DEF RInv, BitmapCovers
<1> QED
  BY <1>2, RInvAlways, PTL

\* mark_received takes exactly its chunk off missing(), for every index.
THEOREM MarkAlwaysExact == ResumeSpec => MarkIsExact
<1>1. RInv /\ [ResumeNext]_stateVars =>
         [\A i \in Indices :
             MarkReceived(i) => missing(obj') = missing(obj) \ {i}]_stateVars
  BY MarkReceivedSteps, Zenon
<1> QED
  BY <1>1, RInvAlways, PTL DEF ResumeSpec, MarkIsExact

\* The bitmap, and save() step by step with its kills and failing calls,
\* implement the one stored copy that the receiver relies on.
THEOREM StateImplementsStore == ResumeSpec => ImplementsResumeStore
<1>1. ResumeInit => Store!StoreInit
  BY Start
<1>2. RInv /\ [ResumeNext]_stateVars => [Store!StoreNext]_Store!storeVars
  BY NextSteps, StutterSteps DEF Simulates
<1> QED
  BY <1>1, <1>2, RInvAlways, PTL DEF ResumeSpec, ImplementsResumeStore, Store!StoreSpec

-----------------------------------------------------------------------------
(***************************************************************************)
(* FrameDecoder.                                                           *)
(***************************************************************************)
\* The bytes of a stream.
Bytes == [of : Headers \cup {NoHeader}, at : Nat]

\* The payload of f on the wire.
Body(f) == [j \in 1 .. Len(f.payload) |-> [of |-> NoHeader, at |-> f.payload[j]]]

\* The bytes of all the frames of s but the first k.
Rest(s, k) == Concat([i \in 1 .. Len(s) - k |-> EncodeFrame(s[k + i])])

LEMMA JoinFacts ==
    ASSUME NEW A \in Seq(Bytes), NEW B \in Seq(Bytes)
    PROVE  /\ A \o B \in Seq(Bytes) /\ Len(A \o B) = Len(A) + Len(B)
           /\ \A i \in 1 .. Len(A) + Len(B) :
                 (A \o B)[i] = IF i <= Len(A) THEN A[i] ELSE B[i - Len(A)]
  OBVIOUS

LEMMA JoinAssoc ==
    ASSUME NEW A \in Seq(Bytes), NEW B \in Seq(Bytes), NEW C \in Seq(Bytes)
    PROVE  (A \o B) \o C = A \o (B \o C)
  OBVIOUS

LEMMA SameSeq ==
    ASSUME NEW A \in Seq(Bytes), NEW B \in Seq(Bytes), Len(A) = Len(B),
           \A i \in 1 .. Len(A) : A[i] = B[i]
    PROVE  A = B
  OBVIOUS

LEMMA EncodeFacts ==
    ASSUME NEW f \in WireFrames
    PROVE  /\ HeaderOf(f) \in Headers /\ HeaderOf(f) # NoHeader
           /\ HeaderOf(f).len = Len(f.payload) /\ Len(f.payload) \in Nat
           /\ EncodeTo(HeaderOf(f)) \in Seq(Bytes)
           /\ Len(EncodeTo(HeaderOf(f))) = kHeaderSize
           /\ EncodeTo(HeaderOf(f))[1].of = HeaderOf(f)
           /\ Body(f) \in Seq(Bytes) /\ Len(Body(f)) = Len(f.payload)
           /\ Payload(Body(f)) = f.payload
           /\ EncodeFrame(f) = EncodeTo(HeaderOf(f)) \o Body(f)
           /\ EncodeFrame(f) \in Seq(Bytes)
<1> DEFINE h == HeaderOf(f)
           e == EncodeTo(h)
           b == Body(f)
           p == f.payload
<1>1. f.payload \in Seq(Nat) /\ f.type \in Types /\ f.crc \in BOOLEAN
  BY DEF WireFrames
<1>2. h \in Headers /\ h.len = Len(p) /\ Len(p) \in Nat
  BY <1>1 DEF HeaderOf, Headers
<1>3. h # NoHeader
  BY <1>2, HeaderAssumption
<1>4. kHeaderSize \in Nat /\ 1 \in 1 .. kHeaderSize
  BY HeaderAssumption
<1> HIDE DEF h
<1>5. e \in [1 .. kHeaderSize -> Bytes] /\ e[1].of = h
  <2>1. e = [j \in 1 .. kHeaderSize |-> [of |-> h, at |-> j]]
    BY DEF EncodeTo
  <2>2. \A j \in 1 .. kHeaderSize : [of |-> h, at |-> j] \in Bytes
    BY <1>2 DEF Bytes
  <2> QED
    BY <1>4, <2>1, <2>2
<1>6. b \in [1 .. Len(p) -> Bytes] /\ \A j \in 1 .. Len(p) : b[j].at = p[j]
  <2>1. b = [j \in 1 .. Len(p) |-> [of |-> NoHeader, at |-> p[j]]]
    BY DEF Body
  <2>2. \A j \in 1 .. Len(p) : [of |-> NoHeader, at |-> p[j]] \in Bytes
    BY <1>1 DEF Bytes
  <2> QED
    BY <2>1, <2>2
<1>7. EncodeFrame(f) = e \o b
  BY DEF EncodeFrame, Body, h
<1> HIDE DEF e, b
<1>8. e \in Seq(Bytes) /\ Len(e) = kHeaderSize
  BY <1>4, <1>5
<1>9. b \in Seq(Bytes) /\ Len(b) = Len(p)
  BY <1>2, <1>6
<1>10. Payload(b) = p
  <2>1. DOMAIN b = 1 .. Len(p)
    BY <1>6
  <2>2. Payload(b) = [j \in 1 .. Len(p) |-> p[j]]
    BY <1>6, <2>1 DEF Payload
  <2> QED
    BY <1>1, <2>2
<1>11. e \o b \in Seq(Bytes)
  BY <1>8, <1>9
<1> QED
  BY <1>2, <1>3, <1>5, <1>7, <1>8, <1>9, <1>10, <1>11 DEF h, e, b

\* The stream begins with the next frame's bytes, and goes on after it.
LEMMA RestFacts ==
    ASSUME NEW s \in Seq(WireFrames), NEW k \in 0 .. Len(s)
    PROVE  /\ Rest(s, k) \in Seq(Bytes)
           /\ k = Len(s) => Rest(s, k) = <<>>
           /\ k < Len(s) => Rest(s, k) = EncodeFrame(s[k + 1]) \o Rest(s, k + 1)
<1> DEFINE N == Len(s)
           parts(m) == [i \in 1 .. N - m |-> EncodeFrame(s[m + i])]
<1>1. N \in Nat /\ k \in Nat /\ k <= N
  OBVIOUS
<1>2. ASSUME NEW m \in 0 .. N
      PROVE  parts(m) \in Seq(Seq(Bytes)) /\ Len(parts(m)) = N - m
  <2>1. ASSUME NEW i \in 1 .. N - m PROVE EncodeFrame(s[m + i]) \in Seq(Bytes)
    <3>1. s[m + i] \in WireFrames
      BY <1>1
    <3> QED
      BY <3>1, EncodeFacts
  <2> DEFINE g == parts(m)
  <2>2. g \in [1 .. N - m -> Seq(Bytes)] /\ N - m \in Nat
    BY <1>1, <2>1
  <2> HIDE DEF g
  <2>3. g \in Seq(Seq(Bytes)) /\ Len(g) = N - m
    BY <2>2
  <2> QED
    BY <2>3 DEF g
<1>3. Rest(s, k) = Concat(parts(k)) /\ Rest(s, k + 1) = Concat(parts(k + 1))
  BY DEF Rest
<1>4. Rest(s, k) \in Seq(Bytes)
  <2> HIDE DEF parts
  <2> QED
    BY <1>2, <1>3, ConcatType
<1>5. ASSUME k = N PROVE Rest(s, k) = <<>>
  <2>1. parts(k) = <<>>
    BY <1>1, <1>5
  <2> QED
    BY <1>3, <2>1, ConcatEmpty
<1>6. ASSUME k < N PROVE Rest(s, k) = EncodeFrame(s[k + 1]) \o Rest(s, k + 1)
  <2> DEFINE x == EncodeFrame(s[k + 1])
             p == parts(k + 1)
             q == parts(k)
  <2>1. p \in Seq(Seq(Bytes)) /\ Len(p) = N - k - 1 /\ q \in Seq(Seq(Bytes)) /\ Len(q) = N - k
    <3>1. k + 1 \in 0 .. N /\ k \in 0 .. N /\ N - (k + 1) = N - k - 1
      BY <1>1, <1>6
    <3> HIDE DEF parts
    <3> QED
      BY <1>2, <3>1
  <2>2. x \in Seq(Bytes)
    <3>1. s[k + 1] \in WireFrames
      BY <1>1, <1>6
    <3> QED
      BY <3>1, EncodeFacts
  <2>3. q[1] = x
    BY <1>1, <1>6
  <2>4. ASSUME NEW i \in 1 .. N - k - 1 PROVE q[i + 1] = p[i]
    <3>1. i + 1 \in 1 .. N - k /\ i \in 1 .. N - (k + 1) /\ k + (i + 1) = (k + 1) + i
      BY <1>1
    <3>2. q[i + 1] = EncodeFrame(s[k + (i + 1)]) /\ p[i] = EncodeFrame(s[(k + 1) + i])
      BY <3>1, Zenon
    <3> QED
      BY <3>1, <3>2, Zenon
  <2> HIDE DEF x, p, q
  <2>5. q = <<x>> \o p
    BY <1>1, <1>6, <2>1, <2>2, <2>3, <2>4
  <2>6. Concat(<<x>> \o p) = x \o Concat(p)
    BY <2>1, <2>2, ConcatCons
  <2> QED
    BY <1>3, <2>5, <2>6, Zenon DEF x, p, q
<1> QED
  BY <1>4, <1>5, <1>6

\* A prefix C of A \o B that lies within A: what consuming it leaves.
LEMMA CutPrefix ==
    ASSUME NEW A \in Seq(Bytes), NEW B \in Seq(Bytes), NEW C \in Seq(Bytes), NEW D \in Seq(Bytes),
           A \o B = C \o D, Len(A) >= Len(C)
    PROVE  /\ SubSeq(A, 1, Len(C)) = C
           /\ Suffix(A, Len(C)) \in Seq(Bytes)
           /\ Suffix(A, Len(C)) \o B = D
<1> DEFINE a == Len(A)
           b == Len(B)
           c == Len(C)
           S == Suffix(A, c)
<1>1. a \in Nat /\ b \in Nat /\ c \in Nat /\ Len(D) \in Nat /\ a >= c
  OBVIOUS
<1>2. /\ Len(A \o B) = a + b /\ Len(C \o D) = c + Len(D)
      /\ \A i \in 1 .. a + b : (A \o B)[i] = IF i <= a THEN A[i] ELSE B[i - a]
      /\ \A i \in 1 .. c + Len(D) : (C \o D)[i] = IF i <= c THEN C[i] ELSE D[i - c]
  BY JoinFacts, Zenon
<1>3. Len(D) = a + b - c
  BY <1>1, <1>2
<1>4. /\ \A i \in 1 .. c : A[i] = C[i]
      /\ \A i \in 1 .. a - c : A[i + c] = D[i]
      /\ \A i \in a - c + 1 .. a + b - c : B[(i + c) - a] = D[i]
  <2> HIDE DEF a, b, c
  <2>1. ASSUME NEW i \in 1 .. c PROVE A[i] = C[i]
    <3>1. i \in 1 .. a + b /\ i \in 1 .. c + Len(D) /\ i <= a /\ i <= c
      BY <1>1, <1>3
    <3> QED
      BY <1>2, <3>1, Zenon
  <2>2. ASSUME NEW i \in 1 .. a - c PROVE A[i + c] = D[i]
    <3>1. /\ i + c \in 1 .. a + b /\ i + c \in 1 .. c + Len(D) /\ i + c <= a
          /\ ~(i + c <= c) /\ (i + c) - c = i
      BY <1>1, <1>3
    <3> QED
      BY <1>2, <3>1, Zenon
  <2>3. ASSUME NEW i \in a - c + 1 .. a + b - c PROVE B[(i + c) - a] = D[i]
    <3>1. /\ i + c \in 1 .. a + b /\ i + c \in 1 .. c + Len(D) /\ ~(i + c <= a)
          /\ ~(i + c <= c) /\ (i + c) - c = i
      BY <1>1, <1>3
    <3>2. (A \o B)[i + c] = B[(i + c) - a]
      BY <1>2, <3>1, Zenon
    <3>3. (C \o D)[i + c] = D[i]
      BY <1>2, <3>1, Zenon
    <3> QED
      BY <3>2, <3>3
  <2> QED
    BY <2>1, <2>2, <2>3
<1>5. SubSeq(A, 1, c) = C
  <2>1. /\ SubSeq(A, 1, c) \in Seq(Bytes) /\ Len(SubSeq(A, 1, c)) = c
        /\ \A i \in 1 .. c : SubSeq(A, 1, c)[i] = A[i]
    BY <1>1
  <2> QED
    BY <1>4, <2>1, SameSeq, Zenon
<1>6. S \in Seq(Bytes) /\ Len(S) = a - c /\ \A i \in 1 .. a - c : S[i] = A[i + c]
  BY <1>1 DEF Suffix
<1> HIDE DEF S
<1>7. S \o B = D
  <2>1. S \o B \in Seq(Bytes) /\ Len(S \o B) = a + b - c
    <3>1. S \o B \in Seq(Bytes) /\ Len(S \o B) = Len(S) + b
      BY <1>6, JoinFacts, Zenon
    <3> QED
      BY <1>1, <1>6, <3>1
  <2>2. ASSUME NEW i \in 1 .. a + b - c PROVE (S \o B)[i] = D[i]
    <3>1. (S \o B)[i] = IF i <= a - c THEN S[i] ELSE B[i - (a - c)]
      <4>1. i \in 1 .. Len(S) + b
        BY <1>1, <1>6
      <4>2. \A m \in 1 .. Len(S) + b :
               (S \o B)[m] = IF m <= Len(S) THEN S[m] ELSE B[m - Len(S)]
        <5>1. S \in Seq(Bytes)
          BY <1>6
        <5> QED
          BY <5>1, JoinFacts, Zenon
      <4> QED
        BY <1>6, <4>1, <4>2
    <3>2. CASE i <= a - c
      BY <1>1, <1>4, <1>6, <3>1, <3>2
    <3>3. CASE ~(i <= a - c)
      <4>1. i \in a - c + 1 .. a + b - c /\ i - (a - c) = (i + c) - a
        BY <1>1, <3>3
      <4> QED
        BY <1>4, <3>1, <3>3, <4>1
    <3> QED
      BY <3>2, <3>3
  <2> QED
    BY <1>3, <2>1, <2>2, SameSeq, Zenon
<1> QED
  BY <1>5, <1>6, <1>7 DEF S

-----------------------------------------------------------------------------
(***************************************************************************)
(* The invariant: n frames have been taken, w is still to come.            *)
(***************************************************************************)
Reasons == {"BadCrc", "UnknownType", "PayloadTooLarge"}

Good(f) == FrameStream!Good(f)

\* Between two frames, before a payload is complete or after, and for good at a
\* header that does not hold.
Fits(s, e, b, p, w, n) ==
    \/ /\ s = "ReadingHeader" /\ e = "None" /\ p = NoHeader
       /\ b \o w = Rest(script, n)
    \/ /\ s \in {"ReadingPayload", "FrameReady"} /\ e = "None"
       /\ n < Len(script) /\ Good(script[n + 1])
       /\ p = HeaderOf(script[n + 1])
       /\ b \o w = Body(script[n + 1]) \o Rest(script, n + 1)
       /\ s = "FrameReady" => Len(b) >= p.len
    \/ /\ s = "Poisoned" /\ e \in Reasons /\ p = NoHeader
       /\ n < Len(script) /\ ~Good(script[n + 1])

DecoderInv ==
    /\ script \in Scripts
    /\ wire \in Seq(Bytes) /\ buffer \in Seq(Bytes)
    /\ Len(taken) \in 0 .. Len(script)
    /\ taken \in Seq([type : Types, payload : Seq(Nat)])
    /\ \A i \in 1 .. Len(taken) :
          Good(script[i]) /\ taken[i] = FrameStream!Content(script[i])
    /\ Fits(state, lastError, buffer, pending, wire, Len(taken))

\* decode_from accepts the header of a frame exactly if the frame is good.
LEMMA DecodeVerdict ==
    ASSUME NEW f \in WireFrames
    PROVE  LET r == DecodeFrom(EncodeTo(HeaderOf(f))) IN
           (Good(f) /\ r = "None") \/ (~Good(f) /\ r \in Reasons)
<1> DEFINE h == HeaderOf(f)
           e == EncodeTo(h)
<1>1. h # NoHeader /\ e[1].of = h
  BY EncodeFacts
<1>2. h.crc = f.crc /\ h.type = f.type /\ h.len = Len(f.payload) /\ Len(f.payload) \in Nat
  BY EncodeFacts DEF HeaderOf
<1>3. Good(f) <=> h.crc /\ h.type \in KnownTypes /\ h.len <= MaxPayload
  BY <1>2 DEF Good, FrameStream!Good
<1>4. MaxPayload \in Nat
  BY HeaderAssumption
<1> HIDE DEF h, e
<1>5. DecodeFrom(e) = IF ~h.crc THEN "BadCrc"
                      ELSE IF h.type \notin KnownTypes THEN "UnknownType"
                      ELSE IF h.len > MaxPayload THEN "PayloadTooLarge" ELSE "None"
  BY <1>1 DEF DecodeFrom, e
<1>6. (h.len > MaxPayload) <=> ~(h.len <= MaxPayload)
  BY <1>2, <1>4
<1>7. (Good(f) /\ DecodeFrom(e) = "None") \/ (~Good(f) /\ DecodeFrom(e) \in Reasons)
  BY <1>3, <1>5, <1>6 DEF Reasons
<1> QED
  BY <1>7 DEF e, h

Dec(s, e, b, p) == [state |-> s, lastError |-> e, buffer |-> b, pending |-> p]

FitsAs(d, w, n) ==
    /\ d.buffer \in Seq(Bytes)
    /\ Fits(d.state, d.lastError, d.buffer, d.pending, w, n)

LEMMA FitsDec ==
    ASSUME NEW s, NEW e, NEW b \in Seq(Bytes), NEW p, NEW w, NEW n, Fits(s, e, b, p, w, n)
    PROVE  FitsAs(Dec(s, e, b, p), w, n)
  BY Zenon DEF FitsAs, Dec

\* The second turn of drive_()'s loop.
LEMMA AwaitFits ==
    ASSUME script \in Seq(WireFrames), NEW n \in 0 .. Len(script),
           NEW s, NEW e, NEW b \in Seq(Bytes), NEW p, NEW w \in Seq(Bytes),
           Fits(s, e, b, p, w, n)
    PROVE  FitsAs(AwaitPayload(Dec(s, e, b, p)), w, n)
<1> DEFINE d == Dec(s, e, b, p)
<1>1. d.state = s /\ d.buffer = b /\ d.pending = p
  BY DEF Dec
<1>2. CASE s = "ReadingPayload" /\ Len(b) >= p.len
  <2>1. AwaitPayload(d) = Dec("FrameReady", e, b, p)
    BY <1>2 DEF AwaitPayload, Dec
  <2>2. Fits("FrameReady", e, b, p, w, n)
    BY <1>2, Zenon DEF Fits
  <2> QED
    BY <2>1, <2>2, FitsDec, Zenon
<1>3. CASE ~(s = "ReadingPayload" /\ Len(b) >= p.len)
  <2>1. AwaitPayload(d) = d
    BY <1>1, <1>3, Zenon DEF AwaitPayload
  <2> QED
    BY <2>1, FitsDec, Zenon
<1> QED
  BY <1>2, <1>3

\* The first turn.
LEMMA ConsumeFits ==
    ASSUME script \in Seq(WireFrames), NEW n \in 0 .. Len(script),
           NEW b \in Seq(Bytes), NEW w \in Seq(Bytes),
           b \o w = Rest(script, n), Len(b) >= kHeaderSize
    PROVE  \E s, e, p : \E c \in Seq(Bytes) :
               /\ ConsumeHeader(Dec("ReadingHeader", "None", b, NoHeader)) = Dec(s, e, c, p)
               /\ Fits(s, e, c, p, w, n)
<1> DEFINE f == script[n + 1]
           h == HeaderOf(f)
           H == EncodeTo(h)
           d == Dec("ReadingHeader", "None", b, NoHeader)
           r == DecodeFrom(SubSeq(b, 1, kHeaderSize))
           rest == Suffix(b, kHeaderSize)
<1>1. n < Len(script)
  <2>1. SUFFICES ASSUME n = Len(script) PROVE FALSE
    OBVIOUS
  <2>2. b \o w = <<>>
    BY <2>1, RestFacts
  <2>3. Len(b) = 0
    BY <2>2
  <2> QED
    BY <2>3, HeaderAssumption
<1>2. f \in WireFrames /\ n + 1 \in 0 .. Len(script)
  BY <1>1
<1>3. /\ Rest(script, n + 1) \in Seq(Bytes)
      /\ Rest(script, n) = EncodeFrame(f) \o Rest(script, n + 1)
  BY <1>1, <1>2, RestFacts
<1> HIDE DEF f
<1>4. /\ H \in Seq(Bytes) /\ Len(H) = kHeaderSize /\ H[1].of = h
      /\ Body(f) \in Seq(Bytes) /\ EncodeFrame(f) = H \o Body(f)
      /\ h.len = Len(f.payload) /\ Len(f.payload) \in Nat
  BY <1>2, EncodeFacts
<1> HIDE DEF h, H
<1> DEFINE X == Body(f)
           Y == Rest(script, n + 1)
           R == X \o Y
<1>5. /\ H \in Seq(Bytes) /\ X \in Seq(Bytes) /\ Y \in Seq(Bytes)
      /\ Len(b) >= Len(H) /\ b \o w = (H \o X) \o Y
  BY <1>3, <1>4, Zenon
<1>6. SubSeq(b, 1, kHeaderSize) = H /\ rest \in Seq(Bytes) /\ rest \o w = R
  <2> HIDE DEF X, Y
  <2>1. R \in Seq(Bytes)
    BY <1>5, JoinFacts, Zenon
  <2>2. b \o w = H \o R
    BY <1>5, JoinAssoc, ZenonT(60)
  <2> HIDE DEF R
  <2>3. /\ SubSeq(b, 1, Len(H)) = H
        /\ Suffix(b, Len(H)) \in Seq(Bytes)
        /\ Suffix(b, Len(H)) \o w = R
    BY <1>5, <2>1, <2>2, CutPrefix, ZenonT(60)
  <2> QED
    BY <1>4, <2>3, Zenon
<1> HIDE DEF X, Y, R
<1>7. b[1].of = h
  <2>1. SubSeq(b, 1, kHeaderSize)[1] = b[1]
    BY HeaderAssumption
  <2> QED
    BY <1>4, <1>6, <2>1, Zenon
<1>8. (Good(f) /\ r = "None") \/ (~Good(f) /\ r \in Reasons)
  BY <1>2, <1>6, DecodeVerdict, Zenon DEF h, H
<1>9. "None" \notin Reasons
  BY DEF Reasons
<1>10. d.buffer = b
  BY DEF Dec
<1> HIDE DEF r, rest
<1>11. CASE Good(f) /\ r = "None"
  <2> DEFINE s == IF h.len = 0 THEN "FrameReady" ELSE "ReadingPayload"
  <2>1. ConsumeHeader(d) = [d EXCEPT !.pending = h, !.buffer = rest, !.state = s]
    BY <1>7, <1>10, <1>11, Zenon DEF ConsumeHeader, r, rest
  <2>2. s \in {"ReadingPayload", "FrameReady"} /\ (s = "FrameReady" => h.len = 0)
    OBVIOUS
  <2> HIDE DEF s
  <2>3. ConsumeHeader(d) = Dec(s, "None", rest, h)
    BY <2>1 DEF Dec
  <2>4. s = "FrameReady" => Len(rest) >= h.len
    BY <1>6, <2>2
  <2>5. Fits(s, "None", rest, h, w, n)
    BY <1>1, <1>6, <1>11, <2>2, <2>4, Zenon DEF Fits, R, X, Y, f, h
  <2> QED
    BY <1>6, <2>3, <2>5, Zenon
<1>12. CASE ~Good(f) /\ r \in Reasons
  <2>1. ConsumeHeader(d) = [d EXCEPT !.state = "Poisoned", !.lastError = r]
    BY <1>9, <1>10, <1>12, Zenon DEF ConsumeHeader, r
  <2>2. ConsumeHeader(d) = Dec("Poisoned", r, b, NoHeader)
    BY <2>1 DEF Dec
  <2>3. Fits("Poisoned", r, b, NoHeader, w, n)
    BY <1>1, <1>12, Zenon DEF Fits, f
  <2> QED
    BY <2>2, <2>3, Zenon
<1> QED
  BY <1>8, <1>11, <1>12

\* drive_() keeps the bytes and the frames in step.
LEMMA DriveFits ==
    ASSUME script \in Seq(WireFrames), NEW n \in 0 .. Len(script),
           NEW s, NEW e, NEW b \in Seq(Bytes), NEW p, NEW w \in Seq(Bytes),
           Fits(s, e, b, p, w, n)
    PROVE  FitsAs(Drive(Dec(s, e, b, p)), w, n)
<1> DEFINE d == Dec(s, e, b, p)
<1>1. d.state = s /\ d.buffer = b
  BY DEF Dec
<1>2. CASE s = "ReadingHeader" /\ Len(b) >= kHeaderSize
  <2>1. e = "None" /\ p = NoHeader /\ b \o w = Rest(script, n)
    BY <1>2 DEF Fits
  <2>2. PICK s2, e2, p2 : \E c \in Seq(Bytes) :
               /\ ConsumeHeader(Dec("ReadingHeader", "None", b, NoHeader)) = Dec(s2, e2, c, p2)
               /\ Fits(s2, e2, c, p2, w, n)
    BY <1>2, <2>1, ConsumeFits, Zenon
  <2>3. PICK c \in Seq(Bytes) : /\ ConsumeHeader(d) = Dec(s2, e2, c, p2)
                                /\ Fits(s2, e2, c, p2, w, n)
    BY <1>2, <2>1, <2>2, Zenon
  <2>4. Drive(d) = AwaitPayload(Dec(s2, e2, c, p2))
    BY <1>1, <1>2, <2>3, Zenon DEF Drive
  <2> QED
    BY <2>3, <2>4, AwaitFits, Zenon
<1>3. CASE ~(s = "ReadingHeader" /\ Len(b) >= kHeaderSize)
  <2>1. Drive(d) = AwaitPayload(d)
    BY <1>1, <1>3, Zenon DEF Drive
  <2> QED
    BY <2>1, AwaitFits, Zenon
<1> QED
  BY <1>2, <1>3

-----------------------------------------------------------------------------
(***************************************************************************)
(* The steps keep the invariant.                                           *)
(***************************************************************************)
TakenOK(t) ==
    /\ Len(t) \in 0 .. Len(script)
    /\ t \in Seq([type : Types, payload : Seq(Nat)])
    /\ \A i \in 1 .. Len(t) : Good(script[i]) /\ t[i] = FrameStream!Content(script[i])

LEMMA InvFrom ==
    ASSUME script \in Scripts, script' = script, wire' \in Seq(Bytes), TakenOK(taken'),
           NEW d, Become(d), FitsAs(d, wire', Len(taken'))
    PROVE  DecoderInv'
<1>1. state' = d.state /\ lastError' = d.lastError /\ buffer' = d.buffer /\ pending' = d.pending
  BY Zenon DEF Become
<1>2. buffer' \in Seq(Bytes) /\ Fits(state', lastError', buffer', pending', wire', Len(taken'))
  BY <1>1, Zenon DEF FitsAs
<1>3. Fits(state, lastError, buffer, pending, wire, Len(taken))'
  BY <1>2 DEF Fits, Rest, Good, FrameStream!Good
<1> QED
  BY <1>2, <1>3 DEF DecoderInv, TakenOK, Good, FrameStream!Good, FrameStream!Content

\* feed(), in any state.
LEMMA FeedKeeps ==
    ASSUME DecoderInv, NEW n \in 1 .. Len(wire), Feed(n)
    PROVE  DecoderInv'
<1> DEFINE k == Len(taken)
           x == SubSeq(wire, 1, n)
           y == Suffix(wire, n)
           B == buffer \o x
           d == Dec(state, lastError, B, pending)
<1>1. /\ script \in Scripts /\ script \in Seq(WireFrames) /\ wire \in Seq(Bytes)
      /\ buffer \in Seq(Bytes) /\ k \in 0 .. Len(script) /\ TakenOK(taken)
      /\ Fits(state, lastError, buffer, pending, wire, k)
  BY DecoderAssumption DEF DecoderInv, TakenOK
<1>2. script' = script /\ taken' = taken /\ wire' = y
  BY DEF Feed
<1>3. x \in Seq(Bytes) /\ y \in Seq(Bytes) /\ x \o y = wire
  BY <1>1 DEF Suffix
<1>4. CASE state = "Poisoned"
  <2> DEFINE same == Dec(state, lastError, buffer, pending)
  <2>1. Become(same)
    BY <1>4 DEF Feed, Become, Dec, decoder
  <2>2. Fits(state, lastError, buffer, pending, y, k)
    BY <1>1, <1>4 DEF Fits
  <2>3. FitsAs(same, y, k)
    BY <1>1, <2>2, FitsDec, Zenon
  <2> QED
    BY <1>1, <1>2, <1>3, <2>1, <2>3, InvFrom, Zenon
<1>5. CASE state # "Poisoned"
  <2>1. Become(Drive(d))
    BY <1>5, Zenon DEF Feed, Dec
  <2> HIDE DEF x, y
  <2>2. B \in Seq(Bytes) /\ Len(B) = Len(buffer) + Len(x)
    BY <1>1, <1>3, JoinFacts, Zenon
  <2>3. B \o y = buffer \o wire
    BY <1>1, <1>3, JoinAssoc, ZenonT(60)
  <2> HIDE DEF B
  <2>4. ASSUME NEW m \in Nat, Len(buffer) >= m PROVE Len(B) >= m
    BY <1>1, <1>3, <2>2, <2>4
  <2>5. state = "FrameReady" => pending.len \in Nat
    <3>1. SUFFICES ASSUME state = "FrameReady" PROVE pending.len \in Nat
      OBVIOUS
    <3>2. k < Len(script) /\ pending = HeaderOf(script[k + 1])
      BY <1>1, <3>1 DEF Fits
    <3>3. script[k + 1] \in WireFrames
      BY <1>1, <3>2
    <3> QED
      BY <3>2, <3>3, EncodeFacts
  <2>6. Fits(state, lastError, B, pending, y, k)
    BY <1>1, <1>5, <2>3, <2>4, <2>5, Zenon DEF Fits
  <2>7. FitsAs(Drive(d), y, k)
    BY <1>1, <1>3, <2>2, <2>6, DriveFits, Zenon
  <2> QED
    BY <1>1, <1>2, <1>3, <2>1, <2>7, InvFrom, Zenon
<1> QED
  BY <1>4, <1>5

\* take_frame() hands out the next frame of the stream.
LEMMA TakeIsNext ==
    ASSUME DecoderInv, TakeFrame
    PROVE  /\ Len(taken) < Len(script) /\ Good(script[Len(taken) + 1])
           /\ taken' = Append(taken, FrameStream!Content(script[Len(taken) + 1]))
           /\ Suffix(buffer, pending.len) \in Seq(Bytes)
           /\ Suffix(buffer, pending.len) \o wire = Rest(script, Len(taken) + 1)
<1> DEFINE k == Len(taken)
           f == script[k + 1]
           X == Body(f)
           Y == Rest(script, k + 1)
<1>1. /\ script \in Seq(WireFrames) /\ wire \in Seq(Bytes) /\ buffer \in Seq(Bytes)
      /\ k \in 0 .. Len(script) /\ state = "FrameReady"
      /\ Fits(state, lastError, buffer, pending, wire, k)
  BY DecoderAssumption DEF DecoderInv, TakeFrame
<1>2. /\ k < Len(script) /\ Good(f) /\ pending = HeaderOf(f)
      /\ buffer \o wire = X \o Y /\ Len(buffer) >= pending.len
  BY <1>1 DEF Fits
<1>3. f \in WireFrames /\ k + 1 \in 0 .. Len(script)
  BY <1>1, <1>2
<1>4. Y \in Seq(Bytes)
  BY <1>1, <1>3, RestFacts
<1>5. X \in Seq(Bytes) /\ Len(X) = pending.len /\ Payload(X) = f.payload
  BY <1>2, <1>3, EncodeFacts
<1>6. pending.type = f.type
  BY <1>2 DEF HeaderOf
<1> HIDE DEF X, Y
<1>7. /\ SubSeq(buffer, 1, Len(X)) = X
      /\ Suffix(buffer, Len(X)) \in Seq(Bytes)
      /\ Suffix(buffer, Len(X)) \o wire = Y
  <2>1. Len(buffer) >= Len(X)
    BY <1>2, <1>5, Zenon
  <2> QED
    BY <1>1, <1>2, <1>4, <1>5, <2>1, CutPrefix, ZenonT(60)
<1>8. taken' = Append(taken, [type |-> f.type, payload |-> f.payload])
  BY <1>5, <1>6, <1>7, Zenon DEF TakeFrame
<1> QED
  BY <1>2, <1>5, <1>7, <1>8, Zenon DEF FrameStream!Content, Y

LEMMA TakeKeeps ==
    ASSUME DecoderInv, TakeFrame
    PROVE  DecoderInv'
<1> DEFINE k == Len(taken)
           f == script[k + 1]
           S == Suffix(buffer, pending.len)
           d == Dec("ReadingHeader", lastError, S, NoHeader)
<1>1. /\ script \in Scripts /\ script \in Seq(WireFrames) /\ wire \in Seq(Bytes)
      /\ k \in 0 .. Len(script) /\ TakenOK(taken) /\ lastError = "None"
  BY DecoderAssumption DEF DecoderInv, TakenOK, TakeFrame, Fits
<1>2. /\ k < Len(script) /\ Good(f) /\ taken' = Append(taken, FrameStream!Content(f))
      /\ S \in Seq(Bytes) /\ S \o wire = Rest(script, k + 1)
  BY TakeIsNext, Zenon
<1>3. script' = script /\ wire' = wire /\ Become(Drive(d))
  BY DEF TakeFrame, Dec
<1> HIDE DEF S
<1>4. FrameStream!Content(f) \in [type : Types, payload : Seq(Nat)]
  <2>1. f \in WireFrames
    BY <1>1, <1>2
  <2> QED
    BY <2>1 DEF WireFrames, FrameStream!Content
<1>5. Len(taken') = k + 1 /\ k + 1 \in 0 .. Len(script)
  BY <1>1, <1>2, <1>4 DEF TakenOK
<1>6. TakenOK(taken')
  <2> DEFINE c == FrameStream!Content(f)
  <2>1. taken' = Append(taken, c) /\ c \in [type : Types, payload : Seq(Nat)]
    BY <1>2, <1>4
  <2>2. taken \in Seq([type : Types, payload : Seq(Nat)])
    BY <1>1 DEF TakenOK
  <2> HIDE DEF c
  <2>3. /\ taken' \in Seq([type : Types, payload : Seq(Nat)])
        /\ taken'[k + 1] = c /\ \A i \in 1 .. k : taken'[i] = taken[i]
    BY <2>1, <2>2
  <2>4. \A i \in 1 .. k + 1 : i \in 1 .. k \/ i = k + 1
    BY <1>1
  <2>5. \A i \in 1 .. k + 1 : Good(script[i]) /\ taken'[i] = FrameStream!Content(script[i])
    BY <1>1, <1>2, <2>3, <2>4, Zenon DEF TakenOK, c
  <2> QED
    BY <1>5, <2>3, <2>5, Zenon DEF TakenOK
<1>7. Fits("ReadingHeader", lastError, S, NoHeader, wire, k + 1)
  BY <1>1, <1>2, Zenon DEF Fits
<1>8. FitsAs(Drive(d), wire, k + 1)
  BY <1>1, <1>2, <1>5, <1>7, DriveFits, Zenon
<1> QED
  BY <1>1, <1>3, <1>5, <1>6, <1>8, InvFrom, Zenon

LEMMA DecoderInvInit == DecoderInit => DecoderInv
<1>1. SUFFICES ASSUME DecoderInit PROVE DecoderInv
  OBVIOUS
<1>2. /\ script \in Scripts /\ script \in Seq(WireFrames)
      /\ wire = Concat([i \in DOMAIN script |-> EncodeFrame(script[i])])
      /\ state = "ReadingHeader" /\ lastError = "None"
      /\ buffer = <<>> /\ pending = NoHeader /\ taken = <<>>
  BY <1>1, DecoderAssumption DEF DecoderInit
<1>3. 0 \in 0 .. Len(script) /\ Len(taken) = 0
  BY <1>2
<1>4. wire = Rest(script, 0)
  <2>1. [i \in DOMAIN script |-> EncodeFrame(script[i])]
          = [i \in 1 .. Len(script) - 0 |-> EncodeFrame(script[0 + i])]
    <3>1. DOMAIN script = 1 .. Len(script) - 0
      BY <1>2
    <3>2. \A i \in DOMAIN script : 0 + i = i
      BY <1>2
    <3> QED
      BY <3>1, <3>2, Zenon
  <2> QED
    BY <1>2, <2>1, Zenon DEF Rest
<1>5. wire \in Seq(Bytes)
  BY <1>2, <1>3, <1>4, RestFacts
<1>6. buffer \in Seq(Bytes) /\ buffer \o wire = wire
  BY <1>2, <1>5
<1>7. Fits(state, lastError, buffer, pending, wire, Len(taken))
  BY <1>2, <1>3, <1>4, <1>6, Zenon DEF Fits
<1>8. /\ taken \in Seq([type : Types, payload : Seq(Nat)])
      /\ \A i \in 1 .. Len(taken) : FALSE
  BY <1>2
<1> QED
  BY <1>2, <1>3, <1>5, <1>6, <1>7, <1>8, Zenon DEF DecoderInv

LEMMA DecoderInvStep == DecoderInv /\ [DecoderNext]_decoderVars => DecoderInv'
<1>1. SUFFICES ASSUME DecoderInv, [DecoderNext]_decoderVars PROVE DecoderInv'
  OBVIOUS
<1>2. CASE \E n \in 1 .. Len(wire) : Feed(n)
  BY <1>1, <1>2, FeedKeeps, Zenon
<1>3. CASE TakeFrame
  BY <1>1, <1>3, TakeKeeps, Zenon
<1>4. CASE UNCHANGED decoderVars
  BY <1>1, <1>4, Zenon DEF decoderVars, decoder, DecoderInv, Fits, Rest, Good, FrameStream!Good,
                    FrameStream!Content
<1> QED
  BY <1>1, <1>2, <1>3, <1>4 DEF DecoderNext

LEMMA InvIsTyped == DecoderInv => DecoderTypeOK
<1>1. SUFFICES ASSUME DecoderInv PROVE DecoderTypeOK
  OBVIOUS
<1>2. script \in Seq(WireFrames) /\ Len(taken) \in 0 .. Len(script)
  BY <1>1, DecoderAssumption DEF DecoderInv
<1>3. \A n \in 0 .. Len(script) : n < Len(script) => HeaderOf(script[n + 1]) # NoHeader
  <2>1. SUFFICES ASSUME NEW n \in 0 .. Len(script), n < Len(script)
                 PROVE  HeaderOf(script[n + 1]) # NoHeader
    OBVIOUS
  <2>2. script[n + 1] \in WireFrames
    BY <1>2, <2>1
  <2> QED
    BY <2>2, EncodeFacts
<1>4. /\ state \in {"ReadingHeader", "ReadingPayload", "FrameReady", "Poisoned"}
      /\ lastError \in {"None", "BadCrc", "UnknownType", "PayloadTooLarge"}
      /\ lastError # "None" <=> state = "Poisoned"
      /\ pending = NoHeader <=> state \in {"ReadingHeader", "Poisoned"}
  BY <1>1, <1>2, <1>3 DEF DecoderInv, Fits, Reasons
<1>5. ASSUME NEW j \in 1 .. Len(taken) PROVE Len(taken[j].payload) <= MaxPayload
  <2>1. Good(script[j]) /\ taken[j].payload = script[j].payload
    <3>1. Good(script[j]) /\ taken[j] = FrameStream!Content(script[j])
      BY <1>1, Zenon DEF DecoderInv
    <3> QED
      BY <3>1 DEF FrameStream!Content
  <2> QED
    BY <2>1, Zenon DEF Good, FrameStream!Good
<1> QED
  BY <1>4, <1>5 DEF DecoderTypeOK

\* The decoder's state, its error and its header agree at every step, and no
\* frame it hands out is larger than max_payload.
THEOREM DecoderTypeCorrect == DecoderSpec => []DecoderTypeOK
<1>1. DecoderInit => DecoderInv
  BY DecoderInvInit
<1>2. DecoderInv /\ [DecoderNext]_decoderVars => DecoderInv'
  BY DecoderInvStep
<1>3. DecoderInv => DecoderTypeOK
  BY InvIsTyped
<1> QED
  BY <1>1, <1>2, <1>3, PTL DEF DecoderSpec

-----------------------------------------------------------------------------
(***************************************************************************)
(* The decoder is a reader of the frame stream: take_frame() is Deliver,   *)
(* a feed() that meets a bad header RefuseStream, any other a stutter.     *)
(***************************************************************************)
\* A decoder that is poisoned now stands at a bad frame.
LEMMA PoisonedAtBad ==
    ASSUME DecoderInv', script \in Scripts, script' = script, state' = "Poisoned"
    PROVE  FrameStream!BadAt(Len(taken') + 1)
<1> DEFINE k == Len(taken')
<1>1. script \in Seq(WireFrames)
  BY DecoderAssumption
<1>2. k \in 0 .. Len(script) /\ k < Len(script) /\ ~Good(script[k + 1])
  BY DEF DecoderInv, Fits, Good, FrameStream!Good
<1>3. k + 1 \in 1 .. Len(script)
  BY <1>1, <1>2
<1> QED
  BY <1>2, <1>3, Zenon DEF FrameStream!BadAt, Good

LEMMA FeedStep ==
    ASSUME DecoderInv, DecoderInv', NEW n \in 1 .. Len(wire), Feed(n)
    PROVE  [FrameStream!StreamNext]_(FrameStream!streamVars)
<1>1. script' = script /\ taken' = taken
  BY DEF Feed
<1>2. CASE state # "Poisoned" /\ state' = "Poisoned"
  <2>1. script \in Scripts
    BY Zenon DEF DecoderInv
  <2>2. FrameStream!BadAt(Len(taken) + 1)
    BY <1>1, <1>2, <2>1, PoisonedAtBad, Zenon
  <2> QED
    BY <1>1, <1>2, <2>2 DEF FrameStream!StreamNext, FrameStream!RefuseStream
<1>3. CASE state = "Poisoned"
  <2>1. state' = state
    BY <1>3 DEF Feed, decoder
  <2> QED
    BY <1>1, <2>1 DEF FrameStream!streamVars
<1>4. CASE state # "Poisoned" /\ state' # "Poisoned"
  BY <1>1, <1>4 DEF FrameStream!streamVars
<1> QED
  BY <1>2, <1>3, <1>4

LEMMA TakeStep ==
    ASSUME DecoderInv, DecoderInv', TakeFrame
    PROVE  FrameStream!Deliver
<1> DEFINE k == Len(taken)
<1>1. /\ script \in Scripts /\ script' = script /\ state = "FrameReady" /\ k \in 0 .. Len(script)
  BY DEF DecoderInv, TakeFrame
<1>2. /\ k < Len(script) /\ Good(script[k + 1])
      /\ taken' = Append(taken, FrameStream!Content(script[k + 1]))
  BY TakeIsNext, Zenon
<1>3. k + 1 <= Len(script) /\ ~FrameStream!BadAt(k + 1)
  <2>1. k + 1 <= Len(script)
    BY <1>1, <1>2, DecoderAssumption
  <2>2. ~FrameStream!BadAt(k + 1)
    BY <1>2, Zenon DEF FrameStream!BadAt, Good
  <2> QED
    BY <2>1, <2>2
<1>4. Len(taken') = k + 1
  <2>1. taken \in Seq([type : Types, payload : Seq(Nat)])
    BY Zenon DEF DecoderInv
  <2>2. taken' \in Seq([type : Types, payload : Seq(Nat)])
    BY Zenon DEF DecoderInv
  <2>3. taken' = Append(taken, FrameStream!Content(script[k + 1]))
    BY <1>2
  <2> QED
    BY <2>1, <2>2, <2>3
<1>5. (state' = "Poisoned") \in {FALSE, FrameStream!BadAt((k + 1) + 1)}
  <2>1. CASE state' = "Poisoned"
    <3>1. FrameStream!BadAt((k + 1) + 1)
      BY <1>1, <1>4, <2>1, PoisonedAtBad, Zenon
    <3> QED
      BY <2>1, <3>1, Zenon
  <2>2. CASE state' # "Poisoned"
    BY <2>2, Zenon
  <2> QED
    BY <2>1, <2>2, Zenon
<1> QED
  BY <1>1, <1>2, <1>3, <1>5, Zenon DEF FrameStream!Deliver

\* However the bytes are cut into feed() calls and whenever frames are taken,
\* the decoder hands out the frames of the stream in order and whole, and is
\* poisoned only at a frame whose header does not hold, all before it taken.
THEOREM DecoderImplementsStream == DecoderSpec => ImplementsFrameStream
<1>1. DecoderInit => FrameStream!StreamInit
  BY DEF DecoderInit, FrameStream!StreamInit
<1>2. DecoderInv /\ DecoderInv' /\ [DecoderNext]_decoderVars
        => [FrameStream!StreamNext]_(FrameStream!streamVars)
  <2>1. SUFFICES ASSUME DecoderInv, DecoderInv', [DecoderNext]_decoderVars
                 PROVE  [FrameStream!StreamNext]_(FrameStream!streamVars)
    OBVIOUS
  <2>2. CASE \E n \in 1 .. Len(wire) : Feed(n)
    BY <2>1, <2>2, FeedStep, Zenon
  <2>3. CASE TakeFrame
    BY <2>1, <2>3, TakeStep, Zenon DEF FrameStream!StreamNext
  <2>4. CASE UNCHANGED decoderVars
    BY <2>4, Zenon DEF decoderVars, decoder, FrameStream!streamVars
  <2> QED
    BY <2>1, <2>2, <2>3, <2>4 DEF DecoderNext
<1>3. DecoderInit => DecoderInv
  BY DecoderInvInit
<1>4. DecoderInv /\ [DecoderNext]_decoderVars => DecoderInv'
  BY DecoderInvStep
<1> QED
  BY <1>1, <1>2, <1>3, <1>4, PTL DEF DecoderSpec, ImplementsFrameStream, FrameStream!StreamSpec

=============================================================================
