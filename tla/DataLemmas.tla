---------------------------- MODULE DataLemmas ----------------------------
(***************************************************************************)
(* Facts about numbers and sequences that the proofs about the components  *)
(* rest on.  Induction is by the least counterexample.                     *)
(***************************************************************************)
EXTENDS Concatenation, WellFoundedInduction, TLAPS

\* A set of natural numbers that is not empty has a least element.
LEMMA Least ==
    ASSUME NEW T \in SUBSET Nat, T # {}
    PROVE  \E m \in T : \A k \in T : m <= k
<1>1. PICK m \in T : \A k \in T : ~(<<k, m>> \in OpToRel(<, Nat))
  BY WFMin, NatLessThanWellFounded, Zenon
<1>2. \A k \in T : ~(k < m)
  BY <1>1 DEF OpToRel
<1> QED
  BY <1>2

\* f is the function that Concat(parts) defines, as far as m.
Runs(parts, f, m) ==
    f = [n \in 0 .. m |-> IF n = 0 THEN <<>> ELSE f[n - 1] \o parts[n]]

\* Such a function, step by step.
LEMMA RunSteps ==
    ASSUME NEW parts, NEW m \in Nat, NEW f
    PROVE  Runs(parts, f, m) <=>
             /\ f = [n \in 0 .. m |-> f[n]]
             /\ f[0] = <<>>
             /\ \A n \in 1 .. m : f[n] = f[n - 1] \o parts[n]
<1> DEFINE e(n) == f[n - 1] \o parts[n]
           h(n) == IF n = 0 THEN <<>> ELSE e(n)
<1>1. Runs(parts, f, m) <=> f = [n \in 0 .. m |-> h(n)]
  BY DEF Runs
<1> HIDE DEF e
<1>2. h(0) = <<>> /\ \A n \in 1 .. m : h(n) = e(n)
  OBVIOUS
<1>3. 0 .. m = {0} \cup 1 .. m
  OBVIOUS
<1> HIDE DEF h
<1>4. Runs(parts, f, m) <=>
             /\ f = [n \in 0 .. m |-> f[n]]
             /\ f[0] = <<>>
             /\ \A n \in 1 .. m : f[n] = e(n)
  BY <1>1, <1>2, <1>3
<1> QED
  BY <1>4 DEF e

\* There is such a function, whatever the parts ...
LEMMA RunExists ==
    ASSUME NEW V, NEW parts \in Seq(Seq(V)), NEW m \in 0 .. Len(parts)
    PROVE  \E f : Runs(parts, f, m)
<1>0. SUFFICES ASSUME ~\E f : Runs(parts, f, m) PROVE FALSE
  OBVIOUS
<1> DEFINE T == {k \in 0 .. Len(parts) : ~\E f : Runs(parts, f, k)}
<1>1. PICK k \in T : \A j \in T : k <= j
  <2>1. T \in SUBSET Nat /\ m \in T
    BY <1>0
  <2> HIDE DEF T
  <2> QED
    BY <2>1, Least
<1>2. k \in Nat /\ k <= Len(parts) /\ k # 0
  <2> DEFINE f == [n \in 0 .. 0 |-> <<>>]
  <2>1. f[0] = <<>> /\ f = [n \in 0 .. 0 |-> f[n]]
    OBVIOUS
  <2>2. 0 \in Nat /\ \A n \in 1 .. 0 : f[n] = f[n - 1] \o parts[n]
    OBVIOUS
  <2> HIDE DEF f
  <2>3. Runs(parts, f, 0)
    BY <2>1, <2>2, RunSteps, Zenon
  <2> QED
    BY <2>3, <1>1
<1>3. PICK p \in 0 .. Len(parts) : p = k - 1 /\ p \notin T
  <2> HIDE DEF T
  <2>1. k - 1 \in 0 .. Len(parts) /\ k - 1 \notin T
    BY <1>1, <1>2
  <2> QED
    BY <2>1
<1>4. PICK f : Runs(parts, f, p)
  BY <1>3
<1> DEFINE last == f[p] \o parts[k]
           g == [n \in 0 .. k |-> IF n = k THEN last ELSE f[n]]
<1>5. Runs(parts, g, k)
  <2>1. f[0] = <<>> /\ \A n \in 1 .. p : f[n] = f[n - 1] \o parts[n]
    <3> HIDE DEF T, last, g
    <3>1. p \in Nat
      OBVIOUS
    <3> QED
      BY <3>1, <1>4, RunSteps, ZenonT(60)
  <2> HIDE DEF last
  <2>2. g[0] = <<>> /\ g = [n \in 0 .. k |-> g[n]]
    BY <1>2, <2>1
  <2>3. ASSUME NEW n \in 1 .. k PROVE g[n] = g[n - 1] \o parts[n]
    <3>1. CASE n = k
      <4>1. g[k] = last /\ g[k - 1] = f[p]
        BY <1>2, <1>3
      <4> QED
        BY <3>1, <4>1, Zenon DEF last
    <3>2. CASE n # k
      <4>1. n \in 1 .. p
        BY <1>2, <1>3, <3>2
      <4>2. g[n] = f[n] /\ g[n - 1] = f[n - 1]
        BY <1>2, <1>3, <4>1
      <4> QED
        BY <2>1, <4>1, <4>2, Zenon
    <3> QED
      BY <3>1, <3>2
  <2> HIDE DEF g
  <2> QED
    BY <1>2, <2>2, <2>3, RunSteps, Zenon
<1> QED
  BY <1>1, <1>5

\* ... its values are sequences over the alphabet of the parts ...
LEMMA RunType ==
    ASSUME NEW V, NEW parts \in Seq(Seq(V)), NEW m \in 0 .. Len(parts),
           NEW f, Runs(parts, f, m)
    PROVE  f \in [0 .. m -> Seq(V)]
<1> DEFINE T == {k \in 0 .. m : f[k] \notin Seq(V)}
<1>0. m \in Nat
  OBVIOUS
<1>1. f[0] = <<>> /\ \A n \in 1 .. m : f[n] = f[n - 1] \o parts[n]
  BY <1>0, RunSteps, ZenonT(60)
<1>2. T = {}
  <2> SUFFICES ASSUME T # {} PROVE FALSE
    OBVIOUS
  <2>1. PICK k \in T : \A j \in T : k <= j
    <3>1. T \in SUBSET Nat
      OBVIOUS
    <3> HIDE DEF T
    <3> QED
      BY <3>1, Least
  <2>2. k \in 0 .. m /\ f[k] \notin Seq(V)
    OBVIOUS
  <2>3. k \in 1 .. m
    <3>1. f[0] \in Seq(V)
      BY <1>1
    <3> HIDE DEF T
    <3> QED
      BY <2>2, <3>1
  <2>4. k - 1 \in 0 .. m /\ k - 1 \notin T
    <3> HIDE DEF T
    <3> QED
      BY <2>1, <2>2, <2>3
  <2>5. f[k - 1] \in Seq(V) /\ parts[k] \in Seq(V)
    BY <2>2, <2>3, <2>4
  <2>6. f[k - 1] \o parts[k] \in Seq(V)
    BY <2>5
  <2> HIDE DEF T
  <2> QED
    BY <1>1, <2>2, <2>3, <2>6
<1> QED
  BY <1>2 DEF Runs

\* ... and there is only one.
LEMMA RunUnique ==
    ASSUME NEW V, NEW parts \in Seq(Seq(V)), NEW m \in 0 .. Len(parts),
           NEW f, Runs(parts, f, m), NEW g, Runs(parts, g, m)
    PROVE  f = g
<1> DEFINE T == {k \in 0 .. m : f[k] # g[k]}
<1>0. m \in Nat
  OBVIOUS
<1>1. /\ f[0] = <<>> /\ \A n \in 1 .. m : f[n] = f[n - 1] \o parts[n]
      /\ g[0] = <<>> /\ \A n \in 1 .. m : g[n] = g[n - 1] \o parts[n]
  <2>1. f[0] = <<>> /\ \A n \in 1 .. m : f[n] = f[n - 1] \o parts[n]
    BY <1>0, RunSteps, ZenonT(60)
  <2>2. g[0] = <<>> /\ \A n \in 1 .. m : g[n] = g[n - 1] \o parts[n]
    BY <1>0, RunSteps, ZenonT(60)
  <2> QED
    BY <2>1, <2>2
<1>2. T = {}
  <2> SUFFICES ASSUME T # {} PROVE FALSE
    OBVIOUS
  <2>1. PICK k \in T : \A j \in T : k <= j
    <3>1. T \in SUBSET Nat
      OBVIOUS
    <3> HIDE DEF T
    <3> QED
      BY <3>1, Least
  <2>2. k \in 0 .. m /\ f[k] # g[k]
    OBVIOUS
  <2>3. k \in 1 .. m
    BY <1>1, <2>2
  <2>4. k - 1 \in 0 .. m /\ k - 1 \notin T
    <3> HIDE DEF T
    <3> QED
      BY <2>1, <2>2, <2>3
  <2>5. f[k - 1] = g[k - 1]
    BY <2>4
  <2> HIDE DEF T
  <2> QED
    BY <1>1, <2>2, <2>3, <2>5
<1> QED
  BY <1>2 DEF Runs

\* Concat(parts) is where any such function ends.
LEMMA ConcatIs ==
    ASSUME NEW V, NEW parts \in Seq(Seq(V)), NEW f, Runs(parts, f, Len(parts))
    PROVE  Concat(parts) = f[Len(parts)]
<1> DEFINE g == CHOOSE g : Runs(parts, g, Len(parts))
<1>1. Runs(parts, g, Len(parts))
  OBVIOUS
<1>2. Concat(parts) = g[Len(parts)]
  BY DEF Concat, Runs
<1>3. Len(parts) \in 0 .. Len(parts)
  OBVIOUS
<1> HIDE DEF g
<1>4. f = g
  BY <1>1, <1>3, RunUnique
<1> QED
  BY <1>2, <1>4

\* So Concat can be reasoned about through any of them.
LEMMA ConcatRuns ==
    ASSUME NEW V, NEW parts \in Seq(Seq(V))
    PROVE  \E f \in [0 .. Len(parts) -> Seq(V)] :
               Runs(parts, f, Len(parts)) /\ Concat(parts) = f[Len(parts)]
<1>1. Len(parts) \in 0 .. Len(parts)
  OBVIOUS
<1>2. PICK f : Runs(parts, f, Len(parts))
  BY <1>1, RunExists
<1>3. f \in [0 .. Len(parts) -> Seq(V)]
  BY <1>1, <1>2, RunType
<1> QED
  BY <1>2, <1>3, ConcatIs

-----------------------------------------------------------------------------
(***************************************************************************)
(* What Concat computes, for parts over any V.                             *)
(***************************************************************************)
\* The chunks of a file, or the frames of a stream, make a sequence of bytes.
LEMMA ConcatType ==
    ASSUME NEW V, NEW parts \in Seq(Seq(V))
    PROVE  Concat(parts) \in Seq(V)
<1>1. Len(parts) \in 0 .. Len(parts)
  OBVIOUS
<1> QED
  BY <1>1, ConcatRuns

\* No chunks: the empty file.
LEMMA ConcatEmpty ==
    ASSUME NEW V
    PROVE  Concat(<<>>) = <<>>
<1>1. <<>> \in Seq(Seq(V)) /\ Len(<<>>) = 0
  OBVIOUS
<1>2. PICK f : Runs(<<>>, f, 0) /\ Concat(<<>>) = f[0]
  BY <1>1, ConcatRuns, Zenon
<1>3. 0 \in Nat
  OBVIOUS
<1> QED
  BY <1>2, <1>3, RunSteps, Zenon

\* One more chunk goes to the end: Blake3Hasher::update on root_hasher.
LEMMA ConcatAppend ==
    ASSUME NEW V, NEW parts \in Seq(Seq(V)), NEW x \in Seq(V)
    PROVE  Concat(Append(parts, x)) = Concat(parts) \o x
<1> DEFINE N == Len(parts)
           all == Append(parts, x)
<1>1. N \in Nat /\ all \in Seq(Seq(V)) /\ Len(all) = N + 1 /\ N + 1 \in Nat
  OBVIOUS
<1>2. all[N + 1] = x /\ \A n \in 1 .. N : all[n] = parts[n]
  OBVIOUS
<1> HIDE DEF N, all
<1>3. PICK f : Runs(parts, f, N) /\ Concat(parts) = f[N]
  BY ConcatRuns, Zenon DEF N
<1>4. f[0] = <<>> /\ \A n \in 1 .. N : f[n] = f[n - 1] \o parts[n]
  BY <1>1, <1>3, RunSteps, ZenonT(60)
<1> DEFINE last == f[N] \o x
           g == [n \in 0 .. N + 1 |-> IF n = N + 1 THEN last ELSE f[n]]
<1>5. Runs(all, g, N + 1)
  <2> HIDE DEF last
  <2>1. g[0] = <<>> /\ g = [n \in 0 .. N + 1 |-> g[n]]
    BY <1>1, <1>4
  <2>2. ASSUME NEW n \in 1 .. N + 1 PROVE g[n] = g[n - 1] \o all[n]
    <3>1. CASE n = N + 1
      <4>1. g[n] = last /\ g[n - 1] = f[N]
        BY <1>1, <3>1
      <4> QED
        BY <1>2, <3>1, <4>1, Zenon DEF last
    <3>2. CASE n # N + 1
      <4>1. n \in 1 .. N
        BY <1>1, <3>2
      <4>2. g[n] = f[n] /\ g[n - 1] = f[n - 1]
        BY <1>1, <4>1
      <4> QED
        BY <1>2, <1>4, <4>1, <4>2, Zenon
    <3> QED
      BY <3>1, <3>2
  <2> HIDE DEF g
  <2> QED
    BY <1>1, <2>1, <2>2, RunSteps, Zenon
<1>6. g[N + 1] = last
  BY <1>1
<1> HIDE DEF g
<1>7. Concat(all) = last
  BY <1>1, <1>5, <1>6, ConcatIs, Zenon
<1> QED
  BY <1>3, <1>7, Zenon DEF last, all

\* The same from the other end, which is how a stream is consumed.
LEMMA ConcatCons ==
    ASSUME NEW V, NEW parts \in Seq(Seq(V)), NEW x \in Seq(V)
    PROVE  Concat(<<x>> \o parts) = x \o Concat(parts)
<1> DEFINE P(n) == Concat(<<x>> \o SubSeq(parts, 1, n)) = x \o Concat(SubSeq(parts, 1, n))
           T == {n \in 0 .. Len(parts) : ~P(n)}
<1>1. P(0)
  <2>1. SubSeq(parts, 1, 0) = <<>> /\ <<x>> \o <<>> = Append(<<>>, x) /\ <<>> \in Seq(Seq(V))
    OBVIOUS
  <2>2. Concat(<<>>) = <<>>
    BY ConcatEmpty
  <2>3. Concat(Append(<<>>, x)) = <<>> \o x
    BY <2>1, <2>2, ConcatAppend
  <2>4. <<>> \o x = x /\ x \o <<>> = x
    OBVIOUS
  <2> QED
    BY <2>1, <2>2, <2>3, <2>4, Zenon
<1>2. ASSUME NEW n \in 1 .. Len(parts), P(n - 1) PROVE P(n)
  <2> DEFINE s == SubSeq(parts, 1, n - 1)
  <2>1. s \in Seq(Seq(V)) /\ parts[n] \in Seq(V) /\ <<x>> \o s \in Seq(Seq(V))
    <3>1. s \in Seq(Seq(V)) /\ parts[n] \in Seq(V)
      OBVIOUS
    <3> HIDE DEF s
    <3> QED
      BY <3>1
  <2>2. SubSeq(parts, 1, n) = Append(s, parts[n])
    OBVIOUS
  <2>3. <<x>> \o Append(s, parts[n]) = Append(<<x>> \o s, parts[n])
    BY SMTT(60), <2>1
  <2>4. Concat(s) \in Seq(V)
    BY <2>1, ConcatType
  <2>5. Concat(<<x>> \o s) = x \o Concat(s)
    BY <1>2
  <2> HIDE DEF s
  <2>6. (x \o Concat(s)) \o parts[n] = x \o (Concat(s) \o parts[n])
    <3>1. ASSUME NEW y \in Seq(V), NEW z \in Seq(V)
          PROVE  (x \o y) \o z = x \o (y \o z)
      OBVIOUS
    <3> HIDE DEF P, T
    <3> QED
      BY <2>1, <2>4, <3>1
  <2>7. /\ Concat(Append(s, parts[n])) = Concat(s) \o parts[n]
        /\ Concat(Append(<<x>> \o s, parts[n])) = Concat(<<x>> \o s) \o parts[n]
    BY <2>1, ConcatAppend
  <2> QED
    BY <2>2, <2>3, <2>5, <2>6, <2>7, Zenon
<1> HIDE DEF P
<1>3. T = {}
  <2> SUFFICES ASSUME T # {} PROVE FALSE
    OBVIOUS
  <2>1. PICK k \in T : \A j \in T : k <= j
    <3>1. T \in SUBSET Nat
      OBVIOUS
    <3> HIDE DEF T
    <3> QED
      BY <3>1, Least
  <2>2. k \in 1 .. Len(parts) /\ ~P(k)
    BY <1>1
  <2>3. k - 1 \in 0 .. Len(parts) /\ k - 1 \notin T
    <3> HIDE DEF T
    <3> QED
      BY <2>1, <2>2
  <2> QED
    BY <1>2, <2>2, <2>3
<1>4. P(Len(parts))
  BY SMTT(60), <1>3
<1>5. SubSeq(parts, 1, Len(parts)) = parts
  OBVIOUS
<1> QED
  BY <1>4, <1>5, Zenon DEF P

\* A prefix of s and what follows it as far as m, both cut off at the end of s.
LEMMA PrefixGrows ==
    ASSUME NEW V, NEW s \in Seq(V), NEW k \in Nat, NEW m \in Nat, k <= m
    PROVE  SubSeq(s, 1, IF k <= Len(s) THEN k ELSE Len(s))
              \o SubSeq(s, k + 1, IF m <= Len(s) THEN m ELSE Len(s))
           = SubSeq(s, 1, IF m <= Len(s) THEN m ELSE Len(s))
<1> DEFINE l == Len(s)
<1>1. l \in Nat
  OBVIOUS
<1>2. ASSUME NEW i \in 0 .. l, NEW j \in 0 .. l, i <= j
      PROVE  SubSeq(s, 1, i) \o SubSeq(s, i + 1, j) = SubSeq(s, 1, j)
  BY <1>2
<1>3. ASSUME k > l
      PROVE  SubSeq(s, 1, l) \o SubSeq(s, k + 1, l) = SubSeq(s, 1, l)
  <2>1. SubSeq(s, k + 1, l) = <<>>
    BY <1>1, <1>3
  <2>2. SubSeq(s, 1, l) = s
    OBVIOUS
  <2>3. s \o <<>> = s
    OBVIOUS
  <2> HIDE DEF l
  <2> QED
    BY <2>1, <2>2, <2>3, Zenon
<1> HIDE DEF l
<1>4. CASE m <= l
  <2>1. k \in 0 .. l /\ m \in 0 .. l /\ k <= l
    BY <1>1, <1>4
  <2> QED
    BY <1>2, <1>4, <2>1, Zenon DEF l
<1>5. CASE k <= l /\ ~(m <= l)
  <2>1. k \in 0 .. l /\ l \in 0 .. l
    BY <1>1, <1>5
  <2> QED
    BY <1>2, <1>5, <2>1, Zenon DEF l
<1>6. CASE ~(k <= l)
  <2>1. ~(m <= l) /\ k > l
    BY <1>1, <1>6
  <2> QED
    BY <1>3, <1>6, <2>1, Zenon DEF l
<1> QED
  BY <1>4, <1>5, <1>6

\* Pieces of c elements each, cut off at the end of s, are a prefix of s: what the
\* hash pass over a source that does not change reads.
LEMMA ConcatPieces ==
    ASSUME NEW V, NEW s \in Seq(V), NEW c \in Nat, NEW parts \in Seq(Seq(V)),
           \A j \in 1 .. Len(parts) :
              parts[j] = SubSeq(s, (j - 1) * c + 1, IF j * c <= Len(s) THEN j * c ELSE Len(s))
    PROVE  Concat(parts) =
              SubSeq(s, 1, IF Len(parts) * c <= Len(s) THEN Len(parts) * c ELSE Len(s))
<1> DEFINE e(n) == IF n * c <= Len(s) THEN n * c ELSE Len(s)
           P(n) == Concat(SubSeq(parts, 1, n)) = SubSeq(s, 1, e(n))
           T == {n \in 0 .. Len(parts) : ~P(n)}
<1>1. P(0)
  <2>1. SubSeq(parts, 1, 0) = <<>> /\ SubSeq(s, 1, 0) = <<>>
    OBVIOUS
  <2>2. e(0) = 0
    OBVIOUS
  <2>3. Concat(<<>>) = <<>>
    BY ConcatEmpty
  <2> QED
    BY <2>1, <2>2, <2>3, Zenon
<1>2. ASSUME NEW n \in 1 .. Len(parts), P(n - 1) PROVE P(n)
  <2> DEFINE p == SubSeq(parts, 1, n - 1)
             a == (n - 1) * c
             b == n * c
             l == Len(s)
             x == parts[n]
  <2>1. p \in Seq(Seq(V)) /\ x \in Seq(V)
    OBVIOUS
  <2>2. SubSeq(parts, 1, n) = Append(p, x)
    OBVIOUS
  <2>3. Concat(p) = SubSeq(s, 1, IF a <= l THEN a ELSE l)
    BY <1>2
  <2>4. x = SubSeq(s, a + 1, IF b <= l THEN b ELSE l)
    OBVIOUS
  <2>5. a \in Nat /\ b = a + c /\ l \in Nat
    OBVIOUS
  <2>6. Concat(Append(p, x)) = Concat(p) \o x
    BY <2>1, ConcatAppend
  <2> HIDE DEF p, a, b, l, x
  <2>7. Concat(p) \o x = SubSeq(s, 1, IF b <= l THEN b ELSE l)
    <3>1. a <= b /\ b \in Nat
      BY <2>5
    <3> QED
      BY <2>3, <2>4, <2>5, <3>1, PrefixGrows, Zenon DEF l
  <2> QED
    BY <2>2, <2>6, <2>7, Zenon DEF b, l, x, p
<1> HIDE DEF P
<1>3. T = {}
  <2> SUFFICES ASSUME T # {} PROVE FALSE
    OBVIOUS
  <2>1. PICK k \in T : \A j \in T : k <= j
    <3>1. T \in SUBSET Nat
      OBVIOUS
    <3> HIDE DEF T
    <3> QED
      BY <3>1, Least
  <2>2. k \in 1 .. Len(parts) /\ ~P(k)
    BY <1>1
  <2>3. k - 1 \in 0 .. Len(parts) /\ k - 1 \notin T
    <3> HIDE DEF T
    <3> QED
      BY <2>1, <2>2
  <2> QED
    BY <1>2, <2>2, <2>3
<1>4. P(Len(parts))
  BY <1>3
<1>5. SubSeq(parts, 1, Len(parts)) = parts
  OBVIOUS
<1> QED
  BY <1>4, <1>5, Zenon DEF P

=============================================================================
