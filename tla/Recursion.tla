------------------------------ MODULE Recursion ------------------------------
(***************************************************************************)
(* Functions of numbers that are defined by recursion: that they exist,    *)
(* and how two of them that go the same way are related.  std::getline     *)
(* called in a loop is such a function, and so is the decoder of chunks.   *)
(* From these follows what the operators of module Strings do with texts   *)
(* of any length: with two one behind the other, above all.                *)
(***************************************************************************)
EXTENDS Strings, SequenceTheorems, WellFoundedInduction, TLAPS

\* A set of natural numbers has a smallest.
LEMMA Smallest ==
  ASSUME NEW S, S \subseteq Nat, S # {}
  PROVE  Min(S) \in S /\ \A y \in S : Min(S) <= y
<1> DEFINE R == {ss \in Nat \X Nat : ss[1] < ss[2]}
<1>1. IsWellFoundedOn(R, Nat)
  BY NatLessThanWellFounded DEF OpToRel
<1> HIDE DEF R
<1>2. PICK x \in S : \A y \in S : <<y, x>> \notin R
  BY <1>1, WFMin, Zenon
<1>3. x \in Nat /\ \A y \in S : y \in Nat /\ <<y, x>> \notin R
  BY <1>2
<1>4. \A y \in S : ~(y < x)
  BY <1>3 DEF R
<1>5. \A y \in S : x <= y
  BY <1>3, <1>4
<1> QED  BY <1>5 DEF Min

\* One below a bound has a largest.
LEMMA Largest ==
  ASSUME NEW n \in Nat, NEW S, S \subseteq 0..n, S # {}
  PROVE  Max(S) \in S /\ \A y \in S : y <= Max(S)
<1> DEFINE T == {n - x : x \in S}
<1>0. \A x \in S : x \in Nat /\ n - x \in Nat
  OBVIOUS
<1>1. T \subseteq Nat /\ T # {}
  BY <1>0
<1> HIDE DEF T
<1>2. PICK m : m \in T /\ \A y \in T : m <= y
  BY <1>1, Smallest
<1> USE DEF T
<1>3. PICK x \in S : m = n - x
  BY <1>2
<1>4. \A y \in S : x >= y
  <2> TAKE y \in S
  <2>1. n - y \in T
    OBVIOUS
  <2>2. n - x <= n - y
    BY <1>2, <1>3, <2>1
  <2>3. x \in Nat /\ y \in Nat
    OBVIOUS
  <2> QED  BY <2>2, <2>3
<1> HIDE DEF T
<1>5. Max(S) \in S /\ \A y \in S : Max(S) >= y
  BY <1>4, Zenon DEF Max
<1>6. \A y \in S : y \in Nat
  OBVIOUS
<1> QED  BY <1>5, <1>6

\* The first step that fails: what holds at 0 and of each number's successor
\* below n holds up to n.
LEMMA Reaches ==
  ASSUME NEW n \in Nat, NEW S, 0 \in S,
         \A i \in Nat : i \in S /\ i < n => i + 1 \in S
  PROVE  \A i \in 0..n : i \in S
<1> DEFINE Bad == {i \in 0..n : i \notin S}
<1> SUFFICES Bad = {}
  OBVIOUS
<1> SUFFICES ASSUME Bad # {} PROVE FALSE
  OBVIOUS
<1>1. Bad \subseteq Nat /\ Bad # {}
  OBVIOUS
<1> HIDE DEF Bad
<1>2. PICK k : k \in Bad /\ \A y \in Bad : k <= y
  BY <1>1, Smallest
<1>3. k \in 0..n /\ k \notin S /\ \A y \in 0..n : y \notin S => k <= y
  BY <1>2 DEF Bad
<1>4. k # 0 /\ k - 1 \in 0..n /\ k - 1 \in Nat /\ k - 1 < n /\ (k - 1) + 1 = k /\ ~(k <= k - 1)
  BY <1>3
<1>5. k - 1 \in S
  BY <1>3, <1>4
<1> QED  BY <1>3, <1>4, <1>5

\* A function that looks further along, and that from N on looks no further,
\* exists.
Walks(f, D, stop, piece, next) ==
  f = [p \in D |-> IF p \in stop THEN <<>> ELSE piece[p] \o f[next[p]]]

LEMMA WalkExists ==
  ASSUME NEW N \in Nat, NEW D \in SUBSET Nat, NEW stop, NEW piece, NEW next,
         \A p \in D : p > N => p \in stop,
         \A p \in D : p \notin stop => next[p] \in D /\ next[p] > p
  PROVE  \E f : Walks(f, D, stop, piece, next)
<1> DEFINE Upper(k) == {p \in D : p > N - k}
           S == {k \in Nat : \E f : Walks(f, Upper(k), stop, piece, next)}
<1>d. \A p \in D : p \in Nat
  OBVIOUS
<1>1. 0 \in S
  <2> DEFINE f == [p \in Upper(0) |-> <<>>]
  <2>1. \A p \in Upper(0) : p \in stop
    OBVIOUS
  <2>2. Walks(f, Upper(0), stop, piece, next)
    BY <2>1 DEF Walks
  <2> QED  BY <2>2
<1>2. ASSUME NEW k \in Nat, k \in S, k < N + 1 PROVE k + 1 \in S
  <2>1. PICK f : Walks(f, Upper(k), stop, piece, next)
    BY <1>2
  <2> DEFINE a == N - k
             h == [p \in Upper(k + 1) |->
                     IF p = a THEN (IF a \in stop THEN <<>> ELSE piece[a] \o f[next[a]])
                     ELSE f[p]]
  <2>2. a \in Nat
    BY <1>2
  <2>3. \A p \in Upper(k + 1) : p = a \/ p \in Upper(k)
    BY <1>2
  <2>u. \A p \in Upper(k) : p \in Upper(k + 1)
    BY <1>2
  <2>4. \A p \in Upper(k + 1) : p \notin stop => next[p] \in Upper(k) /\ next[p] # a
    <3> SUFFICES ASSUME NEW p \in Upper(k + 1), p \notin stop
                 PROVE  next[p] \in Upper(k) /\ next[p] # a
      OBVIOUS
    <3>1. p \in D /\ p \in Nat /\ p > N - (k + 1)
      BY <1>d
    <3>2. next[p] \in D /\ next[p] > p
      BY <3>1
    <3>3. PICK q : q = next[p]
      OBVIOUS
    <3>4. q \in D /\ q \in Nat /\ q > p
      BY <1>d, <3>2, <3>3
    <3>5. q > N - k
      BY <1>2, <3>1, <3>4
    <3> QED  BY <3>3, <3>4, <3>5
  <2>5. a \notin Upper(k)
    BY <1>2
  <2>6. \A p \in Upper(k) : f[p] = IF p \in stop THEN <<>> ELSE piece[p] \o f[next[p]]
    BY <2>1, Zenon DEF Walks
  <2> HIDE DEF a, Upper
  <2>7. \A p \in Upper(k) : h[p] = f[p]
    BY <2>u, <2>5, Zenon DEF h
  <2>8. \A p \in Upper(k + 1) : p \notin stop => h[next[p]] = f[next[p]]
    BY <2>4, <2>7, Zenon
  <2>9. ASSUME NEW p \in Upper(k + 1)
        PROVE  h[p] = IF p \in stop THEN <<>> ELSE piece[p] \o h[next[p]]
    <3>1. CASE p = a
      <4>1. h[p] = IF p \in stop THEN <<>> ELSE piece[p] \o f[next[p]]
        BY <2>9, <3>1, Zenon DEF h
      <4> QED  BY <2>8, <2>9, <4>1, Zenon
    <3>2. CASE p # a
      <4>1. p \in Upper(k)
        BY <2>3, <2>9, <3>2, Zenon
      <4> QED  BY <2>6, <2>7, <2>8, <2>9, <4>1, Zenon
    <3> QED  BY <3>1, <3>2
  <2>10. h = [p \in Upper(k + 1) |-> h[p]]
    BY Zenon DEF h
  <2>11. [p \in Upper(k + 1) |-> h[p]]
           = [p \in Upper(k + 1) |-> IF p \in stop THEN <<>> ELSE piece[p] \o h[next[p]]]
    BY <2>9, Zenon
  <2>12. Walks(h, Upper(k + 1), stop, piece, next)
    BY <2>10, <2>11, Zenon DEF Walks
  <2>13. k + 1 \in Nat
    OBVIOUS
  <2> QED  BY <2>12, <2>13, Zenon
<1>3. N + 1 \in S
  <2>1. \A i \in Nat : i \in S /\ i < N + 1 => i + 1 \in S
    BY <1>2, Zenon
  <2>2. N + 1 \in Nat /\ N + 1 \in 0..(N + 1)
    OBVIOUS
  <2> HIDE DEF S
  <2> QED  BY <1>1, <2>1, <2>2, Reaches, Zenon
<1>4. Upper(N + 1) = D
  <2>1. \A p \in D : p > N - (N + 1)
    BY <1>d
  <2> QED  BY <2>1, Zenon
<1> QED  BY <1>3, <1>4, Zenon
-----------------------------------------------------------------------------
(* Walks from left to right. *)

Pos == Nat \ {0}

\* What holds behind n, and at a place if it holds at every later one, holds
\* everywhere.
LEMMA Backwards ==
  ASSUME NEW n \in Nat, NEW S,
         \A p \in Pos : p > n => p \in S,
         \A p \in Pos : (\A q \in Pos : q > p => q \in S) => p \in S
  PROVE  \A p \in Pos : p \in S
<1> DEFINE Bad == {p \in Pos : p \notin S}
<1> SUFFICES ASSUME Bad # {} PROVE FALSE
  OBVIOUS
<1>1. Bad \subseteq 0..n
  BY DEF Pos
<1> HIDE DEF Bad
<1>2. PICK m : m \in Bad /\ \A y \in Bad : y <= m
  BY <1>1, Largest, Zenon
<1>3. m \in Pos /\ m \notin S
  BY <1>2 DEF Bad
<1>4. ASSUME NEW q \in Pos, q > m PROVE q \in S
  <2>1. q \in Nat /\ m \in Nat /\ ~(q <= m)
    BY <1>3, <1>4 DEF Pos
  <2> QED  BY <1>2, <1>4, <2>1 DEF Bad
<1> QED  BY <1>3, <1>4, Zenon

\* Of a walk that starts later in the same way.
Shifted(k, stop1, piece1, next1, stop2, piece2, next2) ==
  \A p \in Pos : /\ p \in stop2 <=> p + k \in stop1
                 /\ p \notin stop2 => /\ next2[p] \in Pos /\ next2[p] > p
                                      /\ piece2[p] = piece1[p + k]
                                      /\ next1[p + k] = next2[p] + k

Later(f, k, g) == \A p \in Pos : g[p] = f[p + k]
StopsPast(n, stop) == n \in Nat /\ \A p \in Pos : p > n => p \in stop

LEMMA WalkShift ==
  ASSUME NEW n, NEW k \in Nat, NEW f, NEW g,
         NEW stop1, NEW piece1, NEW next1, NEW stop2, NEW piece2, NEW next2,
         Walks(f, Pos, stop1, piece1, next1), Walks(g, Pos, stop2, piece2, next2),
         StopsPast(n, stop2),
         Shifted(k, stop1, piece1, next1, stop2, piece2, next2)
  PROVE  Later(f, k, g)
<1> DEFINE S == {p \in Pos : g[p] = f[p + k]}
<1>0. n \in Nat /\ \A p \in Pos : p > n => p \in stop2
  BY Zenon DEF StopsPast
<1>1. \A p \in Pos : p + k \in Pos
  BY DEF Pos
<1>2. \A p \in Pos : f[p] = IF p \in stop1 THEN <<>> ELSE piece1[p] \o f[next1[p]]
  BY Zenon DEF Walks
<1>3. \A p \in Pos : g[p] = IF p \in stop2 THEN <<>> ELSE piece2[p] \o g[next2[p]]
  BY Zenon DEF Walks
<1>4. \A p \in Pos : p \in stop2 => p \in S
  BY <1>1, <1>2, <1>3, Zenon DEF Shifted
<1>5. ASSUME NEW p \in Pos, \A q \in Pos : q > p => q \in S PROVE p \in S
  <2>1. CASE p \in stop2
    BY <1>4, <2>1, Zenon
  <2>2. CASE p \notin stop2
    <3>1. PICK q : q = next2[p]
      OBVIOUS
    <3>2. /\ q \in Pos /\ q > p /\ piece2[p] = piece1[p + k] /\ next1[p + k] = q + k
          /\ p + k \notin stop1
      BY <2>2, <3>1, Zenon DEF Shifted
    <3>3. q \in S
      BY <1>5, <3>2, Zenon
    <3>4. g[q] = f[q + k]
      BY <3>3, Zenon
    <3>5. g[p] = piece2[p] \o g[q]
      BY <1>3, <2>2, <3>1, Zenon
    <3>6. f[p + k] = piece1[p + k] \o f[q + k]
      BY <1>1, <1>2, <3>2, Zenon
    <3>7. g[p] = f[p + k]
      BY <3>2, <3>4, <3>5, <3>6, Zenon
    <3> QED  BY <3>7, Zenon
  <2> QED  BY <2>1, <2>2
<1>6. \A p \in Pos : p > n => p \in S
  BY <1>0, <1>4, Zenon
<1>7. \A p \in Pos : p \in S
  <2> HIDE DEF S
  <2> QED  BY <1>0, <1>5, <1>6, Backwards, Zenon
<1> QED  BY <1>7, Zenon DEF Later

Assoc(T, x, y, z) == (x \o y) \o z = x \o (y \o z) /\ y \o z \in Seq(T)

LEMMA Associates ==
  ASSUME NEW T, NEW x \in Seq(T), NEW y \in Seq(T), NEW z \in Seq(T)
  PROVE  Assoc(T, x, y, z)
BY ConcatAssociative, ConcatProperties DEF Assoc

\* Of a walk that goes the same way up to m and stops there.
Begins(T, m, stop1, piece1, next1, stop2, piece2, next2) ==
  \A p \in Pos :
    /\ p > m => p \in stop2
    /\ p <= m => /\ p \notin stop1 /\ p \notin stop2
                 /\ piece1[p] = piece2[p] /\ piece2[p] \in Seq(T)
                 /\ next1[p] = next2[p] /\ next2[p] \in Pos
                 /\ p < next2[p] /\ next2[p] <= m + 1

LEMMA WalkJoin ==
  ASSUME NEW T, NEW m \in Nat, NEW f, NEW g,
         NEW stop1, NEW piece1, NEW next1, NEW stop2, NEW piece2, NEW next2,
         Walks(f, Pos, stop1, piece1, next1), Walks(g, Pos, stop2, piece2, next2),
         Begins(T, m, stop1, piece1, next1, stop2, piece2, next2),
         f[m + 1] \in Seq(T)
  PROVE  \A p \in Pos : p <= m + 1 => g[p] \in Seq(T) /\ f[p] = g[p] \o f[m + 1]
<1> DEFINE S == {p \in Pos : p <= m + 1 => g[p] \in Seq(T) /\ f[p] = g[p] \o f[m + 1]}
<1>1. \A p \in Pos : p \in Nat /\ (p > m <=> ~(p <= m)) /\ (p <= m => p <= m + 1)
                     /\ (p > m /\ p <= m + 1 => p = m + 1) /\ (p > m + 1 => ~(p <= m + 1))
  BY DEF Pos
<1>2. \A p \in Pos : f[p] = IF p \in stop1 THEN <<>> ELSE piece1[p] \o f[next1[p]]
  BY Zenon DEF Walks
<1>3. \A p \in Pos : g[p] = IF p \in stop2 THEN <<>> ELSE piece2[p] \o g[next2[p]]
  BY Zenon DEF Walks
<1>4. <<>> \in Seq(T) /\ \A t \in Seq(T) : <<>> \o t = t
  BY ConcatEmptySeq
<1>5. ASSUME NEW p \in Pos, p > m PROVE p \in S
  <2>1. g[p] = <<>>
    BY <1>3, <1>5, Zenon DEF Begins
  <2>2. p <= m + 1 => f[p] = f[m + 1]
    BY <1>1, <1>5, Zenon
  <2> QED  BY <1>4, <2>1, <2>2, Zenon
<1>6. ASSUME NEW p \in Pos, \A q \in Pos : q > p => q \in S PROVE p \in S
  <2>1. CASE p > m
    BY <1>5, <2>1, Zenon
  <2>2. CASE p <= m
    <3>1. PICK q : q = next2[p]
      OBVIOUS
    <3>2. /\ p \notin stop1 /\ p \notin stop2 /\ piece1[p] = piece2[p] /\ piece2[p] \in Seq(T)
          /\ next1[p] = q /\ q \in Pos /\ p < q /\ q <= m + 1
      BY <2>2, <3>1, Zenon DEF Begins
    <3>3. q > p
      BY <3>2
    <3>4. g[q] \in Seq(T) /\ f[q] = g[q] \o f[m + 1]
      BY <1>6, <3>2, <3>3, Zenon
    <3>5. PICK x, y, z \in Seq(T) : x = piece2[p] /\ y = g[q] /\ z = f[m + 1]
      BY <3>2, <3>4, Zenon
    <3>6. g[p] = x \o y /\ f[p] = x \o (y \o z)
      BY <1>2, <1>3, <3>1, <3>2, <3>4, <3>5, Zenon
    <3>7. Assoc(T, x, y, z)
      BY Associates, Zenon
    <3>8. x \o y \in Seq(T)
      BY ConcatProperties
    <3>9. g[p] \in Seq(T) /\ f[p] = g[p] \o f[m + 1]
      BY <3>5, <3>6, <3>7, <3>8, Zenon DEF Assoc
    <3> QED  BY <3>9, Zenon
  <2> QED  BY <1>1, <2>1, <2>2, Zenon
<1>7. \A p \in Pos : p > m => p \in S
  BY <1>5, Zenon
<1>8. \A p \in Pos : p \in S
  <2> HIDE DEF S
  <2> QED  BY <1>6, <1>7, Backwards, Zenon
<1> QED  BY <1>8, Zenon

\* A walk over pieces of T is a sequence over T, and there is but one.
Pieces(T, stop, piece, next) ==
  \A p \in Pos : p \notin stop => piece[p] \in Seq(T) /\ next[p] \in Pos /\ next[p] > p

LEMMA WalkTypes ==
  ASSUME NEW T, NEW n, NEW f, NEW stop, NEW piece, NEW next,
         Walks(f, Pos, stop, piece, next), StopsPast(n, stop), Pieces(T, stop, piece, next)
  PROVE  \A p \in Pos : f[p] \in Seq(T)
<1> DEFINE S == {p \in Pos : f[p] \in Seq(T)}
<1>0. n \in Nat /\ \A p \in Pos : p > n => p \in stop
  BY Zenon DEF StopsPast
<1>1. \A p \in Pos : f[p] = IF p \in stop THEN <<>> ELSE piece[p] \o f[next[p]]
  BY Zenon DEF Walks
<1>2. <<>> \in Seq(T)
  OBVIOUS
<1>3. \A p \in Pos : p \in stop => p \in S
  BY <1>1, <1>2, Zenon
<1>4. ASSUME NEW p \in Pos, \A q \in Pos : q > p => q \in S PROVE p \in S
  <2>1. CASE p \in stop
    BY <1>3, <2>1, Zenon
  <2>2. CASE p \notin stop
    <3>1. PICK x, y \in Seq(T) : x = piece[p] /\ y = f[next[p]]
      BY <1>4, <2>2, Zenon DEF Pieces
    <3>2. x \o y \in Seq(T)
      BY ConcatProperties
    <3> QED  BY <1>1, <2>2, <3>1, <3>2, Zenon
  <2> QED  BY <2>1, <2>2
<1>5. \A p \in Pos : p > n => p \in S
  BY <1>0, <1>3, Zenon
<1>6. \A p \in Pos : p \in S
  <2> HIDE DEF S
  <2> QED  BY <1>0, <1>4, <1>5, Backwards, Zenon
<1> QED  BY <1>6, Zenon
-----------------------------------------------------------------------------
(* Parts of a text. *)

\* c is where the part ends that starts at p.
PartEnds(s, D, p, c) ==
  /\ c \in Nat /\ p <= c /\ c <= Len(s) + 1
  /\ c <= Len(s) => s[c] \in D
  /\ \A j \in p..(c - 1) : s[j] \notin D

Cut(s, D, p) == Min({j \in p..(Len(s) + 1) : j > Len(s) \/ s[j] \in D})

LEMMA CutFacts ==
  ASSUME NEW T, NEW s \in Seq(T), NEW D, NEW p \in Pos, p <= Len(s)
  PROVE  PartEnds(s, D, p, Cut(s, D, p))
<1> DEFINE S == {j \in p..(Len(s) + 1) : j > Len(s) \/ s[j] \in D}
<1>1. Len(s) \in Nat /\ p \in Nat
  BY DEF Pos
<1>2. S \subseteq Nat /\ Len(s) + 1 \in S
  BY <1>1
<1>3. PICK c : c = Min(S)
  OBVIOUS
<1>4. c \in S /\ \A y \in S : c <= y
  <2> HIDE DEF S
  <2> QED  BY <1>2, <1>3, Smallest, Zenon
<1>5. c \in Nat /\ p <= c /\ c <= Len(s) + 1 /\ (c <= Len(s) => s[c] \in D)
  BY <1>1, <1>4
<1>6. ASSUME NEW j \in p..(c - 1), s[j] \in D PROVE FALSE
  <2>1. j \in S
    BY <1>1, <1>5, <1>6
  <2>2. c <= j
    BY <1>4, <2>1, Zenon
  <2> QED  BY <1>1, <1>5, <2>2
<1>7. PartEnds(s, D, p, c)
  BY <1>5, <1>6, Zenon DEF PartEnds
<1> QED  BY <1>3, <1>7, Zenon DEF Cut

LEMMA CutIs ==
  ASSUME NEW T, NEW s \in Seq(T), NEW D, NEW p \in Pos, p <= Len(s), NEW c, PartEnds(s, D, p, c)
  PROVE  Cut(s, D, p) = c
<1>1. PICK e : e = Cut(s, D, p)
  OBVIOUS
<1>2. PartEnds(s, D, p, e)
  BY <1>1, CutFacts, Zenon
<1>3. Len(s) \in Nat /\ p \in Nat
  BY DEF Pos
<1>4. /\ c \in Nat /\ p <= c /\ c <= Len(s) + 1 /\ (c <= Len(s) => s[c] \in D)
      /\ \A j \in p..(c - 1) : s[j] \notin D
  BY Zenon DEF PartEnds
<1>5. /\ e \in Nat /\ p <= e /\ e <= Len(s) + 1 /\ (e <= Len(s) => s[e] \in D)
      /\ \A j \in p..(e - 1) : s[j] \notin D
  BY <1>2, Zenon DEF PartEnds
<1>6. ~(c < e)
  <2> SUFFICES ASSUME c < e PROVE FALSE
    OBVIOUS
  <2>1. c \in p..(e - 1) /\ c <= Len(s)
    BY <1>3, <1>4, <1>5
  <2> QED  BY <1>4, <1>5, <2>1, Zenon
<1>7. ~(e < c)
  <2> SUFFICES ASSUME e < c PROVE FALSE
    OBVIOUS
  <2>1. e \in p..(c - 1) /\ e <= Len(s)
    BY <1>3, <1>4, <1>5
  <2> QED  BY <1>4, <1>5, <2>1, Zenon
<1>8. c = e
  BY <1>4, <1>5, <1>6, <1>7
<1> QED  BY <1>1, <1>8, Zenon

Past(s) == {p \in Pos : p > Len(s)}
PartAt(s, D) == [p \in Pos |-> <<SubSeq(s, p, Cut(s, D, p) - 1)>>]
NextPart(s, D) == [p \in Pos |-> Cut(s, D, p) + 1]
PartsFrom(f, s, D) == Walks(f, Pos, Past(s), PartAt(s, D), NextPart(s, D))

IsPart(T, s, D, p) ==
  LET c == Cut(s, D, p)
  IN  /\ c \in Nat /\ c + 1 \in Pos /\ p < c + 1 /\ c <= Len(s) + 1
      /\ SubSeq(s, p, c - 1) \in Seq(T)
      /\ PartAt(s, D)[p] = <<SubSeq(s, p, c - 1)>>
      /\ NextPart(s, D)[p] = c + 1

LEMMA PartFacts ==
  ASSUME NEW T, NEW s \in Seq(T), NEW D, NEW p \in Pos, p <= Len(s)
  PROVE  IsPart(T, s, D, p)
<1>1. PICK c : c = Cut(s, D, p)
  OBVIOUS
<1>2. c \in Nat /\ p <= c /\ c <= Len(s) + 1
  BY <1>1, CutFacts, Zenon DEF PartEnds
<1>3. Len(s) \in Nat /\ p \in Nat /\ p > 0
  BY DEF Pos
<1>4. c + 1 \in Pos /\ p < c + 1
  BY <1>2, <1>3 DEF Pos
<1>5. SubSeq(s, p, c - 1) \in Seq(T)
  <2>1. \A i \in p..(c - 1) : s[i] \in T
    BY <1>2, <1>3
  <2> QED  BY <1>2, <1>3, <2>1
<1> QED  BY <1>1, <1>2, <1>4, <1>5, Zenon DEF IsPart, PartAt, NextPart

LEMMA PartsExist ==
  ASSUME NEW T, NEW s \in Seq(T), NEW D
  PROVE  \E f : PartsFrom(f, s, D) /\ Parts(s, D) = f[1]
<1>1. Len(s) \in Nat /\ Pos \in SUBSET Nat
  BY DEF Pos
<1>2. \A p \in Pos : p > Len(s) => p \in Past(s)
  BY DEF Past
<1>3. \A p \in Pos : p \notin Past(s) => p <= Len(s)
  BY <1>1 DEF Past, Pos
<1>4. \A p \in Pos : p \notin Past(s) => NextPart(s, D)[p] \in Pos /\ NextPart(s, D)[p] > p
  <2> SUFFICES ASSUME NEW p \in Pos, p <= Len(s)
               PROVE  NextPart(s, D)[p] \in Pos /\ NextPart(s, D)[p] > p
    BY <1>3, Zenon
  <2>1. PICK c : c = Cut(s, D, p)
    OBVIOUS
  <2>2. c + 1 \in Pos /\ p < c + 1 /\ NextPart(s, D)[p] = c + 1
    BY <2>1, PartFacts, Zenon DEF IsPart
  <2> QED  BY <2>2
<1>5. PICK f : PartsFrom(f, s, D)
  BY <1>1, <1>2, <1>4, WalkExists, Zenon DEF PartsFrom
<1>6. \A g : [p \in Pos |-> IF p \in Past(s) THEN <<>>
                           ELSE PartAt(s, D)[p] \o g[NextPart(s, D)[p]]]
               = [i \in Nat \ {0} |-> IF i > Len(s) THEN <<>>
                    ELSE <<SubSeq(s, i, Cut(s, D, i) - 1)>> \o g[Cut(s, D, i) + 1]]
  <2>1. \A p \in Pos : p \in Past(s) <=> p > Len(s)
    BY Zenon DEF Past
  <2>2. Pos = Nat \ {0}
    BY DEF Pos
  <2> QED  BY <2>1, <2>2, Zenon DEF PartAt, NextPart
<1>7. PICK g : g = CHOOSE h : PartsFrom(h, s, D)
  OBVIOUS
<1>8. PartsFrom(g, s, D)
  BY <1>5, <1>7, Zenon
<1>9. Parts(s, D) = g[1]
  BY <1>6, <1>7, Zenon DEF Parts, PartsFrom, Walks, Cut
<1> QED  BY <1>8, <1>9, Zenon

AreTexts(f, T, s, D) ==
  /\ \A p \in Pos : f[p] \in Seq(Seq(T))
  /\ \A p \in Pos : p > Len(s) => f[p] = <<>>
  /\ \A p \in Pos : p <= Len(s) =>
       f[p] = <<SubSeq(s, p, Cut(s, D, p) - 1)>> \o f[Cut(s, D, p) + 1]

LEMMA PartsAreTexts ==
  ASSUME NEW T, NEW s \in Seq(T), NEW D, NEW f, PartsFrom(f, s, D)
  PROVE  AreTexts(f, T, s, D)
<1>1. Len(s) \in Nat
  OBVIOUS
<1>2. \A p \in Pos : (p \in Past(s) <=> p > Len(s)) /\ (p \notin Past(s) <=> p <= Len(s))
  BY DEF Past, Pos
<1>3. ASSUME NEW p \in Pos, p <= Len(s)
      PROVE  /\ PartAt(s, D)[p] \in Seq(Seq(T))
             /\ NextPart(s, D)[p] \in Pos /\ NextPart(s, D)[p] > p
             /\ PartAt(s, D)[p] = <<SubSeq(s, p, Cut(s, D, p) - 1)>>
             /\ NextPart(s, D)[p] = Cut(s, D, p) + 1
  <2>1. PICK c : c = Cut(s, D, p)
    OBVIOUS
  <2>2. PICK w : w = SubSeq(s, p, c - 1)
    OBVIOUS
  <2>3. /\ c + 1 \in Pos /\ p < c + 1 /\ w \in Seq(T) /\ PartAt(s, D)[p] = <<w>>
        /\ NextPart(s, D)[p] = c + 1
    BY <1>3, <2>1, <2>2, PartFacts, Zenon DEF IsPart
  <2>4. <<w>> \in Seq(Seq(T)) /\ c + 1 > p
    BY <2>3
  <2> QED  BY <2>1, <2>2, <2>3, <2>4, Zenon
<1>4. \A p \in Pos : f[p] \in Seq(Seq(T))
  <2>1. \A p \in Pos : p > Len(s) => p \in Past(s)
    BY <1>2, Zenon
  <2>2. \A p \in Pos : p \notin Past(s) =>
           PartAt(s, D)[p] \in Seq(Seq(T)) /\ NextPart(s, D)[p] \in Pos /\ NextPart(s, D)[p] > p
    BY <1>2, <1>3, Zenon
  <2>3. PICK U, n, st, pc, nx :
          U = Seq(T) /\ n = Len(s) /\ st = Past(s) /\ pc = PartAt(s, D) /\ nx = NextPart(s, D)
    OBVIOUS
  <2>4. Walks(f, Pos, st, pc, nx) /\ StopsPast(n, st) /\ Pieces(U, st, pc, nx)
    BY <1>1, <2>1, <2>2, <2>3, Zenon DEF PartsFrom, StopsPast, Pieces
  <2>5. \A p \in Pos : f[p] \in Seq(U)
    BY ONLY <2>4, WalkTypes, Zenon
  <2> QED  BY <2>3, <2>5, Zenon
<1>5. \A p \in Pos : f[p] = IF p \in Past(s) THEN <<>> ELSE PartAt(s, D)[p] \o f[NextPart(s, D)[p]]
  BY Zenon DEF PartsFrom, Walks
<1> QED  BY <1>2, <1>3, <1>4, <1>5, Zenon DEF AreTexts

\* Two texts one behind the other.
Joint(s, x, y) ==
  /\ Len(s) = Len(x) + Len(y)
  /\ \A i \in 1..Len(x) : s[i] = x[i]
  /\ \A i \in 1..Len(y) : s[Len(x) + i] = y[i]

LEMMA JointConcat ==
  ASSUME NEW T, NEW x \in Seq(T), NEW y \in Seq(T)
  PROVE  x \o y \in Seq(T) /\ Joint(x \o y, x, y)
<1>1. \A i \in 1..Len(x) : (x \o y)[i] = x[i]
  BY ConcatProperties
<1>2. \A i \in 1..Len(y) : (x \o y)[Len(x) + i] = y[i]
  BY ConcatProperties
<1>3. x \o y \in Seq(T) /\ Len(x \o y) = Len(x) + Len(y)
  BY ConcatProperties
<1> QED  BY <1>1, <1>2, <1>3 DEF Joint

SameText(s, p, q, t, a, b) == SubSeq(s, p, q) = SubSeq(t, a, b)

\* The same elements at different places of two texts.
LEMMA SameElements ==
  ASSUME NEW T, NEW s \in Seq(T), NEW t \in Seq(T), NEW k \in Nat,
         NEW p \in Nat, NEW q \in Int, 1 <= p, q <= Len(t), p <= q + 1, q + k <= Len(s),
         \A i \in p..q : s[i + k] = t[i]
  PROVE  SameText(s, p + k, q + k, t, p, q)
<1>1. PICK a, b : a = SubSeq(s, p + k, q + k) /\ b = SubSeq(t, p, q)
  OBVIOUS
<1>2. Len(s) \in Nat /\ Len(t) \in Nat
  OBVIOUS
<1>3. PICK n \in Nat : n = q - p + 1
  OBVIOUS
<1>4. /\ \A i \in (p + k)..(q + k) : s[i] \in T
      /\ \A i \in p..q : t[i] \in T
  BY <1>2
<1>5. a \in Seq(T) /\ Len(a) = n /\ \A i \in 1..n : a[i] = s[p + k + i - 1]
  BY <1>1, <1>2, <1>3, <1>4
<1>6. b \in Seq(T) /\ Len(b) = n /\ \A i \in 1..n : b[i] = t[p + i - 1]
  BY <1>1, <1>2, <1>3, <1>4
<1>7. ASSUME NEW i \in 1..n PROVE a[i] = b[i]
  <2>1. p + i - 1 \in p..q /\ p + k + i - 1 = (p + i - 1) + k
    BY <1>3
  <2>2. s[(p + i - 1) + k] = t[p + i - 1]
    BY <2>1, Zenon
  <2> QED  BY <1>5, <1>6, <2>1, <2>2, Zenon
<1>8. a = b
  BY <1>5, <1>6, <1>7
<1> QED  BY <1>1, <1>8, Zenon DEF SameText

PartsSplit(x, y, D) == Parts(x \o y, D) = Parts(x, D) \o Parts(y, D)

\* Past a delimiter the parts start anew.
LEMMA PartsOfConcat ==
  ASSUME NEW T, NEW x \in Seq(T), NEW y \in Seq(T), NEW D, Len(x) > 0, x[Len(x)] \in D
  PROVE  PartsSplit(x, y, D)
<1>1. PICK s \in Seq(T) : s = x \o y /\ Joint(s, x, y)
  BY JointConcat, Zenon
<1>2. PICK m, n \in Nat : m = Len(x) /\ n = Len(y) /\ m > 0 /\ x[m] \in D
  OBVIOUS
<1>3. /\ Len(s) = m + n
      /\ \A i \in 1..m : s[i] = x[i]
      /\ \A i \in 1..n : s[m + i] = y[i]
  BY <1>1, <1>2, Zenon DEF Joint
<1>4. PICK f : PartsFrom(f, s, D) /\ Parts(s, D) = f[1]
  BY PartsExist, Zenon
<1>5. PICK g : PartsFrom(g, x, D) /\ Parts(x, D) = g[1]
  BY PartsExist, Zenon
<1>6. PICK h : PartsFrom(h, y, D) /\ Parts(y, D) = h[1]
  BY PartsExist, Zenon
<1>7. ASSUME NEW p \in Pos, p <= m
      PROVE  /\ p <= Len(s) /\ PartAt(s, D)[p] = PartAt(x, D)[p]
             /\ NextPart(s, D)[p] = NextPart(x, D)[p] /\ NextPart(x, D)[p] <= m + 1
             /\ PartAt(x, D)[p] \in Seq(Seq(T)) /\ NextPart(x, D)[p] \in Pos
             /\ p < NextPart(x, D)[p]
  <2>1. PICK c : c = Cut(x, D, p)
    OBVIOUS
  <2>2. PartEnds(x, D, p, c)
    BY <1>2, <1>7, <2>1, CutFacts, Zenon
  <2>3. /\ c \in Nat /\ p <= c /\ c <= m + 1 /\ (c <= m => x[c] \in D)
        /\ \A j \in p..(c - 1) : x[j] \notin D
    BY <1>2, <2>2, Zenon DEF PartEnds
  <2>4. p \in Nat /\ p > 0 /\ p <= Len(s)
    BY <1>3, <1>7 DEF Pos
  <2>5. c <= m
    <3> SUFFICES ASSUME c = m + 1 PROVE FALSE
      BY <2>3
    <3>1. m \in p..(c - 1)
      BY <1>7, <2>4
    <3> QED  BY <1>2, <2>3, <3>1, Zenon
  <2>6. PartEnds(s, D, p, c)
    <3>1. \A j \in p..(c - 1) : s[j] \notin D
      <4>1. \A j \in p..(c - 1) : j \in 1..m
        BY <2>3, <2>4, <2>5
      <4> QED  BY <1>3, <2>3, <4>1, Zenon
    <3>2. c \in 1..m /\ c <= Len(s) + 1
      BY <1>3, <2>3, <2>4, <2>5
    <3>3. s[c] \in D
      BY <1>3, <2>3, <2>5, <3>2, Zenon
    <3> QED  BY <2>3, <3>1, <3>2, <3>3, Zenon DEF PartEnds
  <2>7. c = Cut(s, D, p)
    BY <2>4, <2>6, CutIs, Zenon
  <2>8. SameText(s, p, c - 1, x, p, c - 1)
    <3>1. 0 \in Nat /\ c - 1 \in Int /\ 1 <= p /\ c - 1 <= Len(x) /\ p <= c - 1 + 1
          /\ c - 1 + 0 <= Len(s) /\ p + 0 = p /\ c - 1 + 0 = c - 1
      BY <1>2, <1>3, <2>3, <2>4, <2>5
    <3>2. ASSUME NEW i \in p..(c - 1) PROVE s[i + 0] = x[i]
      <4>1. i \in 1..m /\ i + 0 = i
        BY <2>3, <2>4, <2>5
      <4> QED  BY <1>3, <4>1, Zenon
    <3>3. SameText(s, p + 0, c - 1 + 0, x, p, c - 1)
      BY <2>4, <3>1, <3>2, SameElements, Zenon
    <3> QED  BY <3>1, <3>3, Zenon
  <2>9. PartAt(s, D)[p] = PartAt(x, D)[p] /\ NextPart(s, D)[p] = c + 1 /\ NextPart(x, D)[p] = c + 1
    BY <2>1, <2>7, <2>8, Zenon DEF PartAt, NextPart, SameText
  <2>10. c + 1 \in Pos /\ c + 1 <= m + 1 /\ p < c + 1
    BY <2>3, <2>4, <2>5 DEF Pos
  <2>11. PartAt(x, D)[p] \in Seq(Seq(T))
    <3>1. PICK w : w = SubSeq(x, p, c - 1)
      OBVIOUS
    <3>2. PartAt(x, D)[p] = <<w>> /\ w \in Seq(T)
      BY <1>2, <1>7, <2>1, <3>1, PartFacts, Zenon DEF IsPart
    <3> QED  BY <3>2
  <2> QED  BY <2>4, <2>9, <2>10, <2>11, Zenon
<1>8. Begins(Seq(T), m, Past(s), PartAt(s, D), NextPart(s, D),
             Past(x), PartAt(x, D), NextPart(x, D))
  <2>1. \A p \in Pos : p > m => p \in Past(x)
    BY <1>2, Zenon DEF Past
  <2>2. \A p \in Pos : p <= m => p \notin Past(x) /\ p \notin Past(s)
    BY <1>2, <1>3 DEF Past, Pos
  <2> QED  BY <1>7, <2>1, <2>2, Zenon DEF Begins
<1>9. f[m + 1] \in Seq(Seq(T)) /\ m + 1 \in Pos /\ 1 \in Pos /\ 1 <= m + 1 /\ 1 + m = m + 1
  <2>1. m + 1 \in Pos /\ 1 \in Pos /\ 1 <= m + 1 /\ 1 + m = m + 1
    BY DEF Pos
  <2>2. AreTexts(f, T, s, D)
    BY <1>4, PartsAreTexts, Zenon
  <2>3. \A p \in Pos : f[p] \in Seq(Seq(T))
    BY <2>2, Zenon DEF AreTexts
  <2> QED  BY <2>1, <2>3, Zenon
<1>10. f[1] = g[1] \o f[m + 1]
  <2>1. PICK U, s1, p1, n1, s2, p2, n2 :
          /\ U = Seq(T)
          /\ s1 = Past(s) /\ p1 = PartAt(s, D) /\ n1 = NextPart(s, D)
          /\ s2 = Past(x) /\ p2 = PartAt(x, D) /\ n2 = NextPart(x, D)
    OBVIOUS
  <2>2. /\ Walks(f, Pos, s1, p1, n1) /\ Walks(g, Pos, s2, p2, n2)
        /\ Begins(U, m, s1, p1, n1, s2, p2, n2) /\ f[m + 1] \in Seq(U)
    BY <1>4, <1>5, <1>8, <1>9, <2>1, Zenon DEF PartsFrom
  <2>3. \A p \in Pos : p <= m + 1 => g[p] \in Seq(U) /\ f[p] = g[p] \o f[m + 1]
    BY ONLY <2>2, WalkJoin, m \in Nat, Zenon
  <2> QED  BY <1>9, <2>3, Zenon
<1>11. ASSUME NEW p \in Pos, p <= n
       PROVE  /\ p + m \notin Past(s)
              /\ NextPart(y, D)[p] \in Pos /\ NextPart(y, D)[p] > p
              /\ PartAt(y, D)[p] = PartAt(s, D)[p + m]
              /\ NextPart(s, D)[p + m] = NextPart(y, D)[p] + m
  <2>1. PICK c : c = Cut(y, D, p)
    OBVIOUS
  <2>2. PartEnds(y, D, p, c)
    BY <1>2, <1>11, <2>1, CutFacts, Zenon
  <2>3. /\ c \in Nat /\ p <= c /\ c <= n + 1 /\ (c <= n => y[c] \in D)
        /\ \A j \in p..(c - 1) : y[j] \notin D
    BY <1>2, <2>2, Zenon DEF PartEnds
  <2>4. p \in Nat /\ p > 0 /\ p + m \in Pos /\ p + m <= Len(s) /\ ~(p + m > Len(s))
    BY <1>3, <1>11 DEF Pos
  <2>5. PICK e \in Nat : e = c + m
    <3>1. c + m \in Nat
      BY <2>3
    <3> QED  BY <3>1, Zenon
  <2>6. PartEnds(s, D, p + m, e)
    <3>1. ASSUME NEW j \in (p + m)..(e - 1) PROVE s[j] \notin D
      <4>1. PICK i \in p..(c - 1) : j = m + i /\ i \in 1..n
        <5>1. j - m \in p..(c - 1) /\ j = m + (j - m) /\ j - m \in 1..n
          BY <2>3, <2>4, <2>5
        <5> QED  BY <5>1
      <4> QED  BY <1>3, <2>3, <4>1, Zenon
    <3>2. p + m <= e /\ e <= Len(s) + 1
      <4>1. p + m <= c + m /\ c + m <= (m + n) + 1
        BY <2>3, <2>4
      <4> QED  BY <1>3, <2>5, <4>1, Zenon
    <3>3. ASSUME e <= Len(s) PROVE s[e] \in D
      <4>1. c <= n /\ c \in 1..n /\ e = m + c
        BY <1>3, <2>3, <2>4, <2>5, <3>3
      <4> QED  BY <1>3, <2>3, <4>1, Zenon
    <3> QED  BY <2>5, <3>1, <3>2, <3>3, Zenon DEF PartEnds
  <2>7. e = Cut(s, D, p + m)
    BY <2>4, <2>6, CutIs, Zenon
  <2>8. SameText(s, p + m, e - 1, y, p, c - 1)
    <3>1. c - 1 \in Int /\ 1 <= p /\ c - 1 <= Len(y) /\ p <= c - 1 + 1
          /\ c - 1 + m <= Len(s) /\ c - 1 + m = e - 1
      BY <1>2, <1>3, <2>3, <2>4, <2>5
    <3>2. ASSUME NEW i \in p..(c - 1) PROVE s[i + m] = y[i]
      <4>1. i \in 1..n /\ i + m = m + i
        BY <2>3, <2>4
      <4> QED  BY <1>3, <4>1, Zenon
    <3>3. SameText(s, p + m, c - 1 + m, y, p, c - 1)
      BY <2>4, <3>1, <3>2, SameElements, Zenon
    <3> QED  BY <3>1, <3>3, Zenon
  <2>9. /\ PartAt(y, D)[p] = PartAt(s, D)[p + m]
        /\ NextPart(s, D)[p + m] = e + 1 /\ NextPart(y, D)[p] = c + 1
    BY <2>1, <2>4, <2>7, <2>8, Zenon DEF PartAt, NextPart, SameText
  <2>10. c + 1 \in Pos /\ c + 1 > p /\ e + 1 = (c + 1) + m
    BY <2>3, <2>4, <2>5 DEF Pos
  <2> QED  BY <2>4, <2>9, <2>10, Zenon DEF Past
<1>12. Shifted(m, Past(s), PartAt(s, D), NextPart(s, D), Past(y), PartAt(y, D), NextPart(y, D))
  <2>1. ASSUME NEW p \in Pos
        PROVE  /\ p \in Past(y) <=> p + m \in Past(s)
               /\ p \notin Past(y) => p <= n
    BY <1>2, <1>3 DEF Past, Pos
  <2> QED  BY <1>11, <2>1, Zenon DEF Shifted
<1>13. h[1] = f[1 + m]
  <2>1. \A p \in Pos : p > n => p \in Past(y)
    BY <1>2, Zenon DEF Past
  <2>2. PICK s1, p1, n1, s2, p2, n2 :
          /\ s1 = Past(s) /\ p1 = PartAt(s, D) /\ n1 = NextPart(s, D)
          /\ s2 = Past(y) /\ p2 = PartAt(y, D) /\ n2 = NextPart(y, D)
    OBVIOUS
  <2>3. Walks(f, Pos, s1, p1, n1) /\ Walks(h, Pos, s2, p2, n2)
    BY <1>4, <1>6, <2>2, Zenon DEF PartsFrom
  <2>4. Shifted(m, s1, p1, n1, s2, p2, n2) /\ StopsPast(n, s2)
    BY <1>12, <2>1, <2>2, Zenon DEF StopsPast
  <2>5. Later(f, m, h)
    BY ONLY <2>3, <2>4, WalkShift, m \in Nat, Zenon
  <2> QED  BY <1>9, <2>5, Zenon DEF Later
<1> QED  BY <1>1, <1>4, <1>5, <1>6, <1>9, <1>10, <1>13, Zenon DEF PartsSplit
-----------------------------------------------------------------------------
(* Parts that are left out. *)

Kept(ps, W) == [p \in Pos |-> IF ps[p] \in W THEN <<>> ELSE <<ps[p]>>]
Following == [p \in Pos |-> p + 1]
WithoutFrom(f, ps, W) == Walks(f, Pos, Past(ps), Kept(ps, W), Following)

IsWithout(f, T, ps, W) ==
  /\ WithoutFrom(f, ps, W) /\ Without(ps, W) = f[1]
  /\ \A p \in Pos : f[p] \in Seq(T)
  /\ \A p \in Pos : p > Len(ps) => f[p] = <<>>
  /\ \A p \in Pos : p <= Len(ps) => f[p] = Kept(ps, W)[p] \o f[p + 1]

LEMMA WithoutExists ==
  ASSUME NEW T, NEW ps \in Seq(T), NEW W
  PROVE  \E f : IsWithout(f, T, ps, W)
<1>1. Len(ps) \in Nat /\ Pos \in SUBSET Nat
  BY DEF Pos
<1>2. \A p \in Pos : (p \in Past(ps) <=> p > Len(ps)) /\ (p \notin Past(ps) <=> p <= Len(ps))
  BY <1>1 DEF Past, Pos
<1>3. \A p \in Pos : Following[p] = p + 1 /\ Following[p] \in Pos /\ Following[p] > p
  BY DEF Following, Pos
<1>4. \A p \in Pos : p \notin Past(ps) => Kept(ps, W)[p] \in Seq(T)
  <2> SUFFICES ASSUME NEW p \in Pos, p <= Len(ps) PROVE Kept(ps, W)[p] \in Seq(T)
    BY <1>2, Zenon
  <2>1. ps[p] \in T
    BY DEF Pos
  <2>2. PICK w, k : w \in T /\ w = ps[p] /\ k = Kept(ps, W)[p]
    BY <2>1, Zenon
  <2>3. k = <<>> \/ k = <<w>>
    BY <2>2, Zenon DEF Kept
  <2>4. <<>> \in Seq(T) /\ <<w>> \in Seq(T)
    BY <2>2
  <2> QED  BY <2>2, <2>3, <2>4, Zenon
<1>5. PICK f : WithoutFrom(f, ps, W)
  BY <1>1, <1>2, <1>3, WalkExists, Zenon DEF WithoutFrom
<1>6. \A g : [p \in Pos |-> IF p \in Past(ps) THEN <<>> ELSE Kept(ps, W)[p] \o g[Following[p]]]
               = [i \in Nat \ {0} |-> IF i > Len(ps) THEN <<>>
                    ELSE (IF ps[i] \in W THEN <<>> ELSE <<ps[i]>>) \o g[i + 1]]
  <2>1. Pos = Nat \ {0}
    BY DEF Pos
  <2>2. \A i \in Pos : Kept(ps, W)[i] = IF ps[i] \in W THEN <<>> ELSE <<ps[i]>>
    BY Zenon DEF Kept
  <2> QED  BY <1>2, <1>3, <2>1, <2>2, Zenon
<1>7. PICK g : g = CHOOSE h : WithoutFrom(h, ps, W)
  OBVIOUS
<1>8. WithoutFrom(g, ps, W)
  BY <1>5, <1>7, Zenon
<1>9. Without(ps, W) = g[1]
  BY <1>6, <1>7, Zenon DEF Without, WithoutFrom, Walks
<1>10. \A p \in Pos : g[p] = IF p \in Past(ps) THEN <<>> ELSE Kept(ps, W)[p] \o g[Following[p]]
  BY <1>8, Zenon DEF WithoutFrom, Walks
<1>11. \A p \in Pos : g[p] \in Seq(T)
  <2>1. \A p \in Pos : p > Len(ps) => p \in Past(ps)
    BY <1>2, Zenon
  <2>2. \A p \in Pos : p \notin Past(ps) =>
           Kept(ps, W)[p] \in Seq(T) /\ Following[p] \in Pos /\ Following[p] > p
    BY <1>3, <1>4, Zenon
  <2>3. PICK n, st, pc, nx : n = Len(ps) /\ st = Past(ps) /\ pc = Kept(ps, W) /\ nx = Following
    OBVIOUS
  <2>4. Walks(g, Pos, st, pc, nx) /\ StopsPast(n, st) /\ Pieces(T, st, pc, nx)
    BY <1>1, <1>8, <2>1, <2>2, <2>3, Zenon DEF WithoutFrom, StopsPast, Pieces
  <2>5. \A p \in Pos : g[p] \in Seq(T)
    BY ONLY <2>4, WalkTypes, Zenon
  <2> QED  BY <2>5, Zenon
<1>12. \A p \in Pos : p > Len(ps) => g[p] = <<>>
  BY <1>2, <1>10, Zenon
<1>13. \A p \in Pos : p <= Len(ps) => g[p] = Kept(ps, W)[p] \o g[p + 1]
  BY <1>2, <1>3, <1>10, Zenon
<1> QED  BY <1>8, <1>9, <1>11, <1>12, <1>13, Zenon DEF IsWithout

WithoutSplit(x, y, W) == Without(x \o y, W) = Without(x, W) \o Without(y, W)

LEMMA WithoutConcat ==
  ASSUME NEW T, NEW x \in Seq(T), NEW y \in Seq(T), NEW W
  PROVE  WithoutSplit(x, y, W)
<1>1. PICK s \in Seq(T) : s = x \o y /\ Joint(s, x, y)
  BY JointConcat, Zenon
<1>2. PICK m, n \in Nat : m = Len(x) /\ n = Len(y)
  OBVIOUS
<1>3. /\ Len(s) = m + n
      /\ \A i \in 1..m : s[i] = x[i]
      /\ \A i \in 1..n : s[m + i] = y[i]
  BY <1>1, <1>2, Zenon DEF Joint
<1>a. PICK f : IsWithout(f, T, s, W)
  BY WithoutExists, Zenon
<1>b. PICK g : IsWithout(g, T, x, W)
  BY WithoutExists, Zenon
<1>c. PICK h : IsWithout(h, T, y, W)
  BY WithoutExists, Zenon
<1>4. WithoutFrom(f, s, W) /\ Without(s, W) = f[1] /\ \A p \in Pos : f[p] \in Seq(T)
  BY <1>a, Zenon DEF IsWithout
<1>5. WithoutFrom(g, x, W) /\ Without(x, W) = g[1]
  BY <1>b, Zenon DEF IsWithout
<1>6. WithoutFrom(h, y, W) /\ Without(y, W) = h[1]
  BY <1>c, Zenon DEF IsWithout
<1>7. m + 1 \in Pos /\ 1 \in Pos /\ 1 <= m + 1 /\ 1 + m = m + 1
  BY DEF Pos
<1>8. ASSUME NEW p \in Pos
      PROVE  /\ p > m => p \in Past(x)
             /\ p > n => p \in Past(y)
             /\ p <= m => /\ p \notin Past(x) /\ p \notin Past(s) /\ p \in 1..m
                          /\ p < p + 1 /\ p + 1 <= m + 1
             /\ p + 1 \in Pos /\ p + 1 > p /\ p + m \in Pos /\ p + m + 1 = p + 1 + m
             /\ p \in Past(y) <=> p + m \in Past(s)
             /\ p \notin Past(y) => p \in 1..n /\ p + m = m + p
  BY <1>2, <1>3 DEF Past, Pos
<1>9. \A p \in Pos : Following[p] = p + 1
  BY Zenon DEF Following
<1>10. f[1] = g[1] \o f[m + 1]
  <2>1. ASSUME NEW p \in Pos, p <= m
        PROVE  Kept(s, W)[p] = Kept(x, W)[p] /\ Kept(x, W)[p] \in Seq(T)
    <3>1. s[p] = x[p]
      BY <1>3, <1>8, <2>1, Zenon
    <3>2. x[p] \in T
      BY <1>2, <1>8, <2>1
    <3>3. Kept(s, W)[p] = Kept(x, W)[p]
      BY <3>1, Zenon DEF Kept
    <3>4. PICK w, k : w \in T /\ w = x[p] /\ k = Kept(x, W)[p]
      BY <3>2, Zenon
    <3>5. k = <<>> \/ k = <<w>>
      BY <3>4, Zenon DEF Kept
    <3>6. <<>> \in Seq(T) /\ <<w>> \in Seq(T)
      BY <3>4
    <3> QED  BY <3>3, <3>4, <3>5, <3>6, Zenon
  <2>2. PICK s1, p1, s2, p2, nx :
          s1 = Past(s) /\ p1 = Kept(s, W) /\ s2 = Past(x) /\ p2 = Kept(x, W) /\ nx = Following
    OBVIOUS
  <2>3. Begins(T, m, s1, p1, nx, s2, p2, nx)
    BY <1>8, <1>9, <2>1, <2>2, Zenon DEF Begins
  <2>4. Walks(f, Pos, s1, p1, nx) /\ Walks(g, Pos, s2, p2, nx) /\ f[m + 1] \in Seq(T)
    BY <1>4, <1>5, <1>7, <2>2, Zenon DEF WithoutFrom
  <2>5. \A p \in Pos : p <= m + 1 => g[p] \in Seq(T) /\ f[p] = g[p] \o f[m + 1]
    BY ONLY <2>3, <2>4, WalkJoin, m \in Nat, Zenon
  <2> QED  BY <1>7, <2>5, Zenon
<1>11. h[1] = f[m + 1]
  <2>1. ASSUME NEW p \in Pos, p \notin Past(y) PROVE Kept(y, W)[p] = Kept(s, W)[p + m]
    <3>1. s[p + m] = y[p] /\ p + m \in Pos
      BY <1>3, <1>8, <2>1, Zenon
    <3> QED  BY <3>1, Zenon DEF Kept
  <2>2. PICK s1, p1, s2, p2, nx :
          s1 = Past(s) /\ p1 = Kept(s, W) /\ s2 = Past(y) /\ p2 = Kept(y, W) /\ nx = Following
    OBVIOUS
  <2>3. Shifted(m, s1, p1, nx, s2, p2, nx) /\ StopsPast(n, s2)
    BY <1>8, <1>9, <2>1, <2>2, Zenon DEF Shifted, StopsPast
  <2>4. Walks(f, Pos, s1, p1, nx) /\ Walks(h, Pos, s2, p2, nx)
    BY <1>4, <1>6, <2>2, Zenon DEF WithoutFrom
  <2>5. Later(f, m, h)
    BY ONLY <2>3, <2>4, WalkShift, m \in Nat, Zenon
  <2> QED  BY <1>7, <2>5, Zenon DEF Later
<1> QED  BY <1>1, <1>4, <1>5, <1>6, <1>10, <1>11, Zenon DEF WithoutSplit

LEMMA WithoutOne ==
  ASSUME NEW w, NEW W
  PROVE  Without(<<w>>, W) = IF w \in W THEN <<>> ELSE <<w>>
<1>1. <<w>> \in Seq({w}) /\ Len(<<w>>) = 1 /\ <<w>>[1] = w
  OBVIOUS
<1>0. PICK f : IsWithout(f, {w}, <<w>>, W)
  BY <1>1, WithoutExists, Zenon
<1>2. /\ Without(<<w>>, W) = f[1]
      /\ \A p \in Pos : p > Len(<<w>>) => f[p] = <<>>
      /\ \A p \in Pos : p <= Len(<<w>>) => f[p] = Kept(<<w>>, W)[p] \o f[p + 1]
  BY <1>0, Zenon DEF IsWithout
<1>3. 1 \in Pos /\ 2 \in Pos /\ 1 <= 1 /\ 2 > 1 /\ 1 + 1 = 2
  BY DEF Pos
<1>4. f[1] = Kept(<<w>>, W)[1] \o <<>>
  BY <1>1, <1>2, <1>3, Zenon
<1>5. Kept(<<w>>, W)[1] = IF w \in W THEN <<>> ELSE <<w>>
  BY <1>1, <1>3, Zenon DEF Kept
<1>6. Kept(<<w>>, W)[1] \in Seq({w})
  <2>1. <<>> \in Seq({w}) /\ <<w>> \in Seq({w})
    OBVIOUS
  <2> QED  BY <1>5, <2>1, Zenon
<1>7. \A t \in Seq({w}) : t \o <<>> = t
  BY ConcatEmptySeq
<1> QED  BY <1>2, <1>4, <1>5, <1>6, <1>7, Zenon
-----------------------------------------------------------------------------
(* Paths. *)

\* A text without a delimiter is its only part.
LEMMA OnePart ==
  ASSUME NEW T, NEW s \in Seq(T), NEW D, s # <<>>, \A i \in 1..Len(s) : s[i] \notin D
  PROVE  Parts(s, D) = <<s>>
<1>1. PICK f : PartsFrom(f, s, D) /\ Parts(s, D) = f[1]
  BY PartsExist, Zenon
<1>2. PICK n \in Nat : n = Len(s) /\ n > 0
  BY EmptySeq
<1>3. 1 \in Pos /\ n + 1 + 1 \in Pos /\ 1 <= n /\ n + 1 + 1 > n
  BY <1>2 DEF Pos
<1>4. PICK c : c = n + 1
  OBVIOUS
<1>5. PartEnds(s, D, 1, c)
  <2>1. c \in Nat /\ 1 <= c /\ c <= Len(s) + 1 /\ ~(c <= Len(s)) /\ \A j \in 1..(c - 1) : j \in 1..Len(s)
    BY <1>2, <1>4
  <2> QED  BY <2>1, Zenon DEF PartEnds
<1>6. Cut(s, D, 1) = c
  BY <1>2, <1>3, <1>5, CutIs, Zenon
<1>7. f[1] = <<SubSeq(s, 1, c - 1)>> \o f[c + 1] /\ f[c + 1] = <<>>
  <2>0. AreTexts(f, T, s, D)
    BY <1>1, PartsAreTexts, Zenon
  <2>1. /\ \A p \in Pos : p > Len(s) => f[p] = <<>>
        /\ \A p \in Pos : p <= Len(s) => f[p] = <<SubSeq(s, p, Cut(s, D, p) - 1)>> \o f[Cut(s, D, p) + 1]
    BY <2>0, Zenon DEF AreTexts
  <2> QED  BY <1>2, <1>3, <1>4, <1>6, <2>1, Zenon
<1>8. SubSeq(s, 1, c - 1) = s
  <2>1. c - 1 = Len(s)
    BY <1>2, <1>4
  <2> QED  BY <2>1, SubSeqFull, Zenon
<1>9. <<s>> \in Seq(Seq(T)) /\ \A t \in Seq(Seq(T)) : t \o <<>> = t
  BY ConcatEmptySeq
<1> QED  BY <1>1, <1>7, <1>8, <1>9, Zenon

\* One that ends in no delimiter: a delimiter behind it adds no part.
LEMMA PartsClosed ==
  ASSUME NEW T, NEW x \in Seq(T), NEW D, NEW d \in D, d \in T, x # <<>>, x[Len(x)] \notin D
  PROVE  Parts(x \o <<d>>, D) = Parts(x, D)
<1>1. PICK s \in Seq(T) : s = x \o <<d>> /\ Joint(s, x, <<d>>)
  <2>1. <<d>> \in Seq(T)
    OBVIOUS
  <2> QED  BY <2>1, JointConcat, Zenon
<1>2. PICK m \in Nat : m = Len(x) /\ m > 0 /\ x[m] \notin D
  BY EmptySeq
<1>3. Len(s) = m + 1 /\ (\A i \in 1..m : s[i] = x[i]) /\ s[m + 1] = d
  <2>1. Len(<<d>>) = 1 /\ 1 \in 1..1 /\ <<d>>[1] = d
    OBVIOUS
  <2> QED  BY <1>1, <1>2, <2>1, Zenon DEF Joint
<1>4. PICK f : PartsFrom(f, s, D) /\ Parts(s, D) = f[1]
  BY PartsExist, Zenon
<1>5. PICK g : PartsFrom(g, x, D) /\ Parts(x, D) = g[1]
  BY PartsExist, Zenon
<1>6. AreTexts(f, T, s, D) /\ AreTexts(g, T, x, D)
  BY <1>4, <1>5, PartsAreTexts, Zenon
<1> DEFINE S == {p \in Pos : p # m + 1 => f[p] = g[p]}
<1>7. ASSUME NEW p \in Pos, p > m PROVE p \in S
  <2>1. p # m + 1 => p > Len(s) /\ p > Len(x)
    BY <1>2, <1>3, <1>7 DEF Pos
  <2>2. p # m + 1 => f[p] = <<>> /\ g[p] = <<>>
    BY <1>6, <2>1, Zenon DEF AreTexts
  <2> QED  BY <2>2, Zenon
<1>8. ASSUME NEW p \in Pos, \A q \in Pos : q > p => q \in S PROVE p \in S
  <2>1. CASE p > m
    BY <1>7, <2>1, Zenon
  <2>2. CASE ~(p > m)
    <3>1. p \in Nat /\ p > 0 /\ p <= Len(x) /\ p <= Len(s)
      BY <1>2, <1>3, <2>2 DEF Pos
    <3>2. PICK c : c = Cut(x, D, p)
      OBVIOUS
    <3>3. PartEnds(x, D, p, c)
      BY <3>1, <3>2, CutFacts, Zenon
    <3>4. /\ c \in Nat /\ p <= c /\ c <= m + 1 /\ (c <= m => x[c] \in D)
          /\ \A j \in p..(c - 1) : x[j] \notin D
      BY <1>2, <3>3, Zenon DEF PartEnds
    <3>5. c # m
      BY <1>2, <3>4
    <3>6. PartEnds(s, D, p, c)
      <4>1. \A j \in p..(c - 1) : j \in 1..m
        BY <3>1, <3>4
      <4>2. \A j \in p..(c - 1) : s[j] \notin D
        BY <1>3, <3>4, <4>1, Zenon
      <4>3. c \in 1..m \/ c = m + 1
        BY <3>1, <3>4
      <4>4. s[c] \in D
        <5>1. CASE c = m + 1
          BY <1>3, <5>1, Zenon
        <5>2. CASE c \in 1..m
          <6>1. c <= m
            BY <5>2
          <6> QED  BY <1>3, <3>4, <5>2, <6>1, Zenon
        <5> QED  BY <4>3, <5>1, <5>2, Zenon
      <4>5. c <= Len(s) + 1
        BY <1>3, <3>4
      <4> QED  BY <3>4, <4>2, <4>4, <4>5, Zenon DEF PartEnds
    <3>7. Cut(s, D, p) = c
      BY <3>1, <3>6, CutIs, Zenon
    <3>8. SubSeq(s, p, c - 1) = SubSeq(x, p, c - 1)
      <4>1. \A i \in p..(c - 1) : i + 0 = i /\ i \in 1..m
        BY <3>1, <3>4
      <4>2. \A i \in p..(c - 1) : s[i + 0] = x[i]
        BY <1>3, <4>1, Zenon
      <4>3. /\ 0 \in Nat /\ p \in Nat /\ c - 1 \in Int /\ 1 <= p /\ c - 1 <= Len(x)
            /\ p <= c - 1 + 1 /\ c - 1 + 0 <= Len(s) /\ p + 0 = p /\ c - 1 + 0 = c - 1
        BY <1>2, <1>3, <3>1, <3>4
      <4>4. SameText(s, p + 0, c - 1 + 0, x, p, c - 1)
        BY <4>2, <4>3, SameElements, Zenon
      <4> QED  BY <4>3, <4>4, Zenon DEF SameText
    <3>9. f[p] = <<SubSeq(x, p, c - 1)>> \o f[c + 1] /\ g[p] = <<SubSeq(x, p, c - 1)>> \o g[c + 1]
      BY <1>6, <3>1, <3>2, <3>7, <3>8, Zenon DEF AreTexts
    <3>10. c + 1 \in Pos /\ c + 1 > p /\ c + 1 # m + 1
      BY <3>4, <3>5 DEF Pos
    <3>11. f[c + 1] = g[c + 1]
      BY <1>8, <3>10, Zenon
    <3> QED  BY <3>9, <3>11, Zenon
  <2> QED  BY <2>1, <2>2
<1>9. 1 \in S
  <2> HIDE DEF S
  <2>1. 1 \in Pos
    BY DEF Pos
  <2> QED  BY <1>7, <1>8, <2>1, Backwards, Zenon
<1>10. 1 # m + 1
  BY <1>2
<1> QED  BY <1>1, <1>4, <1>5, <1>9, <1>10, Zenon

\* Of a delimiter alone the only part is empty.
LEMMA DelimiterAlone ==
  ASSUME NEW D, NEW d \in D
  PROVE  Parts(<<d>>, D) = <<<<>>>>
<1>1. PICK s \in Seq(D) : s = <<d>> /\ Len(s) = 1 /\ s[1] = d
  <2>1. <<d>> \in Seq(D) /\ Len(<<d>>) = 1 /\ <<d>>[1] = d
    OBVIOUS
  <2> QED  BY <2>1, Zenon
<1>2. PICK f : PartsFrom(f, s, D) /\ Parts(s, D) = f[1]
  BY PartsExist, Zenon
<1>3. AreTexts(f, D, s, D)
  BY <1>2, PartsAreTexts, Zenon
<1>4. 1 \in Pos /\ 2 \in Pos /\ 1 <= 1 /\ 2 > 1 /\ 1 + 1 = 2 /\ 1 - 1 = 0
  BY DEF Pos
<1>5. PartEnds(s, D, 1, 1)
  <2>1. 1 \in Nat /\ 1 <= 1 + 1 /\ \A j \in 1..(1 - 1) : FALSE
    OBVIOUS
  <2> QED  BY <1>1, <1>4, <2>1, Zenon DEF PartEnds
<1>6. Cut(s, D, 1) = 1
  BY <1>1, <1>4, <1>5, CutIs, Zenon
<1>7. f[1] = <<SubSeq(s, 1, 0)>> \o f[2] /\ f[2] = <<>>
  BY <1>1, <1>3, <1>4, <1>6, Zenon DEF AreTexts
<1>8. SubSeq(s, 1, 0) = <<>>
  BY SubSeqEmpty
<1>9. <<<<>>>> \o <<>> = <<<<>>>>
  <2>1. <<<<>>>> \in Seq({<<>>})
    OBVIOUS
  <2> QED  BY <2>1, ConcatEmptySeq
<1> QED  BY <1>1, <1>2, <1>7, <1>8, <1>9, Zenon

\* A text without blanks is trimmed already.
LEMMA Trimmed ==
  ASSUME NEW T, NEW w \in Seq(T), \A i \in 1..Len(w) : w[i] \notin Blank
  PROVE  trim(w) = w
<1>1. PICK n \in Nat : n = Len(w)
  OBVIOUS
<1>2. {i \in DOMAIN w : w[i] \notin Blank} = 1..n
  BY <1>1
<1>3. CASE n = 0
  <2>1. w = <<>>
    BY <1>1, <1>3, EmptySeq
  <2>2. 1..n = {}
    BY <1>3
  <2> QED  BY <1>2, <2>1, <2>2, Zenon DEF trim
<1>4. CASE n > 0
  <2>1. 1..n # {} /\ 1..n \subseteq Nat /\ 1..n \subseteq 0..n
    BY <1>4
  <2>2. PICK a, b : a = Min(1..n) /\ b = Max(1..n)
    OBVIOUS
  <2>3. a \in 1..n /\ \A y \in 1..n : a <= y
    BY <2>1, <2>2, Smallest, Zenon
  <2>4. b \in 1..n /\ \A y \in 1..n : y <= b
    BY <2>1, <2>2, Largest, Zenon
  <2>5. a = 1 /\ b = n
    BY <1>4, <2>3, <2>4
  <2>6. trim(w) = SubSeq(w, 1, n)
    BY <1>2, <2>1, <2>2, <2>5, Zenon DEF trim
  <2> QED  BY <1>1, <2>6, SubSeqFull, Zenon
<1> QED  BY <1>1, <1>3, <1>4

\* What is left of a text begins with no blank.
TrimmedFrom(T, s, w) ==
  /\ w \in Seq(T)
  /\ w # <<>> => w[1] \notin Blank
  /\ s # <<>> /\ s[1] \notin Blank => w # <<>> /\ w[1] = s[1]

LEMMA TrimFacts ==
  ASSUME NEW T, NEW s \in Seq(T)
  PROVE  TrimmedFrom(T, s, trim(s))
<1> DEFINE ink == {i \in DOMAIN s : s[i] \notin Blank}
<1>1. PICK n \in Nat : n = Len(s) /\ DOMAIN s = 1..n
  OBVIOUS
<1>2. ink \subseteq 1..n /\ \A i \in ink : s[i] \notin Blank
  BY <1>1
<1>3. s # <<>> /\ s[1] \notin Blank => 1 \in ink
  BY <1>1
<1>4. trim(s) = IF ink = {} THEN <<>> ELSE SubSeq(s, Min(ink), Max(ink))
  BY Zenon DEF trim
<1> HIDE DEF ink
<1>5. CASE ink = {}
  <2>1. trim(s) = <<>> /\ <<>> \in Seq(T)
    BY <1>4, <1>5
  <2> QED  BY <1>3, <1>5, <2>1, Zenon DEF TrimmedFrom
<1>6. CASE ink # {}
  <2>1. ink \subseteq Nat /\ ink \subseteq 0..n
    BY <1>2
  <2>2. PICK a, b : a = Min(ink) /\ b = Max(ink)
    OBVIOUS
  <2>3. a \in ink /\ \A y \in ink : a <= y
    BY <1>6, <2>1, <2>2, Smallest, Zenon
  <2>4. b \in ink /\ \A y \in ink : y <= b
    BY <1>6, <2>1, <2>2, Largest, Zenon
  <2>5. a \in 1..n /\ b \in 1..n /\ a <= b
    BY <1>2, <2>3, <2>4
  <2>6. PICK w : w = SubSeq(s, a, b)
    OBVIOUS
  <2>7. w \in Seq(T) /\ Len(w) > 0 /\ w[1] = s[a]
    BY <1>1, <2>5, <2>6
  <2>8. w # <<>>
    BY <2>7
  <2>9. 1 \in ink => a = 1
    BY <2>3, <2>5
  <2>10. s[a] \notin Blank
    BY <1>2, <2>3
  <2>11. trim(s) = w
    BY <1>4, <1>6, <2>2, <2>6, Zenon
  <2> QED  BY <1>3, <2>7, <2>8, <2>9, <2>10, <2>11, Zenon DEF TrimmedFrom
<1> QED  BY <1>5, <1>6

\* The first word of a text begins as the text does.
BeginsWith(T, ws, c) ==
  \E w \in Seq(T), rest \in Seq(Seq(T)) :
    ws = <<w>> \o rest /\ w # <<>> /\ w[1] = c

LEMMA FirstWord ==
  ASSUME NEW T, NEW s \in Seq(T), s # <<>>, s[1] \notin Blank, NEW d \in Blank
  PROVE  BeginsWith(T, split(s, d), s[1])
<1> DEFINE D == {d}
           W == {<<>>}
<1>1. PICK f : PartsFrom(f, s, D) /\ Parts(s, D) = f[1]
  BY PartsExist, Zenon
<1>2. AreTexts(f, T, s, D)
  BY <1>1, PartsAreTexts, Zenon
<1>3. PICK n \in Nat : n = Len(s) /\ 1 <= n
  BY EmptySeq
<1>4. 1 \in Pos /\ 1 <= Len(s)
  BY <1>3 DEF Pos
<1>5. PICK c : c = Cut(s, D, 1)
  OBVIOUS
<1>6. /\ c \in Nat /\ 1 <= c /\ c <= n + 1
      /\ c <= n => s[c] \in D
  BY <1>3, <1>4, <1>5, CutFacts, Zenon DEF PartEnds
<1>7. c # 1
  <2>1. s[1] \notin D
    OBVIOUS
  <2> QED  BY <1>3, <1>6, <2>1, Zenon
<1>8. PICK v : v = SubSeq(s, 1, c - 1)
  OBVIOUS
<1>9. v \in Seq(T) /\ v # <<>> /\ v[1] = s[1]
  <2>1. c - 1 \in 1..n
    BY <1>6, <1>7
  <2>2. v \in Seq(T) /\ Len(v) = c - 1 /\ v[1] = s[1]
    BY <1>3, <1>8, <2>1
  <2> QED  BY <2>1, <2>2
<1>10. PICK w : w = trim(v)
  OBVIOUS
<1>11. w \in Seq(T) /\ w # <<>> /\ w[1] = s[1]
  BY <1>9, <1>10, TrimFacts, Zenon DEF TrimmedFrom
<1>12. PICK parts \in Seq(Seq(T)) : parts = f[1] /\ Len(parts) >= 1 /\ parts[1] = v
  <2>1. c + 1 \in Pos
    BY <1>6 DEF Pos
  <2>2. PICK more \in Seq(Seq(T)) : more = f[c + 1]
    BY <1>2, <2>1, Zenon DEF AreTexts
  <2>3. f[1] = <<v>> \o more
    BY <1>2, <1>4, <1>5, <1>8, <2>2, Zenon DEF AreTexts
  <2>4. <<v>> \in Seq(Seq(T)) /\ Len(<<v>>) = 1 /\ <<v>>[1] = v
    BY <1>9
  <2>5. /\ <<v>> \o more \in Seq(Seq(T)) /\ Len(<<v>> \o more) = Len(<<v>>) + Len(more)
        /\ \A i \in 1..Len(<<v>>) : (<<v>> \o more)[i] = <<v>>[i]
    BY <2>4, ConcatProperties
  <2>6. 1 \in 1..1 /\ Len(more) \in Nat
    BY <2>2
  <2>7. (<<v>> \o more)[1] = v
    BY <2>4, <2>5, <2>6, Zenon
  <2>8. Len(<<v>> \o more) >= 1
    BY <2>4, <2>5, <2>6
  <2> QED  BY <2>3, <2>5, <2>7, <2>8, Zenon
<1>13. PICK q : q = [i \in DOMAIN parts |-> trim(parts[i])]
  OBVIOUS
<1>14. q \in Seq(Seq(T)) /\ Len(q) >= 1 /\ q[1] = w
  <2>1. \A i \in DOMAIN parts : trim(parts[i]) \in Seq(T)
    <3> TAKE i \in DOMAIN parts
    <3>1. PICK x \in Seq(T) : x = parts[i]
      OBVIOUS
    <3> QED  BY <3>1, TrimFacts, Zenon DEF TrimmedFrom
  <2>2. DOMAIN parts = 1..Len(parts) /\ 1 \in 1..Len(parts)
    BY <1>12
  <2>3. PICK U, m : U = Seq(T) /\ m = Len(parts)
    OBVIOUS
  <2>4. parts \in Seq(U) /\ q \in [1..m -> U]
    BY <1>13, <2>1, <2>2, <2>3, Zenon
  <2>5. q \in Seq(U) /\ Len(q) = m
    <3>1. m \in Nat
      BY <2>3, <2>4, LenProperties, Zenon
    <3> QED  BY ONLY <2>4, <3>1
  <2>6. Len(q) >= 1 /\ 1 \in DOMAIN parts
    BY <1>12, <2>2, <2>3, <2>5
  <2>7. q[1] = w
    BY <1>10, <1>12, <1>13, <2>6, Zenon
  <2> QED  BY <2>3, <2>5, <2>6, <2>7, Zenon
<1>15. split(s, d) = Without(q, W)
  BY <1>1, <1>12, <1>13, Zenon DEF split, getlines
<1>16. PICK g : IsWithout(g, Seq(T), q, W)
  BY <1>14, WithoutExists, Zenon
<1>17. Kept(q, W)[1] = <<w>>
  BY <1>4, <1>11, <1>14, Zenon DEF Kept
<1>18. Without(q, W) = <<w>> \o g[2] /\ g[2] \in Seq(Seq(T))
  <2>1. 1 + 1 = 2 /\ 2 \in Pos /\ 1 <= Len(q)
    BY <1>14 DEF Pos
  <2> QED  BY <1>4, <1>16, <1>17, <2>1, Zenon DEF IsWithout
<1> QED  BY <1>11, <1>15, <1>18, Zenon DEF BeginsWith
=============================================================================
