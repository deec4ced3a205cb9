---------------------------- MODULE ClientProofs ----------------------------
(***************************************************************************)
(* Framing is right however the bytes are cut into reads: for any requests *)
(* and anything behind them, any lengths and any size of a read, a request *)
(* is complete with its last byte, the handler gets the body that was      *)
(* meant, in whatever chunks it was sent, and behind a request that is not *)
(* chunked just the rest is kept.                                          *)
(***************************************************************************)
EXTENDS Client, Recursion

Prefix(n) == SubSeq(Stream, 1, n)
Headers == HeadOf(request)
Whole == Len(Encode(request))
Meant == Len(Sent(request))
Plainly == request.kind # "chunked"

\* Until the last byte is there, everything that was read is in the buffer,
\* undecoded; a length is only known of a request whose headers are there.
Reading ==
  /\ taken < Whole /\ request_buffer = Prefix(taken)
  /\ content_parsed => Plainly /\ Len(Headers) <= taken /\ content_length = Meant

\* Then the request is complete, until it is handed over: with what else was
\* read, or decoded.
Reassembled == IF Plainly THEN Prefix(taken) ELSE Headers \o Body(request)

Complete ==
  /\ taken >= Whole /\ ~content_parsed
  /\ request_buffer = Reassembled

\* The inductive invariant, of the requests the code is right about.
Framed ==
  Understood(request) =>
    IF handed # <<>>
    THEN /\ taken >= Whole /\ ~request_complete
         /\ handed = <<Reassembled>>
         /\ Plainly => request_buffer = Rest
    ELSE IF request_complete THEN Complete ELSE Reading

FInv ==
  /\ request \in Requests /\ extra \in Extras
  /\ taken \in 0..Len(Stream)
  /\ request_complete \in BOOLEAN /\ content_parsed \in BOOLEAN
  /\ Framed
-----------------------------------------------------------------------------
(* string::find. *)

Hits(s, pat) ==
  {k \in 1..(Len(s) - Len(pat) + 1) : SubSeq(s, k, k + Len(pat) - 1) = pat}

\* The first hit, or 0 if there is none.
LEMMA FindFacts ==
  ASSUME NEW s \in Text, NEW pat \in Text
  PROVE  /\ Hits(s, pat) = {} => Find(s, pat) = 0
         /\ Hits(s, pat) # {} =>
              /\ Find(s, pat) \in Hits(s, pat)
              /\ \A k \in Hits(s, pat) : Find(s, pat) <= k
<1>1. Find(s, pat) = IF Hits(s, pat) = {} THEN 0 ELSE Min(Hits(s, pat))
  BY DEF Find, FindFrom, Within, npos, Hits
<1>2. Hits(s, pat) \subseteq Nat
  BY DEF Hits
<1> QED  BY <1>1, <1>2, Smallest

\* In a beginning of s there are the hits of s that end in it.
LEMMA HitsInPrefix ==
  ASSUME NEW s \in Text, NEW pat \in Text, Len(pat) > 0, NEW t \in 0..Len(s)
  PROVE  Hits(SubSeq(s, 1, t), pat) = {k \in Hits(s, pat) : k + Len(pat) - 1 <= t}
<1> DEFINE x == SubSeq(s, 1, t)
<1>1. x \in Text /\ Len(x) = t
  BY SubSeqProperties DEF Text
<1>2. ASSUME NEW k \in 1..(t - Len(pat) + 1)
      PROVE  SubSeq(x, k, k + Len(pat) - 1) = SubSeq(s, k, k + Len(pat) - 1)
  <2>1. Len(pat) \in Nat /\ Len(s) \in Nat
    BY DEF Text
  <2> QED  BY <1>2, <2>1, SubSeqOfSubSeq DEF Text
<1> HIDE DEF x
<1>3. Len(pat) \in Nat /\ Len(s) \in Nat
  BY DEF Text
<1>4. \A k : k \in Hits(x, pat) <=> k \in 1..(t - Len(pat) + 1) /\ SubSeq(s, k, k + Len(pat) - 1) = pat
  BY <1>1, <1>2 DEF Hits
<1>5. \A k : k \in Hits(s, pat) /\ k + Len(pat) - 1 <= t
        <=> k \in 1..(t - Len(pat) + 1) /\ SubSeq(s, k, k + Len(pat) - 1) = pat
  BY <1>3 DEF Hits
<1> QED  BY <1>4, <1>5 DEF x

\* If a pattern comes first at the end of a beginning of s, a beginning of s
\* has it, and has it there, exactly if it is as long.
LEMMA FindInPrefix ==
  ASSUME NEW s \in Text, NEW pat \in Text, Len(pat) > 0,
         NEW m \in 0..Len(s), m >= Len(pat),
         Find(SubSeq(s, 1, m), pat) = m - Len(pat) + 1,
         NEW t \in 0..Len(s)
  PROVE  Find(SubSeq(s, 1, t), pat) = IF t >= m THEN m - Len(pat) + 1 ELSE 0
<1> DEFINE x == SubSeq(s, 1, m)
           y == SubSeq(s, 1, t)
           f == m - Len(pat) + 1
<1>1. Len(pat) \in Nat /\ Len(s) \in Nat /\ f \in Nat /\ f > 0 /\ x \in Text /\ y \in Text
  BY SubSeqProperties DEF Text
<1>2. Hits(x, pat) = {k \in Hits(s, pat) : k + Len(pat) - 1 <= m}
  BY HitsInPrefix
<1>3. Hits(y, pat) = {k \in Hits(s, pat) : k + Len(pat) - 1 <= t}
  BY HitsInPrefix
<1>4. Find(x, pat) = f
  OBVIOUS
<1>5. f \in Hits(x, pat) /\ \A k \in Hits(x, pat) : f <= k
  BY <1>1, <1>4, FindFacts
<1> HIDE DEF x, y
<1>6. \A k \in Hits(s, pat) : k \in Nat
  BY DEF Hits
<1>7. f \in Hits(s, pat) /\ \A k \in Hits(s, pat) : f <= k
  BY <1>1, <1>2, <1>5, <1>6
<1>8. CASE t < m
  <2>1. Hits(y, pat) = {}
    BY <1>1, <1>3, <1>6, <1>7, <1>8
  <2> QED  BY <1>1, <1>8, <2>1, FindFacts DEF y
<1>9. CASE t >= m
  <2>1. f \in Hits(y, pat) /\ \A k \in Hits(y, pat) : f <= k
    BY <1>1, <1>3, <1>7, <1>9
  <2>2. Find(y, pat) \in Hits(y, pat) /\ Find(y, pat) <= f
    BY <1>1, <2>1, FindFacts
  <2>3. Find(y, pat) = f
    BY <1>1, <1>3, <1>6, <2>1, <2>2
  <2> QED  BY <1>9, <2>3 DEF y
<1> QED  BY <1>8, <1>9
-----------------------------------------------------------------------------
(* strtoul. *)

\* The value of the digits at the places in s, the last one first.
Values(g, D, w) ==
  g = [s \in D |-> IF s = {} THEN 0 ELSE 16 * g[s \ {Max(s)}] + w[Max(s)]]

LEMMA LastOne ==
  ASSUME NEW n \in Nat, NEW s \in SUBSET (1..n), s # {}
  PROVE  /\ Max(s) \in s /\ s \ {Max(s)} \in SUBSET (1..n)
         /\ Max(s) <= n
         /\ s \ {Max(s)} \in SUBSET (1..(Max(s) - 1))
<1>1. s \subseteq 0..n
  OBVIOUS
<1>2. Max(s) \in s /\ \A y \in s : y <= Max(s)
  BY <1>1, Largest, Zenon
<1>3. PICK x : x = Max(s)
  OBVIOUS
<1>x. x \in s /\ \A y \in s : y <= x
  BY <1>2, <1>3, Zenon
<1>y. x \in Nat /\ x <= n /\ \A y \in s : y \in Nat /\ y >= 1
  BY <1>x
<1>4. s \ {x} \in SUBSET (1..n) /\ s \ {x} \in SUBSET (1..(x - 1))
  BY <1>x, <1>y
<1> QED  BY <1>3, <1>x, <1>y, <1>4, Zenon

LEMMA ValuesExist ==
  ASSUME NEW n \in Nat, NEW w
  PROVE  \E g : Values(g, SUBSET (1..n), w)
<1> DEFINE S == {k \in Nat : \E g : Values(g, SUBSET (1..k), w)}
<1>1. 0 \in S
  <2> DEFINE g == [s \in SUBSET (1..0) |-> 0]
  <2>1. \A s \in SUBSET (1..0) : s = {}
    OBVIOUS
  <2>2. Values(g, SUBSET (1..0), w)
    BY <2>1 DEF Values
  <2> QED  BY <2>2
<1>2. ASSUME NEW k \in Nat, k \in S PROVE k + 1 \in S
  <2>1. PICK g : Values(g, SUBSET (1..k), w)
    BY <1>2
  <2> DEFINE Big == SUBSET (1..(k + 1))
             Small == SUBSET (1..k)
             Top(s) == k + 1 \in s
             h == [s \in Big |-> IF Top(s) THEN 16 * g[s \ {Max(s)}] + w[Max(s)] ELSE g[s]]
  <2>2. \A s \in Big : Top(s) => s # {} /\ s \ {Max(s)} \in Small /\ s \ {Max(s)} \in Big
    <3> TAKE s \in Big
    <3> HAVE Top(s)
    <3>1. s \subseteq 0..(k + 1) /\ s # {} /\ k + 1 \in Nat
      OBVIOUS
    <3>2. Max(s) \in s /\ \A y \in s : y <= Max(s)
      BY <3>1, Largest, Zenon
    <3>m. PICK x : x = Max(s)
      OBVIOUS
    <3>x. x \in s /\ \A y \in s : y <= x
      BY <3>2, <3>m, Zenon
    <3>y. x <= k + 1 /\ k + 1 <= x /\ x \in Nat
      BY <3>1, <3>x
    <3>3. Max(s) = k + 1
      BY <3>m, <3>y
    <3> QED  BY <3>1, <3>3
  <2>3. \A s \in Big : ~Top(s) /\ s # {} =>
          s \in Small /\ s \ {Max(s)} \in Small /\ s \ {Max(s)} \in Big
    <3> TAKE s \in Big
    <3> HAVE ~Top(s) /\ s # {}
    <3>1. s \in Small
      OBVIOUS
    <3>2. s \ {Max(s)} \in Small
      BY <3>1
    <3>3. s \ {Max(s)} \in Big
      BY <3>1
    <3> QED  BY <3>1, <3>2, <3>3
  <2>4. \A s \in Small : s \in Big /\ ~Top(s)
    OBVIOUS
  <2>5. \A s \in Small : g[s] = IF s = {} THEN 0 ELSE 16 * g[s \ {Max(s)}] + w[Max(s)]
    BY <2>1, Zenon DEF Values
  <2>e. {} \in Small /\ {} \in Big
    OBVIOUS
  <2> HIDE DEF Big, Small, Top
  <2>6. \A s \in Small : h[s] = g[s]
    BY <2>4, Zenon DEF h
  <2>7. ASSUME NEW s \in Big
        PROVE  h[s] = IF s = {} THEN 0 ELSE 16 * h[s \ {Max(s)}] + w[Max(s)]
    <3>1. CASE Top(s)
      <4>1. h[s] = 16 * g[s \ {Max(s)}] + w[Max(s)]
        BY <3>1, Zenon DEF h
      <4>2. s # {} /\ h[s \ {Max(s)}] = g[s \ {Max(s)}]
        BY <2>2, <2>6, <3>1, Zenon
      <4> QED  BY <4>1, <4>2, Zenon
    <3>2. CASE ~Top(s) /\ s # {}
      <4>1. s \in Small /\ h[s] = g[s] /\ h[s \ {Max(s)}] = g[s \ {Max(s)}]
        BY <2>3, <2>6, <3>2, Zenon
      <4> QED  BY <2>5, <3>2, <4>1, Zenon
    <3>3. CASE s = {}
      BY <2>5, <2>6, <2>e, <3>3, Zenon
    <3> QED  BY <3>1, <3>2, <3>3, Zenon
  <2>8. h = [s \in Big |-> h[s]]
    BY Zenon DEF h
  <2>9. [s \in Big |-> h[s]]
          = [s \in Big |-> IF s = {} THEN 0 ELSE 16 * h[s \ {Max(s)}] + w[Max(s)]]
    BY <2>7, Zenon
  <2>10. Values(h, Big, w)
    BY <2>8, <2>9, Zenon DEF Values
  <2>11. k + 1 \in Nat
    OBVIOUS
  <2> QED  BY <2>10, <2>11, Zenon DEF Big
<1>3. \A i \in Nat : i \in S /\ i < n => i + 1 \in S
  BY <1>2, Zenon
<1>4. n \in 0..n
  OBVIOUS
<1>5. n \in S
  <2> HIDE DEF S
  <2> QED  BY <1>1, <1>3, <1>4, Reaches, Zenon
<1> QED  BY <1>5, Zenon

LEMMA ValuesAreNatural ==
  ASSUME NEW n \in Nat, NEW w \in [1..n -> Nat], NEW g, Values(g, SUBSET (1..n), w)
  PROVE  /\ \A s \in SUBSET (1..n) : g[s] \in Nat
         /\ g[{}] = 0
         /\ n = 1 => g[1..1] = w[1]
<1> DEFINE S == {k \in 0..n : \A s \in SUBSET (1..k) : g[s] \in Nat}
<1>1. \A s \in SUBSET (1..n) : g[s] = IF s = {} THEN 0 ELSE 16 * g[s \ {Max(s)}] + w[Max(s)]
  BY Zenon DEF Values
<1>2. {} \in SUBSET (1..n) /\ g[{}] = 0
  BY <1>1
<1>3. 0 \in S
  BY <1>2
<1>4. ASSUME NEW k \in Nat, k \in S, k < n PROVE k + 1 \in S
  <2>1. ASSUME NEW s \in SUBSET (1..(k + 1)) PROVE g[s] \in Nat
    <3>1. CASE s = {}
      BY <1>2, <3>1
    <3>2. CASE s # {}
      <4>1. s \in SUBSET (1..n) /\ k + 1 \in Nat
        BY <1>4, <2>1
      <4>2. /\ Max(s) \in s /\ Max(s) <= k + 1
            /\ s \ {Max(s)} \in SUBSET (1..(Max(s) - 1))
        BY <2>1, <3>2, <4>1, LastOne, Zenon
      <4>3. s \ {Max(s)} \in SUBSET (1..k) /\ Max(s) \in 1..n
        <5>1. PICK x : x = Max(s)
          OBVIOUS
        <5>2. x \in 1..(k + 1) /\ x <= k + 1 /\ s \ {x} \in SUBSET (1..(x - 1))
          BY <2>1, <4>2, <5>1
        <5>3. s \ {x} \in SUBSET (1..k) /\ x \in 1..n
          BY <1>4, <5>2
        <5> QED  BY <5>1, <5>3, Zenon
      <4>4. g[s \ {Max(s)}] \in Nat /\ w[Max(s)] \in Nat
        BY <1>4, <4>3
      <4>5. g[s] = 16 * g[s \ {Max(s)}] + w[Max(s)]
        BY <1>1, <3>2, <4>1, Zenon
      <4> QED  BY <4>4, <4>5
    <3> QED  BY <3>1, <3>2
  <2>2. k + 1 \in 0..n
    BY <1>4
  <2> QED  BY <2>1, <2>2
<1>5. \A i \in Nat : i \in S /\ i < n => i + 1 \in S
  BY <1>4, Zenon
<1>6. n \in 0..n
  OBVIOUS
<1>7. n \in S
  <2> HIDE DEF S
  <2> QED  BY <1>3, <1>5, <1>6, Reaches, Zenon
<1>8. ASSUME n = 1 PROVE g[1..1] = w[1]
  <2>1. 1..1 = {1} /\ 1..1 \in SUBSET (1..n) /\ 1..1 # {}
    BY <1>8
  <2>2. Max(1..1) \in 1..1
    BY <1>8, <2>1, LastOne
  <2>3. Max(1..1) = 1 /\ (1..1) \ {1} = {}
    BY <2>1, <2>2
  <2>4. g[1..1] = 16 * g[(1..1) \ {Max(1..1)}] + w[Max(1..1)]
    BY <1>1, <2>1, Zenon
  <2>5. g[1..1] = 16 * g[{}] + w[1]
    BY <2>3, <2>4, Zenon
  <2>6. w[1] \in Nat
    BY <1>8
  <2> QED  BY <1>2, <2>5, <2>6
<1> QED  BY <1>2, <1>7, <1>8

LEMMA StrtoulFacts ==
  ASSUME NEW s \in Text
  PROVE  /\ strtoul(s) \in Nat
         /\ s = <<"0">> => strtoul(s) = 0
<1> DEFINE digits == {n \in 0..Len(s) : \A k \in 1..n : s[k] \in DOMAIN Digit}
           m == Max(digits)
           t == SubSeq(s, 1, m)
           w == [i \in 1..m |-> Digit[t[i]]]
           D == SUBSET (1..m)
<1>1. Len(s) \in Nat
  BY DEF Text
<1>2. digits \subseteq 0..Len(s) /\ 0 \in digits
  BY <1>1
<1>3. m \in digits /\ \A y \in digits : y <= m
  <2> HIDE DEF digits
  <2> QED  BY <1>1, <1>2, Largest
<1>4. m \in 0..Len(s) /\ m \in Nat /\ \A k \in 1..m : s[k] \in DOMAIN Digit
  BY <1>1, <1>3
<1> HIDE DEF m
<1>5. t \in Text /\ Len(t) = m /\ DOMAIN t = 1..m /\ \A k \in 1..m : t[k] = s[k]
  BY <1>1, <1>4, SubSeqProperties DEF Text
<1>6. w \in [1..m -> Nat]
  <2>1. \A k \in 1..m : Digit[t[k]] \in Nat
    BY <1>4, <1>5, ClientAssumption
  <2> QED  BY <2>1
<1>7. PICK g : g = CHOOSE f : f = [i \in SUBSET (1..m) |->
                 IF i = {} THEN 0 ELSE 16 * f[i \ {Max(i)}] + Digit[t[Max(i)]]]
  OBVIOUS
<1>8. strtoul(s) = g[1..m]
  <2>1. strtoul(s) = FoldLeft(LAMBDA v, d : 16 * v + Digit[d], 0, t)
    BY Zenon DEF strtoul, m
  <2>2. FoldLeft(LAMBDA v, d : 16 * v + Digit[d], 0, t) = g[DOMAIN t]
    <3> HIDE DEF t
    <3> QED BY <1>5, <1>7, Zenon DEF FoldLeft, MapThenFoldSet
  <2> QED  BY <1>5, <2>1, <2>2, Zenon
<1> DEFINE Value(f, i) == IF i = {} THEN 0 ELSE 16 * f[i \ {Max(i)}] + Digit[t[Max(i)]]
           V(f, i) == IF i = {} THEN 0 ELSE 16 * f[i \ {Max(i)}] + w[Max(i)]
<1>9. \A f : \A i \in D : Value(f, i) = V(f, i)
  <2> TAKE f
  <2> TAKE i \in D
  <2>1. i # {} => Max(i) \in 1..m
    BY <1>4, LastOne
  <2> QED  BY <2>1
<1>10. \A f : [i \in D |-> Value(f, i)] = [i \in D |-> V(f, i)]
  <2> HIDE DEF Value, V, D
  <2> QED  BY <1>9, Zenon
<1>11. \A f : Values(f, D, w) <=> f = [i \in D |-> Value(f, i)]
  BY <1>10, Zenon DEF Values
<1>12. g = CHOOSE f : f = [i \in D |-> Value(f, i)]
  BY <1>7, Zenon
<1>13. Values(g, D, w)
  <2>1. \E f : Values(f, D, w)
    BY <1>4, ValuesExist, Zenon
  <2>2. \E f : f = [i \in D |-> Value(f, i)]
    BY <1>11, <2>1, Zenon
  <2>3. g = [i \in D |-> Value(g, i)]
    BY <1>12, <2>2, Zenon
  <2> QED  BY <1>11, <2>3, Zenon
<1> HIDE DEF w, t, D
<1>14. /\ \A i \in SUBSET (1..m) : g[i] \in Nat
       /\ m = 1 => g[1..1] = w[1]
  BY <1>4, <1>6, <1>13, ValuesAreNatural, Zenon DEF D
<1>15. strtoul(s) \in Nat
  BY <1>8, <1>14
<1>16. ASSUME s = <<"0">> PROVE strtoul(s) = 0
  <2>1. Len(s) = 1 /\ s[1] = "0" /\ "0" \in DOMAIN Digit /\ Digit["0"] = 0
    BY <1>16, ClientAssumption
  <2>2. 1 \in digits
    BY <2>1
  <2>3. m = 1
    BY <1>3, <1>4, <2>1, <2>2
  <2>4. t[1] = "0" /\ 1 \in 1..m
    BY <1>5, <2>1, <2>3
  <2>5. w[1] = 0
    BY <2>1, <2>4, Zenon DEF w
  <2>6. g[1..1] = 0
    BY <1>14, <2>3, <2>5, Zenon
  <2> QED  BY <1>8, <2>3, <2>6, Zenon
<1> QED  BY <1>15, <1>16
-----------------------------------------------------------------------------
(* decodeChunkedBody. *)

LEMMA CrlfFrom ==
  ASSUME NEW s \in Text, NEW pos \in Nat \ {0}
  PROVE  LET hits == {k \in pos..Len(s) : s[k] = "N"}
             eol == FindFrom(s, CRLF, pos)
         IN  /\ hits = {} => eol = 0
             /\ hits # {} => eol \in hits /\ \A k \in hits : eol <= k
<1> DEFINE hits == {k \in pos..Len(s) : s[k] = "N"}
           found == {k \in pos..(Len(s) - Len(CRLF) + 1) :
                       SubSeq(s, k, k + Len(CRLF) - 1) = CRLF}
<1>1. Len(s) \in Nat /\ Len(CRLF) = 1
  BY DEF Text, CRLF
<1>2. Len(s) - Len(CRLF) + 1 = Len(s)
  BY <1>1
<1>3. ASSUME NEW k \in pos..Len(s) PROVE SubSeq(s, k, k) = <<s[k]>>
  <2>1. k \in 1..Len(s) /\ k \in Int /\ k - k + 1 = 1
    BY <1>1, <1>3
  <2>2. PICK t : t = SubSeq(s, k, k)
    OBVIOUS
  <2>3. t \in Seq(Token) /\ Len(t) = 1 /\ t[1] = s[k]
    BY <2>1, <2>2, SubSeqProperties DEF Text
  <2>4. t = <<t[1]>>
    BY <2>3
  <2> QED  BY <2>2, <2>3, <2>4, Zenon
<1>4. \A k \in pos..Len(s) : SubSeq(s, k, k + Len(CRLF) - 1) = CRLF <=> s[k] = "N"
  <2> TAKE k \in pos..Len(s)
  <2>1. k + Len(CRLF) - 1 = k
    BY <1>1
  <2>2. SubSeq(s, k, k) = <<s[k]>>
    BY <1>3
  <2>3. <<s[k]>> = <<"N">> <=> s[k] = "N"
    OBVIOUS
  <2> QED  BY <2>1, <2>2, <2>3, Zenon DEF CRLF
<1>5. found = hits
  <2>1. found = {k \in pos..Len(s) : SubSeq(s, k, k + Len(CRLF) - 1) = CRLF}
    BY <1>2, Zenon
  <2> QED  BY <1>4, <2>1, Zenon
<1>6. FindFrom(s, CRLF, pos) = IF found = {} THEN 0 ELSE Min(found)
  BY Zenon DEF FindFrom, Within, npos
<1>7. hits \subseteq Nat
  BY <1>1
<1> HIDE DEF hits, found
<1>8. hits # {} => Min(hits) \in hits /\ \A k \in hits : Min(hits) <= k
  BY <1>7, Smallest, Zenon
<1>9. FindFrom(s, CRLF, pos) = IF hits = {} THEN 0 ELSE Min(hits)
  BY <1>5, <1>6, Zenon
<1>10. /\ hits = {} => FindFrom(s, CRLF, pos) = 0
       /\ hits # {} => FindFrom(s, CRLF, pos) = Min(hits)
  BY <1>9
<1> QED  BY <1>8, <1>10, Zenon DEF hits

\* The chunk that begins at pos: where its size line ends, its size, and what
\* of its data is there.
Eol(data, pos) == FindFrom(data, CRLF, pos)
Size(data, pos) == strtoul(SubSeq(data, pos, Eol(data, pos) - 1))
Chunk(data, pos) ==
  IF Eol(data, pos) + Size(data, pos) <= Len(data)
  THEN SubSeq(data, Eol(data, pos) + 1, Eol(data, pos) + Size(data, pos)) ELSE <<>>
Ends(data, pos) == pos > Len(data) \/ Eol(data, pos) = 0 \/ Size(data, pos) = 0
After(data, pos) == Eol(data, pos) + Size(data, pos) + 2

Decodes(f, data) ==
  f = [pos \in Nat \ {0} |-> IF Ends(data, pos) THEN <<>>
                             ELSE Chunk(data, pos) \o f[After(data, pos)]]

LEMMA ChunkFacts ==
  ASSUME NEW data \in Text, NEW pos \in Nat \ {0}, ~Ends(data, pos)
  PROVE  /\ pos <= Eol(data, pos) /\ Eol(data, pos) <= Len(data)
         /\ Eol(data, pos) \in Nat /\ Size(data, pos) \in Nat /\ Size(data, pos) > 0
         /\ After(data, pos) \in Nat \ {0} /\ After(data, pos) > pos
         /\ Chunk(data, pos) \in Text
         /\ Len(Chunk(data, pos)) <= Size(data, pos)
         /\ Chunk(data, pos) # <<>> => Eol(data, pos) + Size(data, pos) <= Len(data)
<1> DEFINE e == Eol(data, pos)
           z == Size(data, pos)
<1>1. e # 0 /\ z # 0 /\ pos <= Len(data) /\ Len(data) \in Nat
  BY DEF Ends, Text
<1>2. e \in Nat /\ pos <= e /\ e <= Len(data)
  <2>1. e \in {k \in pos..Len(data) : data[k] = "N"}
    BY <1>1, CrlfFrom, Zenon DEF Eol
  <2> QED  BY <1>1, <2>1
<1> HIDE DEF e
<1>3. SubSeq(data, pos, e - 1) \in Text
  BY <1>1, <1>2, SubSeqProperties DEF Text
<1>4. z \in Nat /\ z > 0
  <2>1. z = strtoul(SubSeq(data, pos, e - 1))
    BY Zenon DEF Size, e
  <2>2. z \in Nat
    BY <1>3, <2>1, StrtoulFacts, Zenon
  <2> HIDE DEF z
  <2> QED  BY <1>1, <2>2
<1> HIDE DEF z
<1>5. After(data, pos) = e + z + 2
  BY Zenon DEF After, e, z
<1>6. Chunk(data, pos) = IF e + z <= Len(data) THEN SubSeq(data, e + 1, e + z) ELSE <<>>
  BY Zenon DEF Chunk, e, z
<1>7. /\ Chunk(data, pos) \in Text /\ Len(Chunk(data, pos)) <= z
      /\ Chunk(data, pos) # <<>> => e + z <= Len(data)
  <2>1. CASE e + z <= Len(data)
    <3>1. PICK a, b \in Nat : a = e + 1 /\ b = e + z
      BY <1>2, <1>4
    <3>2. a \in 1..(Len(data) + 1) /\ b \in 0..Len(data) /\ b - a + 1 = z /\ a <= b
      BY <1>1, <1>2, <1>4, <2>1, <3>1
    <3>3. SubSeq(data, a, b) \in Text /\ Len(SubSeq(data, a, b)) = z
      BY <3>1, <3>2, SubSeqProperties DEF Text
    <3>4. Chunk(data, pos) = SubSeq(data, a, b)
      BY <1>6, <2>1, <3>1, Zenon
    <3> QED  BY <1>4, <2>1, <3>3, <3>4
  <2>2. CASE ~(e + z <= Len(data))
    BY <1>4, <1>6, <2>2 DEF Text
  <2> QED  BY <2>1, <2>2
<1>8. e + z + 2 \in Nat \ {0} /\ e + z + 2 > pos
  BY <1>2, <1>4
<1> QED  BY <1>2, <1>4, <1>5, <1>7, <1>8, Zenon DEF e, z

LEMMA DecoderExists ==
  ASSUME NEW data \in Text
  PROVE  \E f : Decodes(f, data) /\ decodeChunkedBody(data) = f[1]
<1> DEFINE D == Nat \ {0}
           stop == {p \in D : Ends(data, p)}
           piece == [p \in D |-> Chunk(data, p)]
           next == [p \in D |-> After(data, p)]
           N == Len(data)
<1>1. N \in Nat /\ D \in SUBSET Nat
  BY DEF Text
<1>2. \A p \in D : p > N => p \in stop
  BY DEF Ends
<1>3. \A p \in D : p \notin stop => next[p] \in D /\ next[p] > p
  BY ChunkFacts, Zenon
<1>4. \A p \in D : piece[p] = Chunk(data, p) /\ next[p] = After(data, p)
                   /\ (p \in stop <=> Ends(data, p))
  BY Zenon
<1> HIDE DEF D, stop, piece, next, N
<1>5. PICK f : Walks(f, D, stop, piece, next)
  BY <1>1, <1>2, <1>3, WalkExists, Zenon
<1>6. \A g : [p \in D |-> IF p \in stop THEN <<>> ELSE piece[p] \o g[next[p]]]
               = [p \in D |-> IF Ends(data, p) THEN <<>> ELSE Chunk(data, p) \o g[After(data, p)]]
  BY <1>4, Zenon
<1>7. Decodes(f, data)
  BY <1>5, <1>6, Zenon DEF Walks, Decodes, D
<1>8. PICK g : g = CHOOSE h : Decodes(h, data)
  OBVIOUS
<1>9. Decodes(g, data)
  BY <1>7, <1>8, Zenon
<1>10. decodeChunkedBody(data) = g[1]
  BY <1>8, Zenon DEF decodeChunkedBody, Decodes, Ends, After, Chunk, Size, Eol
<1> QED  BY <1>9, <1>10, Zenon

\* What is decoded is text, no longer than the data.
LEMMA DecodedIsShort ==
  ASSUME NEW data \in Text, NEW f, Decodes(f, data)
  PROVE  /\ \A p \in Nat \ {0} : f[p] \in Text /\ (p > Len(data) => f[p] = <<>>)
         /\ Len(f[1]) <= Len(data)
<1>1. \A p \in Nat \ {0} :
        f[p] = IF Ends(data, p) THEN <<>> ELSE Chunk(data, p) \o f[After(data, p)]
  BY Zenon DEF Decodes
<1>2. Len(data) \in Nat
  BY DEF Text
<1> DEFINE Ok(p) == f[p] \in Text /\ Len(f[p]) <= (IF p > Len(data) THEN 0 ELSE Len(data) - p + 1)
           S == {k \in 0..Len(data) : \A p \in Nat \ {0} : p > Len(data) - k => Ok(p)}
<1>3. \A p \in Nat \ {0} : p > Len(data) => f[p] = <<>>
  BY <1>1 DEF Ends
<1>4. 0 \in S
  <2>1. <<>> \in Text /\ Len(<<>>) = 0
    BY DEF Text
  <2>2. \A p \in Nat \ {0} : p > Len(data) => f[p] \in Text /\ Len(f[p]) = 0
    BY <1>3, <2>1, Zenon
  <2>3. \A p \in Nat \ {0} : p > Len(data) - 0 => p > Len(data)
    BY <1>2
  <2>4. \A p \in Nat \ {0} : p > Len(data) - 0 => Ok(p)
    BY <2>2, <2>3
  <2> QED  BY <1>2, <2>4
<1>5. ASSUME NEW k \in Nat, k \in S, k < Len(data) PROVE k + 1 \in S
  <2>1. ASSUME NEW p \in Nat \ {0}, p = Len(data) - k PROVE Ok(p)
    <3>1. CASE Ends(data, p)
      <4>1. f[p] = <<>>
        BY <1>1, <3>1, Zenon
      <4> QED  BY <1>2, <2>1, <4>1 DEF Text
    <3>2. CASE ~Ends(data, p)
      <4>1. PICK e, z, q, c : /\ e = Eol(data, p) /\ z = Size(data, p)
                              /\ q = After(data, p) /\ c = Chunk(data, p)
        OBVIOUS
      <4>2. /\ p <= e /\ e <= Len(data) /\ e \in Nat /\ z \in Nat /\ z > 0
            /\ q \in Nat \ {0} /\ q > p /\ c \in Text /\ Len(c) <= z
            /\ c # <<>> => e + z <= Len(data)
        BY <3>2, <4>1, ChunkFacts, Zenon
      <4>3. q = e + z + 2
        BY <4>1, Zenon DEF After
      <4>4. Ok(q)
        BY <1>5, <2>1, <4>2
      <4>5. f[p] = c \o f[q]
        BY <1>1, <3>2, <4>1, Zenon
      <4>6. PICK t \in Text : t = f[q] /\ Len(t) <= (IF q > Len(data) THEN 0 ELSE Len(data) - q + 1)
        BY <4>4
      <4>7. c \o t \in Text /\ Len(c \o t) = Len(c) + Len(t) /\ Len(c) \in Nat /\ Len(t) \in Nat
        BY <4>2, ConcatProperties DEF Text
      <4>8. c = <<>> => Len(c) = 0
        OBVIOUS
      <4>9. Len(c) + Len(t) <= Len(data) - p + 1
        BY <1>2, <2>1, <4>2, <4>3, <4>6, <4>7, <4>8
      <4>10. f[p] \in Text /\ Len(f[p]) <= Len(data) - p + 1
        BY <4>5, <4>6, <4>7, <4>9
      <4> QED  BY <1>2, <2>1, <4>10
    <3> QED  BY <3>1, <3>2
  <2>2. \A p \in Nat \ {0} : p > Len(data) - (k + 1) => p = Len(data) - k \/ p > Len(data) - k
    BY <1>2, <1>5
  <2>3. k + 1 \in 0..Len(data)
    BY <1>2, <1>5
  <2> HIDE DEF Ok
  <2> QED  BY <1>5, <2>1, <2>2, <2>3
<1>6. \A i \in Nat : i \in S /\ i < Len(data) => i + 1 \in S
  BY <1>5, Zenon
<1>7. Len(data) \in 0..Len(data)
  BY <1>2
<1>8. Len(data) \in S
  <2> HIDE DEF S
  <2> QED  BY <1>2, <1>4, <1>6, <1>7, Reaches, Zenon
<1>9. \A p \in Nat \ {0} : Ok(p)
  BY <1>2, <1>8
<1>10. Len(f[1]) <= Len(data)
  BY <1>2, <1>9
<1> QED  BY <1>3, <1>9, <1>10
-----------------------------------------------------------------------------
(* FlattenSeq. *)

Flattens(f, ss) ==
  /\ f \in [0..Len(ss) -> Text] /\ f[0] = <<>>
  /\ \A i \in 1..Len(ss) : f[i] = f[i - 1] \o ss[i]

LEMMA FlatExists ==
  ASSUME NEW ss \in Seq(Text)
  PROVE  \E f : Flattens(f, ss) /\ FlattenSeq(ss) = f[Len(ss)]
<1> DEFINE n == Len(ss)
           Joined(g, m) == g = [i \in 1..m |-> IF i = 1 THEN ss[i] ELSE g[i - 1] \o ss[i]]
           S == {m \in Nat : \E g : Joined(g, m)}
<1>1. n \in Nat /\ \A i \in 1..n : ss[i] \in Text
  OBVIOUS
<1>e. <<>> \in Text /\ \A t \in Text : <<>> \o t = t
  BY ConcatEmptySeq DEF Text
<1> HIDE DEF n
<1>2. 0 \in S
  <2> DEFINE g == [i \in 1..0 |-> <<>>]
  <2>1. Joined(g, 0)
    OBVIOUS
  <2> QED  BY <2>1
<1>3. ASSUME NEW m \in Nat, m \in S PROVE m + 1 \in S
  <2>1. PICK g : Joined(g, m)
    BY <1>3
  <2> DEFINE h == [i \in 1..(m + 1) |-> IF i = 1 THEN ss[i] ELSE g[i - 1] \o ss[i]]
  <2>2. \A i \in 1..m : g[i] = IF i = 1 THEN ss[i] ELSE g[i - 1] \o ss[i]
    BY <2>1, Zenon
  <2>3. \A i \in 1..m : i \in 1..(m + 1)
    OBVIOUS
  <2>4. \A i \in 1..m : h[i] = g[i]
    BY <2>2, <2>3, Zenon
  <2>5. \A i \in 1..(m + 1) : i # 1 => i - 1 \in 1..m
    OBVIOUS
  <2>6. \A i \in 1..(m + 1) : h[i] = IF i = 1 THEN ss[i] ELSE h[i - 1] \o ss[i]
    BY <2>4, <2>5, Zenon
  <2>7. h = [i \in 1..(m + 1) |-> h[i]]
    BY Zenon
  <2> HIDE DEF h
  <2>8. [i \in 1..(m + 1) |-> h[i]]
          = [i \in 1..(m + 1) |-> IF i = 1 THEN ss[i] ELSE h[i - 1] \o ss[i]]
    BY <2>6, Zenon
  <2>9. Joined(h, m + 1)
    BY <2>7, <2>8, Zenon
  <2>10. m + 1 \in Nat
    OBVIOUS
  <2> QED  BY <2>9, <2>10, Zenon
<1>4. n \in S
  <2>1. \A i \in Nat : i \in S /\ i < n => i + 1 \in S
    BY <1>3, Zenon
  <2>2. n \in 0..n
    BY <1>1
  <2> HIDE DEF S
  <2> QED  BY <1>1, <1>2, <2>1, <2>2, Reaches, Zenon
<1>5. PICK g : g = CHOOSE h : Joined(h, n)
  OBVIOUS
<1>6. Joined(g, n)
  BY <1>4, <1>5, Zenon
<1>7. \A i \in 1..n : g[i] = IF i = 1 THEN ss[i] ELSE g[i - 1] \o ss[i]
  BY <1>6, Zenon
<1> DEFINE f == [i \in 0..n |-> IF i = 0 THEN <<>> ELSE g[i]]
           T == {i \in 0..n : f[i] \in Text}
<1>8. f[0] = <<>> /\ \A i \in 1..n : f[i] = g[i]
  BY <1>1
<1>9. ASSUME NEW i \in 1..n, i - 1 \in T
      PROVE  f[i] = f[i - 1] \o ss[i] /\ i \in T
  <2>1. f[i - 1] \in Text
    BY <1>9
  <2>2. f[i] = f[i - 1] \o ss[i]
    <3>1. CASE i = 1
      <4>1. f[i] = ss[i] /\ ss[i] \in Text
        BY <1>1, <1>7, <1>8, <3>1, Zenon
      <4>2. f[i - 1] = <<>>
        BY <1>8, <3>1
      <4> QED  BY <1>e, <4>1, <4>2, Zenon
    <3>2. CASE i # 1
      <4>1. i - 1 \in 1..n
        BY <1>1, <3>2
      <4> QED  BY <1>7, <1>8, <3>2, <4>1, Zenon
    <3> QED  BY <3>1, <3>2
  <2> HIDE DEF f
  <2>3. PICK x, y \in Text : x = f[i - 1] /\ y = ss[i]
    BY <1>1, <2>1, Zenon
  <2>4. x \o y \in Text
    BY ConcatProperties DEF Text
  <2>5. f[i] \in Text
    BY <2>2, <2>3, <2>4, Zenon
  <2>6. i \in 0..n
    BY <1>1
  <2> QED  BY <2>2, <2>5, <2>6, Zenon
<1>10. \A i \in 0..n : i \in T
  <2>1. 0 \in T
    BY <1>1, <1>8, <1>e
  <2>2. ASSUME NEW i \in Nat, i \in T, i < n PROVE i + 1 \in T
    <3>1. i + 1 \in 1..n /\ (i + 1) - 1 = i
      BY <1>1, <2>2
    <3> HIDE DEF T
    <3> QED  BY <1>9, <2>2, <3>1
  <2>3. \A i \in Nat : i \in T /\ i < n => i + 1 \in T
    BY <2>2, Zenon
  <2> HIDE DEF T
  <2> QED  BY <1>1, <2>1, <2>3, Reaches, Zenon
<1>11. Flattens(f, ss)
  <2>1. \A i \in 0..n : f[i] \in Text
    BY <1>10, Zenon
  <2>2. \A i \in 1..n : i - 1 \in 0..n
    BY <1>1
  <2>3. \A i \in 1..n : f[i] = f[i - 1] \o ss[i]
    BY <1>9, <1>10, <2>2, Zenon
  <2>4. f \in [0..n -> Text]
    BY <2>1, Zenon
  <2> HIDE DEF f
  <2> QED  BY <1>8, <2>3, <2>4, Zenon DEF Flattens, n
<1>12. FlattenSeq(ss) = f[n]
  <2>1. CASE n = 0
    <3>1. ss = <<>>
      BY <2>1 DEF n
    <3>2. FlattenSeq(ss) = ss
      BY <2>1, Zenon DEF FlattenSeq, n
    <3> QED  BY <1>8, <2>1, <3>1, <3>2, Zenon
  <2>2. CASE n # 0
    <3>1. FlattenSeq(ss) = g[n]
      BY <1>5, <2>2, Zenon DEF FlattenSeq, n
    <3>2. n \in 1..n
      BY <1>1, <2>2
    <3> QED  BY <1>8, <3>1, <3>2, Zenon
  <2> QED  BY <2>1, <2>2
<1> QED  BY <1>11, <1>12, Zenon DEF n
LEMMA TokensOfConcat ==
  ASSUME NEW s \in Text, NEW t \in Text
  PROVE  /\ s \o t \in Text /\ ToSet(s \o t) = ToSet(s) \cup ToSet(t)
         /\ Len(s \o t) = Len(s) + Len(t)
         /\ Len(s) \in Nat /\ Len(t) \in Nat
<1>1. /\ s \o t \in Text /\ Len(s \o t) = Len(s) + Len(t)
      /\ Len(s) \in Nat /\ Len(t) \in Nat
  BY ConcatProperties DEF Text
<1>2. ToSet(s \o t) = Range(s \o t) /\ ToSet(s) = Range(s) /\ ToSet(t) = Range(t)
  BY DEF ToSet, Range
<1>3. Range(s \o t) = Range(s) \cup Range(t)
  BY RangeConcatenation DEF Text
<1> QED  BY <1>1, <1>2, <1>3

-----------------------------------------------------------------------------
(* What is read at a place of a text. *)

Reads(data, at, w) ==
  \A i \in 1..Len(w) : at + i \in 1..Len(data) /\ data[at + i] = w[i]

LEMMA ReadsAll ==
  ASSUME NEW u \in Text, NEW w \in Text
  PROVE  Reads(u \o w, Len(u), w)
<1>1. PICK data : data = u \o w
  OBVIOUS
<1>2. /\ Len(data) = Len(u) + Len(w) /\ Len(u) \in Nat /\ Len(w) \in Nat
      /\ \A i \in 1..Len(data) : data[i] = IF i <= Len(u) THEN u[i] ELSE w[i - Len(u)]
  BY <1>1, ConcatProperties DEF Text
<1>3. PICK a, b \in Nat : a = Len(u) /\ b = Len(w)
  BY <1>2
<1>4. ASSUME NEW i \in 1..b PROVE a + i \in 1..Len(data) /\ data[a + i] = w[i]
  <2>1. a + i \in 1..Len(data) /\ ~(a + i <= a) /\ a + i - a = i
    BY <1>2, <1>3
  <2> QED  BY <1>2, <1>3, <2>1
<1>5. Reads(data, Len(u), w)
  BY <1>3, <1>4, Zenon DEF Reads
<1> QED  BY <1>1, <1>5, Zenon

LEMMA ReadsParts ==
  ASSUME NEW data, NEW at \in Nat, NEW x \in Text, NEW y \in Text, Reads(data, at, x \o y)
  PROVE  Reads(data, at, x) /\ Reads(data, at + Len(x), y)
<1>1. PICK w : w = x \o y
  OBVIOUS
<1>2. /\ Len(w) = Len(x) + Len(y) /\ Len(x) \in Nat /\ Len(y) \in Nat
      /\ \A i \in 1..Len(w) : w[i] = IF i <= Len(x) THEN x[i] ELSE y[i - Len(x)]
  BY <1>1, ConcatProperties DEF Text
<1>3. PICK a, b \in Nat : a = Len(x) /\ b = Len(y)
  BY <1>2
<1>4. \A i \in 1..(a + b) : at + i \in 1..Len(data) /\ data[at + i] = w[i]
  BY <1>1, <1>2, <1>3 DEF Reads
<1>5. ASSUME NEW i \in 1..a PROVE at + i \in 1..Len(data) /\ data[at + i] = x[i]
  <2>1. i \in 1..(a + b) /\ i <= a
    OBVIOUS
  <2> QED  BY <1>2, <1>3, <1>4, <2>1
<1>6. ASSUME NEW i \in 1..b PROVE (at + a) + i \in 1..Len(data) /\ data[(at + a) + i] = y[i]
  <2>1. a + i \in 1..(a + b) /\ ~(a + i <= a) /\ a + i - a = i /\ at + (a + i) = (at + a) + i
    OBVIOUS
  <2>2. w[a + i] = y[i]
    <3>1. a + i \in 1..Len(w) /\ ~(a + i <= Len(x)) /\ (a + i) - Len(x) = i
      BY <1>2, <1>3, <2>1
    <3>2. w[a + i] = IF a + i <= Len(x) THEN x[a + i] ELSE y[(a + i) - Len(x)]
      BY <1>2, <3>1, Zenon
    <3> QED  BY <3>1, <3>2, Zenon
  <2>3. at + (a + i) \in 1..Len(data) /\ data[at + (a + i)] = w[a + i]
    BY <1>4, <2>1
  <2> QED  BY <2>1, <2>2, <2>3
<1>7. Reads(data, at, x)
  BY <1>3, <1>5, Zenon DEF Reads
<1>8. Reads(data, at + Len(x), y)
  BY <1>3, <1>6, Zenon DEF Reads
<1> QED  BY <1>7, <1>8

LEMMA ReadsIsSubSeq ==
  ASSUME NEW data \in Text, NEW at \in Nat, NEW w \in Text, Reads(data, at, w)
  PROVE  /\ SubSeq(data, at + 1, at + Len(w)) = w
         /\ w # <<>> => at + Len(w) <= Len(data)
<1>1. PICK n, k \in Nat : n = Len(data) /\ k = Len(w)
  BY DEF Text
<1>2. \A i \in 1..k : at + i \in 1..n /\ data[at + i] = w[i]
  BY <1>1 DEF Reads
<1>3. CASE k = 0
  <2>1. w = <<>>
    BY <1>1, <1>3, EmptySeq DEF Text
  <2>2. at + 1 > at + k
    BY <1>3
  <2>3. SubSeq(data, at + 1, at + k) = <<>>
    BY <2>2, SubSeqEmpty DEF Text
  <2> QED  BY <1>1, <2>1, <2>3
<1>4. CASE k # 0
  <2>1. at + k \in 1..n /\ at + 1 \in 1..n
    BY <1>2, <1>4
  <2>2. PICK a, b \in Nat : a = at + 1 /\ b = at + k
    OBVIOUS
  <2>3. PICK t : t = SubSeq(data, a, b)
    OBVIOUS
  <2>4. a \in 1..n /\ b \in 1..n /\ a <= b /\ b - a + 1 = k
    BY <1>4, <2>1, <2>2
  <2>5. t \in Text /\ Len(t) = k /\ \A i \in 1..k : t[i] = data[a + i - 1]
    BY <1>1, <2>2, <2>3, <2>4, SubSeqProperties DEF Text
  <2>6. \A i \in 1..k : t[i] = w[i]
    <3> TAKE i \in 1..k
    <3>1. a + i - 1 = at + i
      BY <2>2
    <3> QED  BY <1>2, <2>5, <3>1
  <2>7. t = w
    BY <1>1, <2>5, <2>6, SeqEqual DEF Text
  <2> QED  BY <1>1, <2>1, <2>2, <2>3, <2>7
<1> QED  BY <1>3, <1>4

\* A line without CRLF inside, and the CRLF behind it.
IsSizeLine(data, at, z) ==
  /\ Eol(data, at + 1) = at + Len(z) + 1
  /\ Size(data, at + 1) = strtoul(z)
  /\ at + 1 <= Len(data)

LEMMA SizeLine ==
  ASSUME NEW data \in Text, NEW at \in Nat, NEW z \in Text, "N" \notin ToSet(z),
         Reads(data, at, z \o CRLF)
  PROVE  IsSizeLine(data, at, z)
<1>1. CRLF \in Text /\ Len(CRLF) = 1 /\ CRLF[1] = "N"
  <2>1. "N" \in Token
    BY ClientAssumption
  <2> QED  BY <2>1 DEF CRLF, Text
<1>2. Reads(data, at, z) /\ Reads(data, at + Len(z), CRLF)
  BY <1>1, ReadsParts, Zenon
<1>3. PICK n, k \in Nat : n = Len(data) /\ k = Len(z)
  BY DEF Text
<1>4. \A i \in 1..k : at + i \in 1..n /\ data[at + i] # "N"
  <2> TAKE i \in 1..k
  <2>1. at + i \in 1..n /\ data[at + i] = z[i]
    BY <1>2, <1>3 DEF Reads
  <2>2. z[i] \in ToSet(z)
    BY <1>3 DEF ToSet, Text
  <2> QED  BY <2>1, <2>2
<1>5. at + k + 1 \in 1..n /\ data[at + k + 1] = "N"
  <2>1. 1 \in 1..Len(CRLF)
    BY <1>1
  <2>2. at + Len(z) + 1 \in 1..Len(data) /\ data[at + Len(z) + 1] = CRLF[1]
    BY <1>2, <2>1 DEF Reads
  <2> QED  BY <1>1, <1>3, <2>2
<1> DEFINE hits == {j \in (at + 1)..Len(data) : data[j] = "N"}
<1>6. at + k + 1 \in hits
  BY <1>3, <1>5
<1>7. \A j \in hits : at + k + 1 <= j
  <2> TAKE j \in hits
  <2>1. j \in Int /\ j >= at + 1 /\ data[j] = "N"
    BY <1>3
  <2> SUFFICES ASSUME j < at + k + 1 PROVE FALSE
    BY <2>1
  <2>2. j - at \in 1..k /\ at + (j - at) = j
    BY <2>1
  <2>3. data[j] # "N"
    BY <1>4, <2>2
  <2> QED  BY <2>1, <2>3
<1>8. at + 1 \in Nat \ {0}
  OBVIOUS
<1>9. Eol(data, at + 1) \in hits /\ \A j \in hits : Eol(data, at + 1) <= j
  <2>1. hits # {}
    BY <1>6
  <2> QED  BY <1>8, <2>1, CrlfFrom, Zenon DEF Eol
<1>10. Eol(data, at + 1) = at + k + 1
  <2>1. PICK e : e = Eol(data, at + 1)
    OBVIOUS
  <2>2. e \in hits /\ e <= at + k + 1
    BY <1>6, <1>9, <2>1, Zenon
  <2>3. at + k + 1 <= e /\ e \in Int
    BY <1>3, <1>7, <2>2
  <2>4. e = at + k + 1
    BY <2>2, <2>3
  <2> QED  BY <2>1, <2>4, Zenon
<1>11. Eol(data, at + 1) - 1 = at + k
  BY <1>10
<1>12. SubSeq(data, at + 1, at + k) = z
  BY <1>2, <1>3, ReadsIsSubSeq, Zenon
<1>13. Size(data, at + 1) = strtoul(z)
  BY <1>11, <1>12, Zenon DEF Size
<1>14. at + 1 <= Len(data)
  BY <1>3, <1>5
<1> QED  BY <1>3, <1>10, <1>13, <1>14, Zenon DEF IsSizeLine

ChunkText(z, c) == z \o CRLF \o c \o CRLF

IsChunk(u, z, c, r) ==
  LET data == u \o (ChunkText(z, c) \o r)
  IN  /\ ~Ends(data, Len(u) + 1)
      /\ Chunk(data, Len(u) + 1) = c
      /\ After(data, Len(u) + 1) = Len(u \o ChunkText(z, c)) + 1

LEMMA OneChunk ==
  ASSUME NEW u \in Text, NEW z \in Text, NEW c \in Text, NEW r \in Text,
         "N" \notin ToSet(z), c # <<>>, strtoul(z) = Len(c)
  PROVE  IsChunk(u, z, c, r)
<1>1. PICK data, x : data = u \o (x \o r) /\ x = ChunkText(z, c)
  OBVIOUS
<1>n. CRLF \in Text /\ Len(CRLF) = 1
  <2>1. "N" \in Token
    BY ClientAssumption
  <2> QED  BY <2>1 DEF CRLF, Text
<1>2. PICK zn \in Text : zn = z \o CRLF /\ Len(zn) = Len(z) + 1
  <2>1. z \o CRLF \in Text /\ Len(z \o CRLF) = Len(z) + Len(CRLF)
    BY <1>n, TokensOfConcat, Zenon
  <2> QED  BY <1>n, <2>1, Zenon
<1>3. PICK zc \in Text : zc = zn \o c /\ Len(zc) = Len(zn) + Len(c)
  BY ConcatProperties DEF Text
<1>4. x \in Text /\ x = zc \o CRLF /\ Len(x) = Len(zc) + 1
  <2>1. zc \o CRLF \in Text /\ Len(zc \o CRLF) = Len(zc) + 1
    <3>1. zc \o CRLF \in Text /\ Len(zc \o CRLF) = Len(zc) + Len(CRLF)
      BY <1>n, TokensOfConcat, Zenon
    <3> QED  BY <1>n, <3>1, Zenon
  <2> QED  BY <1>1, <1>2, <1>3, <2>1, Zenon DEF ChunkText
<1>5. x \o r \in Text /\ data \in Text /\ Len(u \o x) = Len(u) + Len(x)
  <2>1. x \o r \in Text
    BY <1>4, ConcatProperties DEF Text
  <2> QED  BY <1>1, <1>4, <2>1, ConcatProperties DEF Text
<1>6. PICK a, k, m, n \in Nat : /\ a = Len(u) /\ k = Len(z) /\ m = Len(c) /\ n = Len(data)
                                /\ m > 0
  BY <1>5 DEF Text
<1>7. Reads(data, a, zn) /\ Reads(data, a + Len(zn), c)
  <2>1. Reads(data, a, x \o r)
    BY <1>1, <1>5, <1>6, ReadsAll, Zenon
  <2>2. Reads(data, a, zc)
    <3>1. Reads(data, a, x)
      BY <1>4, <1>6, <2>1, ReadsParts, Zenon
    <3>2. Reads(data, a, zc \o CRLF)
      BY <1>4, <3>1, Zenon
    <3> QED  BY <1>n, <1>6, <3>2, ReadsParts, Zenon
  <2>3. Reads(data, a, zn \o c)
    BY <1>3, <2>2, Zenon
  <2> QED  BY <1>6, <2>3, ReadsParts, Zenon
<1>8. Eol(data, a + 1) = a + k + 1 /\ Size(data, a + 1) = m /\ a + 1 <= n
  <2>1. Reads(data, a, z \o CRLF)
    BY <1>2, <1>7, Zenon
  <2>2. IsSizeLine(data, a, z)
    BY <1>5, <2>1, SizeLine, Zenon
  <2> QED  BY <1>6, <2>2 DEF IsSizeLine
<1>9. SubSeq(data, a + (k + 1) + 1, a + (k + 1) + m) = c /\ a + (k + 1) + m <= n
  <2>1. Len(zn) = k + 1
    BY <1>2, <1>6
  <2>2. Reads(data, a + (k + 1), c) /\ a + (k + 1) \in Nat
    BY <1>6, <1>7, <2>1
  <2>3. PICK b \in Nat : b = a + (k + 1)
    OBVIOUS
  <2>4. Reads(data, b, c)
    BY <2>2, <2>3, Zenon
  <2>5. data \in Text /\ c \in Text /\ c # <<>>
    BY <1>5, Zenon
  <2>6. SubSeq(data, b + 1, b + Len(c)) = c /\ b + Len(c) <= Len(data)
    BY ONLY <2>3, <2>4, <2>5, ReadsIsSubSeq, Zenon
  <2> QED  BY <1>6, <2>3, <2>6, Zenon
<1>10. ~Ends(data, a + 1)
  BY <1>6, <1>8 DEF Ends
<1>11. Chunk(data, a + 1) = c
  <2>1. a + (k + 1) + 1 = (a + k + 1) + 1 /\ a + (k + 1) + m = (a + k + 1) + m
    OBVIOUS
  <2>2. SubSeq(data, (a + k + 1) + 1, (a + k + 1) + m) = c /\ (a + k + 1) + m <= n
    BY <1>9, <2>1
  <2> QED  BY <1>6, <1>8, <2>2, Zenon DEF Chunk
<1>12. After(data, a + 1) = Len(u \o x) + 1
  <2>1. Len(u \o x) = a + (((k + 1) + m) + 1)
    BY <1>2, <1>3, <1>4, <1>5, <1>6
  <2>2. After(data, a + 1) = (a + k + 1) + m + 2
    BY <1>8, Zenon DEF After
  <2>3. (a + k + 1) + m + 2 = (a + (((k + 1) + m) + 1)) + 1
    OBVIOUS
  <2> QED  BY <2>1, <2>2, <2>3
<1> QED  BY <1>1, <1>6, <1>10, <1>11, <1>12, Zenon DEF IsChunk

LEMMA TheLastChunk ==
  ASSUME NEW u \in Text, NEW e \in Text
  PROVE  Ends(u \o (LastChunk \o e), Len(u) + 1) /\ LastChunk \in Text
<1>1. "N" \in Token /\ "0" \in Token /\ "0" # "N"
  BY ClientAssumption
<1>2. CRLF \in Text /\ <<"0">> \in Text /\ LastChunk \in Text /\ "N" \notin ToSet(<<"0">>)
  BY <1>1 DEF CRLF, LastChunk, Text, ToSet
<1>3. PICK zn \in Text : zn = <<"0">> \o CRLF
  BY <1>2, ConcatProperties DEF Text
<1>4. LastChunk = zn \o CRLF
  BY <1>2, <1>3 DEF LastChunk, CRLF
<1>5. PICK data : data = u \o (LastChunk \o e)
  OBVIOUS
<1>6. LastChunk \o e \in Text /\ data \in Text
  <2>1. LastChunk \o e \in Text
    BY <1>2, ConcatProperties DEF Text
  <2> QED  BY <1>5, <2>1, ConcatProperties DEF Text
<1>7. PICK a \in Nat : a = Len(u)
  BY DEF Text
<1>8. Reads(data, a, zn)
  <2>1. Reads(data, a, LastChunk \o e)
    BY <1>5, <1>6, <1>7, ReadsAll, Zenon
  <2>2. Reads(data, a, LastChunk)
    BY <1>2, <1>7, <2>1, ReadsParts, Zenon
  <2>3. Reads(data, a, zn \o CRLF)
    BY <1>4, <2>2, Zenon
  <2> QED  BY <1>2, <1>7, <2>3, ReadsParts, Zenon
<1>9. Size(data, a + 1) = strtoul(<<"0">>)
  <2>1. Reads(data, a, <<"0">> \o CRLF)
    BY <1>3, <1>8, Zenon
  <2>2. IsSizeLine(data, a, <<"0">>)
    BY <1>2, <1>6, <1>7, <2>1, SizeLine, Zenon
  <2> QED  BY <2>2, Zenon DEF IsSizeLine
<1>10. Ends(data, a + 1)
  BY <1>2, <1>9, StrtoulFacts, Zenon DEF Ends
<1> QED  BY <1>2, <1>5, <1>7, <1>10, Zenon

LEMMA DecodesToBody ==
  ASSUME NEW q \in Requests, q.kind = "chunked", NEW e \in Text
  PROVE  decodeChunkedBody(Sent(q) \o e) = Body(q)
<1> DEFINE n == Len(q.chunks)
           Sized(k) == ChunkText(q.sizes[k], q.chunks[k])
           es == [k \in DOMAIN q.chunks |-> Sized(k)]
           data == Sent(q) \o e
<1>1. q.chunks \in Seq(Text) /\ q.sizes \in Seq(Text) /\ n \in Nat /\ DOMAIN q.chunks = 1..n
  BY ClientAssumption DEF RequestOK
<1>2. \A k \in 1..n : /\ q.sizes[k] \in Text /\ q.chunks[k] \in Text
                      /\ "N" \notin ToSet(q.sizes[k])
                      /\ q.chunks[k] # <<>> /\ strtoul(q.sizes[k]) = Len(q.chunks[k])
  <2> TAKE k \in 1..n
  <2>1. /\ k \in DOMAIN q.sizes /\ "N" \notin ToSet(q.sizes[k])
        /\ q.chunks[k] # <<>> /\ strtoul(q.sizes[k]) = Len(q.chunks[k])
    BY <1>1, ClientAssumption DEF RequestOK
  <2>2. q.sizes[k] \in Text
    BY <1>1, <2>1
  <2>3. q.chunks[k] \in Text
    BY <1>1
  <2> QED  BY <2>1, <2>2, <2>3, Zenon
<1> HIDE DEF n
<1>3. \A k \in 1..n : es[k] \in Text /\ es[k] = Sized(k)
  <2> TAKE k \in 1..n
  <2>1. CRLF \in Text
    <3>1. "N" \in Token
      BY ClientAssumption
    <3> QED  BY <3>1 DEF CRLF, Text
  <2>2. PICK z, c \in Text : z = q.sizes[k] /\ c = q.chunks[k]
    BY <1>2
  <2>3. ((z \o CRLF) \o c) \o CRLF \in Text
    BY <2>1, TokensOfConcat
  <2>4. Sized(k) \in Text
    BY <2>2, <2>3, Zenon DEF ChunkText
  <2>5. es[k] = Sized(k)
    BY <1>1, Zenon
  <2> QED  BY <2>4, <2>5, Zenon
<1>4. es \in Seq(Text) /\ Len(es) = n
  <2>1. es \in [1..n -> Text]
    BY <1>1, <1>3, Zenon
  <2> HIDE DEF es
  <2> QED  BY <1>1, <2>1
<1>5. Sent(q) = FlattenSeq(es) \o LastChunk
  BY Zenon DEF Sent, ChunkText
<1> HIDE DEF es
<1>6. PICK E : Flattens(E, es) /\ FlattenSeq(es) = E[n]
  BY <1>4, FlatExists, Zenon
<1>7. PICK B : Flattens(B, q.chunks) /\ FlattenSeq(q.chunks) = B[n]
  BY <1>1, FlatExists, Zenon DEF n
<1>8. /\ \A j \in 0..n : E[j] \in Text
      /\ E[0] = <<>> /\ \A j \in 1..n : E[j] = E[j - 1] \o es[j]
  BY <1>4, <1>6, Zenon DEF Flattens
<1>9. /\ \A j \in 0..n : B[j] \in Text
      /\ B[0] = <<>> /\ \A j \in 1..n : B[j] = B[j - 1] \o q.chunks[j]
  BY <1>7, Zenon DEF Flattens, n
<1>10. LastChunk \in Text /\ LastChunk \o e \in Text /\ n \in 0..n
  <2>1. LastChunk \in Text
    <3>1. "N" \in Token /\ "0" \in Token
      BY ClientAssumption
    <3> QED  BY <3>1 DEF LastChunk, Text
  <2>2. LastChunk \o e \in Text
    BY <2>1, TokensOfConcat, Zenon
  <2> QED  BY <1>1, <2>1, <2>2
<1>11. data = E[n] \o (LastChunk \o e)
  <2>1. data = (E[n] \o LastChunk) \o e
    BY <1>5, <1>6, Zenon
  <2> HIDE DEF data
  <2>2. PICK x, y \in Text : x = E[n] /\ y = LastChunk
    BY <1>8, <1>10, Zenon
  <2>3. Assoc(Token, x, y, e)
    BY Associates, Zenon DEF Text
  <2> QED  BY <2>1, <2>2, <2>3, Zenon DEF Assoc, Text
<1>12. data \in Text
  <2>1. E[n] \in Text
    BY <1>8, <1>10, Zenon
  <2> QED  BY <1>10, <1>11, <2>1, TokensOfConcat, Zenon
<1> HIDE DEF data
\* The data from the chunk j + 1 on.
<1> DEFINE Left(j) == \E r \in Text : data = E[j] \o r
           S == {i \in 0..n : Left(n - i)}
<1>13. \A j \in 0..n : Left(j)
  <2>1. 0 \in S
    <3>1. n - 0 = n /\ 0 \in 0..n
      BY <1>1
    <3> QED  BY <1>10, <1>11, <3>1, Zenon
  <2>2. ASSUME NEW i \in Nat, i \in S, i < n PROVE i + 1 \in S
    <3>1. /\ n - i \in 1..n /\ (n - i) - 1 = n - (i + 1) /\ i + 1 \in 0..n
          /\ n - (i + 1) \in 0..n
      BY <1>1, <2>2
    <3>2. PICK j : j = n - i
      OBVIOUS
    <3>3. PICK r \in Text : data = E[j] \o r
      BY <2>2, <3>2, Zenon
    <3>4. E[j] = E[j - 1] \o es[j] /\ E[j - 1] \in Text /\ es[j] \in Text
      BY <1>3, <1>8, <3>1, <3>2
    <3>5. PICK x, y \in Text : x = E[j - 1] /\ y = es[j]
      BY <3>4
    <3>6. Assoc(Token, x, y, r)
      BY Associates, Zenon DEF Text
    <3>7. data = E[j - 1] \o (y \o r)
      BY <3>3, <3>4, <3>5, <3>6, Zenon DEF Assoc, Text
    <3>8. j - 1 = n - (i + 1)
      BY <3>1, <3>2
    <3>9. Left(n - (i + 1))
      BY <3>6, <3>7, <3>8, Zenon DEF Assoc, Text
    <3> QED  BY <3>1, <3>9, Zenon
  <2>3. \A i \in Nat : i \in S /\ i < n => i + 1 \in S
    BY <2>2, Zenon
  <2>4. \A i \in 0..n : i \in S
    <3> HIDE DEF S
    <3> QED  BY <1>1, <2>1, <2>3, Reaches, Zenon
  <2> TAKE j \in 0..n
  <2>5. n - j \in 0..n /\ n - (n - j) = j
    BY <1>1
  <2>6. Left(n - (n - j))
    BY <2>4, <2>5, Zenon
  <2> HIDE DEF Left
  <2> QED  BY <2>5, <2>6, Zenon
<1>14. PICK f : Decodes(f, data) /\ decodeChunkedBody(data) = f[1]
  BY <1>12, DecoderExists, Zenon
<1>15. \A p \in Nat \ {0} :
         f[p] = IF Ends(data, p) THEN <<>> ELSE Chunk(data, p) \o f[After(data, p)]
  BY <1>14, Zenon DEF Decodes
<1>16. \A p \in Nat \ {0} : f[p] \in Text
  BY <1>12, <1>14, DecodedIsShort, Zenon
<1> DEFINE T == {j \in 0..n : f[1] = B[j] \o f[Len(E[j]) + 1]}
<1>17. 0 \in T
  <2>1. Len(E[0]) + 1 = 1
    BY <1>8
  <2>2. f[1] \in Text
    BY <1>16
  <2>3. <<>> \o f[1] = f[1]
    BY <2>2, ConcatEmptySeq DEF Text
  <2>4. f[1] = B[0] \o f[Len(E[0]) + 1]
    BY <1>9, <2>1, <2>3, Zenon
  <2>5. 0 \in 0..n
    BY <1>1
  <2> QED  BY <2>4, <2>5, Zenon
<1>18. ASSUME NEW j \in Nat, j \in T, j < n PROVE j + 1 \in T
  <2>1. j + 1 \in 1..n /\ j + 1 \in 0..n /\ (j + 1) - 1 = j /\ j \in 0..n
    BY <1>1, <1>18
  <2>2. PICK k : k = j + 1
    OBVIOUS
  <2>3. PICK r \in Text : data = E[k] \o r
    BY <1>13, <2>1, <2>2, Zenon
  <2>4. PICK u, z, c \in Text : /\ u = E[j] /\ z = q.sizes[k] /\ c = q.chunks[k]
                                /\ "N" \notin ToSet(z) /\ c # <<>> /\ strtoul(z) = Len(c)
    BY <1>2, <1>8, <2>1, <2>2, Zenon
  <2>5. E[k] = u \o ChunkText(z, c) /\ ChunkText(z, c) \in Text
    BY <1>3, <1>8, <2>1, <2>2, <2>4, Zenon
  <2>6. data = u \o (ChunkText(z, c) \o r)
    <3>1. PICK x \in Text : x = ChunkText(z, c)
      BY <2>5
    <3>2. Assoc(Token, u, x, r)
      BY Associates, Zenon DEF Text
    <3> QED  BY <2>3, <2>5, <3>1, <3>2, Zenon DEF Assoc, Text
  <2>7. /\ ~Ends(data, Len(u) + 1) /\ Chunk(data, Len(u) + 1) = c
        /\ After(data, Len(u) + 1) = Len(E[k]) + 1
    <3>1. IsChunk(u, z, c, r)
      BY <2>4, OneChunk, Zenon
    <3> QED  BY <2>5, <2>6, <3>1, Zenon DEF IsChunk
  <2>8. Len(u) + 1 \in Nat \ {0} /\ Len(E[k]) + 1 \in Nat \ {0}
    <3>1. PICK x \in Text : x = E[k]
      BY <1>8, <2>1, <2>2, Zenon
    <3>2. Len(u) + 1 \in Nat \ {0} /\ Len(x) + 1 \in Nat \ {0}
      BY DEF Text
    <3> QED  BY <3>1, <3>2, Zenon
  <2>9. f[Len(u) + 1] = c \o f[Len(E[k]) + 1]
    BY <1>15, <2>7, <2>8, Zenon
  <2>10. f[1] = B[j] \o f[Len(u) + 1]
    BY <1>18, <2>4, Zenon
  <2>11. PICK b, g \in Text : b = B[j] /\ g = f[Len(E[k]) + 1]
    BY <1>9, <1>16, <2>1, <2>8, Zenon
  <2>12. Assoc(Token, b, c, g)
    BY Associates, Zenon DEF Text
  <2>13. B[k] = b \o c
    BY <1>9, <2>1, <2>2, <2>4, <2>11, Zenon
  <2>14. f[1] = B[k] \o f[Len(E[k]) + 1]
    BY <2>9, <2>10, <2>11, <2>12, <2>13, Zenon DEF Assoc, Text
  <2> QED  BY <2>1, <2>2, <2>14, Zenon
<1>19. n \in T
  <2>1. \A j \in Nat : j \in T /\ j < n => j + 1 \in T
    BY <1>18, Zenon
  <2> HIDE DEF T
  <2> QED  BY <1>1, <1>10, <1>17, <2>1, Reaches, Zenon
<1>20. f[1] = B[n]
  <2>1. PICK u, b \in Text : u = E[n] /\ b = B[n]
    BY <1>8, <1>9, <1>10, Zenon
  <2>2. Ends(data, Len(u) + 1)
    BY <1>11, <2>1, TheLastChunk, Zenon
  <2>3. Len(u) + 1 \in Nat \ {0}
    BY DEF Text
  <2>4. f[Len(u) + 1] = <<>>
    BY <1>15, <2>2, <2>3, Zenon
  <2>5. b \o <<>> = b
    BY ConcatEmptySeq DEF Text
  <2>6. f[1] = B[n] \o f[Len(E[n]) + 1]
    BY <1>19, Zenon
  <2> QED  BY <2>1, <2>4, <2>5, <2>6, Zenon
<1> QED  BY <1>7, <1>14, <1>20, Zenon DEF Body, data
-----------------------------------------------------------------------------
(* The stream. *)

LEMMA OneToken ==
  ASSUME NEW t \in Token
  PROVE  <<t>> \in Text /\ ToSet(<<t>>) = {t} /\ Len(<<t>>) = 1
<1>1. <<t>> \in Text /\ Len(<<t>>) = 1
  BY DEF Text
<1>2. ToSet(<<t>>) = {t}
  BY DEF ToSet
<1> QED  BY <1>1, <1>2

LEMMA Line ==
  ASSUME NEW t \in Token
  PROVE  /\ <<t>> \o CRLF \in Text /\ ToSet(<<t>> \o CRLF) = {t, "N"}
         /\ Len(<<t>> \o CRLF) = 2
         /\ CRLF \in Text /\ ToSet(CRLF) = {"N"} /\ Len(CRLF) = 1
<1>1. "N" \in Token
  BY ClientAssumption
<1>2. CRLF \in Text /\ ToSet(CRLF) = {"N"} /\ Len(CRLF) = 1
  BY <1>1, OneToken DEF CRLF
<1>3. PICK s \in Text : s = <<t>> /\ ToSet(s) = {t} /\ Len(s) = 1
  BY OneToken
<1>4. s \o CRLF \in Text /\ ToSet(s \o CRLF) = {t} \cup {"N"} /\ Len(s \o CRLF) = 1 + 1
  <2>1. /\ s \o CRLF \in Text /\ ToSet(s \o CRLF) = ToSet(s) \cup ToSet(CRLF)
        /\ Len(s \o CRLF) = Len(s) + Len(CRLF)
    BY <1>2, TokensOfConcat, Zenon
  <2> QED  BY <1>2, <1>3, <2>1, Zenon
<1>5. <<t>> \o CRLF \in Text /\ ToSet(<<t>> \o CRLF) = {t} \cup {"N"}
      /\ Len(<<t>> \o CRLF) = 1 + 1
  BY <1>3, <1>4, Zenon
<1> QED  BY <1>2, <1>5

\* The headers of a request, and the tokens in them that frame its body.
LEMMA HeadFacts ==
  ASSUME NEW q \in Requests
  PROVE  /\ HeadOf(q) \in Text /\ Len(HeadOf(q)) > 2
         /\ ToSet(HeadOf(q)) \cap Framing =
              IF q.kind = "none" THEN {}
              ELSE IF q.kind = "length" THEN {q.length} ELSE {"T"}
<1>1. /\ RequestOK(q) /\ {"G", "N", "T"} \cap DOMAIN Declared = {}
      /\ {"G", "N", "T"} \cup DOMAIN Declared \subseteq Token
  BY ClientAssumption
<1>2. q.first \in Text /\ q.last \in Text /\ q.kind \in {"none", "length", "chunked"}
  BY <1>1 DEF RequestOK
<1>3. (ToSet(q.first) \cup ToSet(q.last)) \cap Framing = {}
  BY <1>1 DEF RequestOK
<1>4. q.kind = "length" => q.length \in DOMAIN Declared /\ q.length \in Token
  BY <1>1 DEF RequestOK
<1>5. "G" \in Token /\ "N" \in Token /\ "T" \in Token
  BY <1>1
<1>e. <<>> \in Text /\ ToSet(<<>>) = {}
  BY DEF Text, ToSet
<1>n. CRLF \in Text /\ ToSet(CRLF) = {"N"} /\ Len(CRLF) = 1
  BY <1>5, Line
<1> DEFINE frame == CASE q.kind = "none" -> <<>>
                      [] q.kind = "length" -> <<q.length>> \o CRLF
                      [] q.kind = "chunked" -> <<"T">> \o CRLF
           start == <<"G">> \o CRLF \o q.first
<1>7. /\ frame \in Text
      /\ ToSet(frame) = IF q.kind = "none" THEN {}
                        ELSE IF q.kind = "length" THEN {q.length, "N"} ELSE {"T", "N"}
  <2>1. CASE q.kind = "none"
    BY <1>e, <2>1
  <2>2. CASE q.kind = "length"
    <3>1. <<q.length>> \o CRLF \in Text /\ ToSet(<<q.length>> \o CRLF) = {q.length, "N"}
      BY <1>4, <2>2, Line, Zenon
    <3>2. frame = <<q.length>> \o CRLF
      BY <2>2
    <3>3. frame \in Text /\ ToSet(frame) = {q.length, "N"}
      BY <3>1, <3>2, Zenon
    <3> QED  BY <2>2, <3>3
  <2>3. CASE q.kind = "chunked"
    <3>1. <<"T">> \o CRLF \in Text /\ ToSet(<<"T">> \o CRLF) = {"T", "N"}
      BY <1>5, Line, Zenon
    <3>2. frame = <<"T">> \o CRLF
      BY <2>3
    <3>3. frame \in Text /\ ToSet(frame) = {"T", "N"}
      BY <3>1, <3>2, Zenon
    <3> QED  BY <2>3, <3>3
  <2> QED  BY <1>2, <2>1, <2>2, <2>3
<1> HIDE DEF frame
<1>8. start \in Text /\ ToSet(start) = {"G", "N"} \cup ToSet(q.first) /\ Len(start) >= 2
  <2>1. PICK line : line = <<"G">> \o CRLF
    OBVIOUS
  <2>2. line \in Text /\ ToSet(line) = {"G", "N"} /\ Len(line) = 2
    BY <1>5, <2>1, Line, Zenon
  <2>3. /\ line \o q.first \in Text
        /\ ToSet(line \o q.first) = ToSet(line) \cup ToSet(q.first)
        /\ Len(line \o q.first) = Len(line) + Len(q.first) /\ Len(q.first) \in Nat
    BY <1>2, <2>2, TokensOfConcat
  <2>4. start = line \o q.first
    BY <2>1
  <2> HIDE DEF start
  <2> QED  BY <2>2, <2>3, <2>4
<1>9. HeadOf(q) = ((start \o frame) \o q.last) \o CRLF
  BY Zenon DEF HeadOf, frame
<1> HIDE DEF start
<1>10. start \o frame \in Text /\ ToSet(start \o frame) = ToSet(start) \cup ToSet(frame)
  BY <1>7, <1>8, TokensOfConcat
<1>11. /\ (start \o frame) \o q.last \in Text
       /\ ToSet((start \o frame) \o q.last) = (ToSet(start) \cup ToSet(frame)) \cup ToSet(q.last)
  BY <1>2, <1>10, TokensOfConcat
<1>12. /\ HeadOf(q) \in Text
       /\ ToSet(HeadOf(q)) = ((ToSet(start) \cup ToSet(frame)) \cup ToSet(q.last)) \cup {"N"}
  <2>1. PICK line : line = (start \o frame) \o q.last
    OBVIOUS
  <2>2. line \o CRLF \in Text /\ ToSet(line \o CRLF) = ToSet(line) \cup {"N"}
    BY <1>n, <1>11, <2>1, TokensOfConcat
  <2>3. HeadOf(q) = line \o CRLF
    BY <1>9, <2>1, Zenon
  <2> QED  BY <1>11, <2>1, <2>2, <2>3
<1>13. Len(HeadOf(q)) > 2
  <2>1. /\ Len(start \o frame) = Len(start) + Len(frame)
        /\ Len(start) \in Nat /\ Len(frame) \in Nat
    BY <1>7, <1>8, TokensOfConcat
  <2>2. /\ Len((start \o frame) \o q.last) = Len(start \o frame) + Len(q.last)
        /\ Len(q.last) \in Nat
    BY <1>2, <1>10, TokensOfConcat
  <2>3. Len(HeadOf(q)) = Len((start \o frame) \o q.last) + Len(CRLF)
    BY <1>n, <1>9, <1>11, TokensOfConcat, Zenon
  <2>4. PICK a, b : a = Len(start \o frame) /\ b = Len((start \o frame) \o q.last)
    OBVIOUS
  <2>5. a = Len(start) + Len(frame) /\ b = a + Len(q.last)
    BY <2>1, <2>2, <2>4, Zenon
  <2>6. PICK x, y, z \in Nat :
          x >= 2 /\ Len(start) = x /\ Len(frame) = y /\ Len(q.last) = z
    BY <1>8, <2>1, <2>2, Zenon
  <2>7. Len(HeadOf(q)) = b + 1
    BY <1>n, <2>3, <2>4
  <2>8. a = x + y /\ b = a + z
    BY <2>5, <2>6, Zenon
  <2> QED  BY <2>6, <2>7, <2>8
<1>14. "G" \notin Framing /\ "N" \notin Framing /\ "T" \in Framing
       /\ (q.kind = "length" => q.length \in Framing)
  BY <1>1, <1>4 DEF Framing
<1>15. ToSet(HeadOf(q)) \cap Framing = ToSet(frame) \cap Framing
  BY <1>3, <1>8, <1>12, <1>14
<1>16. ToSet(frame) \cap Framing =
         IF q.kind = "none" THEN {} ELSE IF q.kind = "length" THEN {q.length} ELSE {"T"}
  BY <1>7, <1>14
<1> QED  BY <1>12, <1>13, <1>15, <1>16

\* The stream begins with the headers and with the whole request.
LEMMA StreamFacts ==
  ASSUME request \in Requests, extra \in Extras
  PROVE  /\ Headers \in Text /\ Sent(request) \in Text /\ Stream \in Text
         /\ Len(Headers) > 2 /\ Whole = Len(Headers) + Meant
         /\ Whole \in Nat /\ Meant \in Nat /\ Whole <= Len(Stream)
         /\ Prefix(Len(Headers)) = Headers
         /\ Prefix(Whole) = Encode(request)
<1>1. Headers \in Text /\ Len(Headers) > 2
  BY HeadFacts DEF Headers
<1>2. Sent(request) \in Text /\ extra \in Text
  BY ClientAssumption DEF RequestOK
<1> DEFINE H == HeadOf(request)
           S == Sent(request)
<1>3. Encode(request) = H \o S /\ Stream = (H \o S) \o extra /\ Headers = H
  BY DEF Encode, Stream, Headers
<1> HIDE DEF H, S
<1>4. H \in Text /\ S \in Text /\ Len(H) > 2
  BY <1>1, <1>2, <1>3 DEF S
<1>5. /\ H \o S \in Text /\ Len(H \o S) = Len(H) + Len(S)
      /\ (H \o S) \o extra \in Text
      /\ Len((H \o S) \o extra) = Len(H \o S) + Len(extra)
      /\ Len(H) \in Nat /\ Len(S) \in Nat /\ Len(extra) \in Nat
  BY <1>2, <1>4, ConcatProperties DEF Text
<1>6. SubSeq(H \o S, 1, Len(H)) = H
  BY <1>4, <1>5, SubSeqOfConcat1, SubSeqFull DEF Text
<1>7. SubSeq((H \o S) \o extra, 1, Len(H \o S)) = H \o S
  BY <1>2, <1>4, <1>5, SubSeqOfConcat1, SubSeqFull DEF Text
<1>8. SubSeq((H \o S) \o extra, 1, Len(H)) = H
  BY <1>2, <1>4, <1>5, <1>6, SubSeqOfConcat1 DEF Text
<1>9. Meant = Len(S) /\ Whole = Len(H \o S)
  BY <1>3 DEF Meant, Whole, S
<1> QED  BY <1>1, <1>2, <1>3, <1>5, <1>7, <1>8, <1>9 DEF Prefix

\* What the code finds in the bytes read so far.
LEMMA FoundInPrefix ==
  ASSUME request \in Requests, extra \in Extras, NEW n \in 0..Len(Stream)
  PROVE  /\ Find(Prefix(n), EndOfHeaders) =
              IF n >= Len(Headers) THEN Len(Headers) - 1 ELSE 0
         /\ n >= Len(Headers) => SubSeq(Prefix(n), 1, Len(Headers)) = Headers
         /\ ~Plainly /\ Understood(request) =>
              (isChunkedComplete(Prefix(n)) <=> n >= Whole)
         /\ Prefix(n) \in Text /\ Len(Prefix(n)) = n
<1>1. /\ Stream \in Text /\ Prefix(Len(Headers)) = Headers /\ Prefix(Whole) = Encode(request)
      /\ Len(Headers) > 2 /\ Len(Headers) \in Nat /\ Whole \in Nat /\ Len(Stream) \in Nat
      /\ Len(Headers) <= Len(Stream) /\ Whole <= Len(Stream) /\ Len(Headers) <= Whole
  BY StreamFacts DEF Text
<1>2. Find(Headers, EndOfHeaders) = Len(Headers) - 1
  BY ClientAssumption DEF RequestOK, Headers
<1>3. EndOfHeaders \in Text /\ Len(EndOfHeaders) = 2 /\ LastChunk \in Text /\ Len(LastChunk) = 3
  <2>1. "N" \in Token /\ "0" \in Token
    BY ClientAssumption
  <2> QED  BY <2>1 DEF EndOfHeaders, LastChunk, Text
<1>4. Find(Prefix(n), EndOfHeaders) = IF n >= Len(Headers) THEN Len(Headers) - 1 ELSE 0
  <2>1. Len(Headers) - 1 = Len(Headers) - Len(EndOfHeaders) + 1
    BY <1>1, <1>3
  <2>2. Len(Headers) \in 0..Len(Stream) /\ Len(Headers) >= Len(EndOfHeaders)
    BY <1>1, <1>3
  <2>3. Find(SubSeq(Stream, 1, Len(Headers)), EndOfHeaders) =
          Len(Headers) - Len(EndOfHeaders) + 1
    BY <1>1, <1>2, <2>1 DEF Prefix
  <2>4. Find(SubSeq(Stream, 1, n), EndOfHeaders) =
          IF n >= Len(Headers) THEN Len(Headers) - Len(EndOfHeaders) + 1 ELSE 0
    <3>1. Stream \in Text /\ EndOfHeaders \in Text /\ Len(EndOfHeaders) > 0
      BY <1>1, <1>3
    <3> QED  BY <2>2, <2>3, <3>1, FindInPrefix, Zenon
  <2> QED  BY <2>1, <2>4 DEF Prefix
<1>5. ASSUME ~Plainly, Understood(request)
      PROVE  isChunkedComplete(Prefix(n)) <=> n >= Whole
  <2>1. Find(Encode(request), LastChunk) = Whole - 2
    BY <1>5 DEF Understood, Plainly, Whole
  <2>2. Whole - 2 = Whole - Len(LastChunk) + 1 /\ Whole >= Len(LastChunk)
    BY <1>1, <1>3
  <2>3. Find(Prefix(n), LastChunk) = IF n >= Whole THEN Whole - 2 ELSE 0
    <3>1. Whole \in 0..Len(Stream)
      BY <1>1
    <3>2. Find(SubSeq(Stream, 1, Whole), LastChunk) = Whole - Len(LastChunk) + 1
      BY <1>1, <2>1, <2>2 DEF Prefix
    <3>3. Find(SubSeq(Stream, 1, n), LastChunk) =
            IF n >= Whole THEN Whole - Len(LastChunk) + 1 ELSE 0
      <4>1. Stream \in Text /\ LastChunk \in Text /\ Len(LastChunk) > 0
        BY <1>1, <1>3
      <4> QED  BY <2>2, <3>1, <3>2, <4>1, FindInPrefix, Zenon
    <3> QED  BY <2>2, <3>3 DEF Prefix
  <2> QED  BY <1>1, <2>3 DEF isChunkedComplete
<1>6. Prefix(n) \in Text /\ Len(Prefix(n)) = n
  BY <1>1, SubSeqProperties DEF Prefix, Text
<1>7. n >= Len(Headers) => SubSeq(Prefix(n), 1, Len(Headers)) = Headers
  BY <1>1, SubSeqOfSubSeq DEF Prefix, Text
<1> QED  BY <1>4, <1>5, <1>6, <1>7

\* What the headers say.
LEMMA HeadersSay ==
  ASSUME request \in Requests
  PROVE  /\ isChunkedTransfer(Headers) <=> ~Plainly
         /\ Plainly /\ Understood(request) => parseContentLength(Headers) = Meant
<1>1. /\ Headers \in Text
      /\ ToSet(Headers) \cap Framing =
              IF request.kind = "none" THEN {}
              ELSE IF request.kind = "length" THEN {request.length} ELSE {"T"}
  BY HeadFacts DEF Headers
<1>2. RequestOK(request) /\ "T" \notin DOMAIN Declared
  BY ClientAssumption
<1>3. DOMAIN Headers = 1..Len(Headers) /\ Len(Headers) \in Nat
  BY <1>1 DEF Text
<1>4. isChunkedTransfer(Headers) <=> "T" \in ToSet(Headers)
  BY <1>3 DEF isChunkedTransfer, Contains, ToSet
<1>5. request.kind = "length" => request.length # "T"
  BY <1>2 DEF RequestOK
<1>6. isChunkedTransfer(Headers) <=> ~Plainly
  BY <1>1, <1>2, <1>4, <1>5 DEF Plainly, Framing, RequestOK
<1>7. ASSUME Plainly, Understood(request) PROVE parseContentLength(Headers) = Meant
  <2> DEFINE I == {i \in 1..Len(Headers) : Headers[i] \in DOMAIN Declared}
             at == IF I # {} THEN Min(I) ELSE 0
  <2>1. parseContentLength(Headers) =
          IF at = 0 THEN 0 ELSE ToSize(ToInt(Declared[Headers[at]]))
    BY DEF parseContentLength, SelectInSeq
  <2>2. \A i \in I : request.kind = "length" /\ Headers[i] = request.length
    <3>1. \A i \in I : Headers[i] \in ToSet(Headers) \cap Framing
      BY <1>3 DEF Framing, ToSet
    <3>2. request.kind # "chunked"
      BY <1>7 DEF Plainly
    <3> HIDE DEF I
    <3>3. CASE request.kind = "length"
      BY <1>1, <3>1, <3>3
    <3>4. CASE request.kind # "length"
      BY <1>1, <1>2, <3>1, <3>2, <3>4 DEF RequestOK
    <3> QED  BY <3>3, <3>4
  <2>3. CASE request.kind = "none"
    <3>1. Meant = 0
      BY <1>2, <2>3 DEF RequestOK, Meant
    <3>2. I = {}
      BY <2>2, <2>3
    <3> QED  BY <2>1, <3>1, <3>2
  <2>4. CASE request.kind = "length"
    <3>1. request.length \in ToSet(Headers) /\ request.length \in DOMAIN Declared
      BY <1>1, <1>2, <2>4 DEF RequestOK
    <3>2. I # {} /\ I \subseteq Nat /\ 0 \notin I
      BY <1>3, <3>1 DEF ToSet
    <3> HIDE DEF I
    <3>3. at \in I
      BY <3>2, Smallest
    <3>4. parseContentLength(Headers) = ToSize(ToInt(Declared[request.length]))
      BY <2>1, <2>2, <3>2, <3>3
    <3>5. /\ Declared[request.length] = Meant /\ Declared[request.length] \in Nat
          /\ Meant < 2^(IntWidth - 1)
      BY <1>2, <1>7, <2>4, ClientAssumption DEF RequestOK, Understood, Meant
    <3>6. ToInt(Meant) = Meant
      <4>1. Meant % 2^IntWidth = Meant
        BY <3>5, PowersAssumption
      <4> QED  BY <3>5, <4>1, PowersAssumption DEF ToInt
    <3>7. ToSize(Meant) = Meant
      <4>1. Meant < 2^SizeWidth
        <5>1. HeadOf(request) \in Text /\ Sent(request) \in Text /\ Len(Encode(request)) < 2^SizeWidth
          BY <1>2, HeadFacts DEF RequestOK
        <5>2. /\ Len(Encode(request)) = Len(HeadOf(request)) + Meant
              /\ Len(HeadOf(request)) \in Nat /\ Meant \in Nat
          BY <5>1, TokensOfConcat DEF Encode, Meant
        <5> QED  BY <5>1, <5>2, PowersAssumption
      <4> QED  BY <3>5, <4>1, PowersAssumption DEF ToSize
    <3> QED  BY <3>4, <3>5, <3>6, <3>7
  <2> QED  BY <1>2, <1>7, <2>3, <2>4 DEF RequestOK, Plainly
<1> QED  BY <1>6, <1>7

\* Behind the headers there is the body as it was sent, and then something.
LEMMA DecodedFromStream ==
  ASSUME request \in Requests, extra \in Extras, ~Plainly,
         NEW t \in 0..Len(Stream), t >= Whole
  PROVE  decodeChunkedBody(EraseFront(Prefix(t), Len(Headers))) = Body(request)
<1>1. /\ Headers \in Text /\ Sent(request) \in Text /\ Stream \in Text
      /\ Len(Headers) > 2 /\ Whole = Len(Headers) + Meant
      /\ Whole \in Nat /\ Meant \in Nat /\ Whole <= Len(Stream)
      /\ Prefix(Whole) = Encode(request) /\ Len(Headers) \in Nat /\ Len(Stream) \in Nat
  BY StreamFacts DEF Text
<1>2. PICK h, w, n \in Nat : h = Len(Headers) /\ w = Whole /\ n = Len(Stream)
  BY <1>1
<1>3. 2 < h /\ h <= w /\ w <= t /\ t <= n /\ t \in Nat
  BY <1>1, <1>2
<1>4. EraseFront(Prefix(t), h) = SubSeq(Stream, h + 1, t)
  <2>1. Len(Prefix(t)) = t
    BY FoundInPrefix
  <2>2. SubSeq(SubSeq(Stream, 1, t), h + 1, t) = SubSeq(Stream, h + 1, t)
    BY <1>1, <1>2, <1>3, SubSeqOfSubSeq DEF Text
  <2> QED  BY <2>1, <2>2, Zenon DEF EraseFront, Prefix
<1>5. SubSeq(Stream, h + 1, w) = Sent(request)
  <2>1. SubSeq(SubSeq(Stream, 1, w), h + 1, w) = SubSeq(Stream, h + 1, w)
    BY <1>1, <1>2, <1>3, SubSeqOfSubSeq DEF Text
  <2>2. SubSeq(Stream, 1, w) = Headers \o Sent(request)
    BY <1>1, <1>2, Zenon DEF Prefix, Encode, Headers
  <2>3. PICK x, y \in Text : x = Headers /\ y = Sent(request)
    BY <1>1
  <2>4. Reads(x \o y, h, y) /\ Len(y) = w - h /\ x \o y \in Text
    <3>1. Reads(x \o y, h, y)
      BY <1>2, <2>3, ReadsAll, Zenon
    <3>2. x \o y \in Text
      BY TokensOfConcat, Zenon
    <3>3. Len(y) = w - h
      BY <1>1, <1>2, <2>3 DEF Meant
    <3> QED  BY <3>1, <3>2, <3>3
  <2>5. h + Len(y) = w
    BY <1>3, <2>4
  <2>6. SubSeq(x \o y, h + 1, h + Len(y)) = y
    BY <2>4, ReadsIsSubSeq, Zenon
  <2> QED  BY <2>1, <2>2, <2>3, <2>5, <2>6, Zenon
<1>6. PICK e : e = SubSeq(Stream, w + 1, t)
  OBVIOUS
<1>7. e \in Text
  <2>1. \A i \in (w + 1)..t : Stream[i] \in Token
    BY <1>1, <1>2, <1>3 DEF Text
  <2> QED  BY <1>1, <1>2, <1>3, <1>6, <2>1 DEF Text
<1>8. SubSeq(Stream, h + 1, w) \o SubSeq(Stream, w + 1, t) = SubSeq(Stream, h + 1, t)
  <2>1. PICK s \in Seq(Token) : s = Stream
    BY <1>1 DEF Text
  <2>2. h + 1 \in 1..(Len(s) + 1) /\ w \in h..Len(s) /\ t \in w..Len(s)
    BY <1>2, <1>3, <2>1
  <2>3. SubSeq(s, h + 1, w) \o SubSeq(s, w + 1, t) = SubSeq(s, h + 1, t)
    <3> HIDE <1>1
    <3>1. SubSeq(s, h + 1, w) \in Seq(Token) /\ Len(SubSeq(s, h + 1, w)) = w - h
      BY <2>2, <1>3
    <3>2. SubSeq(s, w + 1, t) \in Seq(Token) /\ Len(SubSeq(s, w + 1, t)) = t - w
      BY <2>2, <1>3
    <3> QED  BY <1>3, <2>2, <3>1, <3>2
  <2> QED  BY <2>1, <2>3, Zenon
<1>9. decodeChunkedBody(Sent(request) \o e) = Body(request)
  BY <1>7, DecodesToBody, Zenon DEF Plainly
<1> QED  BY <1>2, <1>4, <1>5, <1>6, <1>8, <1>9, Zenon
-----------------------------------------------------------------------------
(* The invariant. *)

LEMMA InitInvariant == Init => FInv
<1> SUFFICES ASSUME Init PROVE FInv
  OBVIOUS
<1>1. request \in Requests /\ extra \in Extras
  BY DEF Init
<1>2. /\ Whole = Len(Headers) + Meant /\ Len(Headers) > 2 /\ Meant \in Nat
      /\ Stream \in Text /\ Headers \in Text /\ Len(Stream) \in Nat
  BY <1>1, StreamFacts DEF Text
<1>3. taken = 0 /\ request_buffer = <<>> /\ handed = <<>> /\ request_complete = FALSE
      /\ content_parsed = FALSE
  BY DEF Init
<1>4. Prefix(0) = <<>>
  BY <1>2 DEF Prefix, Text
<1>5. taken < Whole
  BY <1>2, <1>3 DEF Text
<1>6. Reading
  BY <1>3, <1>4, <1>5 DEF Reading
<1>7. taken \in 0..Len(Stream)
  BY <1>2, <1>3
<1>8. request_complete \in BOOLEAN /\ content_parsed \in BOOLEAN
  BY <1>3, Zenon
<1> QED  BY <1>1, <1>3, <1>6, <1>7, <1>8, Zenon DEF FInv, Framed

\* readRequest, of any request: it moves on in the stream.
LEMMA ReadTypes ==
  ASSUME FInv, readRequest
  PROVE  /\ taken' \in 0..Len(Stream) /\ request_complete' \in BOOLEAN
         /\ content_parsed' \in BOOLEAN
<1>1. /\ taken \in 0..Len(Stream) /\ request_complete \in BOOLEAN
      /\ content_parsed \in BOOLEAN /\ Len(Stream) \in Nat
  BY StreamFacts DEF FInv, Text
<1>2. taken' \in 0..Len(Stream)
  <2>1. PICK n \in 1..ReadMax : taken + n <= Len(Stream) /\ taken' = taken + n
    BY Zenon DEF readRequest
  <2> QED  BY <1>1, <2>1, ClientAssumption
<1>3. request_complete' \in BOOLEAN /\ content_parsed' \in BOOLEAN
  BY <1>1, Zenon DEF readRequest, parsedAfter
<1> QED  BY <1>2, <1>3

\* What readRequest does, when what was read until now is in the buffer: read
\* on up to t, and look.
ReadTo(t) ==
  LET parsed == content_parsed \/ Plainly \/ isChunkedComplete(Prefix(t))
      length == IF ~Plainly \/ content_parsed THEN content_length
                ELSE parseContentLength(Headers)
      complete == parsed /\ (~Plainly \/ t >= totalExpected(Headers, length))
  IN  /\ t \in 0..Len(Stream) /\ taken < t /\ taken' = t
      /\ UNCHANGED <<request, extra, handed>>
      /\ t < Len(Headers) =>
           /\ request_buffer' = Prefix(t)
           /\ UNCHANGED <<request_complete, content_length, content_parsed>>
      /\ t >= Len(Headers) =>
           /\ request_buffer' =
                IF ~Plainly /\ parsed /\ ~content_parsed
                THEN Headers \o decodeChunkedBody(EraseFront(Prefix(t), Len(Headers)))
                ELSE Prefix(t)
           /\ request_complete' = complete
           /\ content_length' = IF complete THEN 0 ELSE length
           /\ content_parsed' = (parsed /\ ~complete)

LEMMA ReadMeans ==
  ASSUME request \in Requests, extra \in Extras, taken \in 0..Len(Stream),
         request_buffer = Prefix(taken), readRequest
  PROVE  \E t : ReadTo(t)
<1>2. /\ Headers \in Text /\ Stream \in Text /\ Len(Headers) \in Nat /\ Len(Headers) > 2
      /\ Len(Stream) \in Nat
  BY StreamFacts DEF Text
<1> DEFINE buffer(n) == request_buffer \o SubSeq(Stream, taken + 1, taken + n)
           hend(n) == Find(buffer(n), EndOfHeaders)
           headers(n) == SubSeq(buffer(n), 1, hend(n) + 1)
           chunked(n) == isChunkedTransfer(headers(n))
           parsed(n) == content_parsed \/ ~chunked(n) \/ isChunkedComplete(buffer(n))
           length(n) == IF chunked(n) \/ content_parsed THEN content_length
                        ELSE parseContentLength(headers(n))
           complete(n) == /\ parsed(n)
                          /\ \/ chunked(n)
                             \/ Len(buffer(n)) >= totalExpected(headers(n), length(n))
<1>3. PICK n \in 1..ReadMax :
        /\ taken + n <= Len(Stream) /\ taken' = taken + n
        /\ IF hend(n) = 0
           THEN /\ request_buffer' = buffer(n)
                /\ UNCHANGED <<request_complete, content_length, content_parsed>>
           ELSE /\ request_buffer' =
                     IF chunked(n) /\ parsed(n) /\ ~content_parsed
                     THEN headers(n) \o decodeChunkedBody(EraseFront(buffer(n), hend(n) + 1))
                     ELSE buffer(n)
                /\ request_complete' = complete(n)
                /\ content_length' = IF complete(n) THEN 0 ELSE length(n)
                /\ content_parsed' = parsedAfter(parsed(n), complete(n))
  BY Zenon DEF readRequest
<1>4. UNCHANGED <<request, extra, handed>>
  BY DEF readRequest
<1>5. n \in Nat /\ n > 0 /\ taken \in Nat
  BY <1>2, <1>3, ClientAssumption
<1>6. PICK t : t = taken + n
  OBVIOUS
<1>7. t \in 0..Len(Stream) /\ taken' = t /\ taken < t
  BY <1>3, <1>5, <1>6
<1>8. buffer(n) = Prefix(t)
  BY <1>2, <1>3, <1>5, <1>6, <1>7, ConcatAdjacentSubSeq DEF Prefix, Text
<1>11. hend(n) = IF t >= Len(Headers) THEN Len(Headers) - 1 ELSE 0
  BY <1>7, <1>8, FoundInPrefix, Zenon
<1> HIDE DEF hend
<1> DEFINE parsedT == content_parsed \/ Plainly \/ isChunkedComplete(Prefix(t))
           lengthT == IF ~Plainly \/ content_parsed THEN content_length
                      ELSE parseContentLength(Headers)
           completeT == parsedT /\ (~Plainly \/ t >= totalExpected(Headers, lengthT))
<1>12. ASSUME t < Len(Headers)
       PROVE  /\ request_buffer' = Prefix(t)
              /\ UNCHANGED <<request_complete, content_length, content_parsed>>
  <2>1. hend(n) = 0
    BY <1>2, <1>7, <1>11, <1>12
  <2> QED  BY <1>3, <1>8, <2>1, Zenon
<1>13. ASSUME t >= Len(Headers)
       PROVE  /\ request_buffer' =
                   IF ~Plainly /\ parsedT /\ ~content_parsed
                   THEN Headers \o decodeChunkedBody(EraseFront(Prefix(t), Len(Headers)))
                   ELSE Prefix(t)
              /\ request_complete' = completeT
              /\ content_length' = IF completeT THEN 0 ELSE lengthT
              /\ content_parsed' = (parsedT /\ ~completeT)
  <2>1. hend(n) # 0 /\ hend(n) + 1 = Len(Headers)
    <3>1. hend(n) = Len(Headers) - 1
      BY <1>11, <1>13, Zenon
    <3>2. PICK h \in Nat : Len(Headers) = h /\ h > 2
      BY <1>2, Zenon
    <3>3. hend(n) = h - 1
      BY <3>1, <3>2, Zenon
    <3>4. PICK i : hend(n) = i
      OBVIOUS
    <3>5. i = h - 1 /\ i # 0 /\ i + 1 = h
      BY <3>2, <3>3, <3>4
    <3> QED  BY <3>1, <3>2, <3>4, <3>5, Zenon
  <2>2. SubSeq(Prefix(t), 1, Len(Headers)) = Headers
    BY <1>7, <1>13, FoundInPrefix, Zenon
  <2>3. headers(n) = Headers
    BY <1>8, <2>1, <2>2, Zenon
  <2>4. Len(buffer(n)) = t
    BY <1>7, <1>8, FoundInPrefix, Zenon
  <2>5. /\ request_buffer' = IF chunked(n) /\ parsed(n) /\ ~content_parsed
                             THEN headers(n) \o decodeChunkedBody(EraseFront(buffer(n), hend(n) + 1))
                             ELSE buffer(n)
        /\ request_complete' = complete(n)
        /\ content_length' = IF complete(n) THEN 0 ELSE length(n)
        /\ content_parsed' = (parsed(n) /\ ~complete(n))
    BY <1>3, <2>1, Zenon DEF parsedAfter
  <2>6. chunked(n) = ~Plainly
    <3>1. chunked(n) <=> ~Plainly
      BY <2>3, HeadersSay, Zenon
    <3>2. chunked(n) \in BOOLEAN /\ (~Plainly) \in BOOLEAN
      BY Zenon DEF isChunkedTransfer, Contains
    <3> HIDE DEF chunked
    <3> QED  BY <3>1, <3>2, Zenon
  <2>7. parsed(n) = parsedT
    <3>1. parsed(n) <=> parsedT
      BY <1>8, <2>6, Zenon
    <3> QED  BY <3>1, Zenon
  <2>8. length(n) = lengthT
    BY <2>3, <2>6, Zenon
  <2>9. complete(n) = completeT
    <3>1. complete(n) <=> completeT
      BY <2>3, <2>4, <2>6, <2>7, <2>8, Zenon
    <3> QED  BY <3>1, Zenon
  <2> HIDE DEF parsed, length, complete, chunked, headers, buffer, parsedT, lengthT, completeT
  <2> QED  BY <1>8, <2>1, <2>3, <2>5, <2>6, <2>7, <2>8, <2>9, Zenon
<1> HIDE DEF buffer, headers, chunked, parsed, length, complete
<1> QED  BY <1>4, <1>7, <1>12, <1>13, Zenon DEF ReadTo

\* readRequest, of a request the code is right about: what was read is in the
\* buffer until the last byte is, and with it the request is complete.
LEMMA ReadStep ==
  ASSUME FInv, readRequest, Understood(request)
  PROVE  /\ taken' \in 0..Len(Stream) /\ UNCHANGED <<request, extra, handed>>
         /\ request_complete' \in BOOLEAN /\ content_parsed' \in BOOLEAN
         /\ IF request_complete' THEN Complete' ELSE Reading'
<1>1. /\ request \in Requests /\ extra \in Extras /\ taken \in 0..Len(Stream)
      /\ ~request_complete /\ handed = <<>> /\ content_parsed \in BOOLEAN /\ Reading
  BY DEF FInv, Framed, readRequest
<1>2. /\ Headers \in Text /\ Stream \in Text /\ Len(Headers) \in Nat /\ Len(Headers) > 2
      /\ Whole = Len(Headers) + Meant /\ Whole \in Nat /\ Meant \in Nat
      /\ Whole <= Len(Stream) /\ Len(Stream) \in Nat
  BY <1>1, StreamFacts DEF Text
<1>3. PICK t : ReadTo(t)
  BY <1>1, ReadMeans, Zenon DEF Reading
<1> DEFINE parsed == content_parsed \/ Plainly \/ isChunkedComplete(Prefix(t))
           length == IF ~Plainly \/ content_parsed THEN content_length
                     ELSE parseContentLength(Headers)
           complete == parsed /\ (~Plainly \/ t >= totalExpected(Headers, length))
<1>4. /\ t \in 0..Len(Stream) /\ taken < t /\ taken' = t
      /\ UNCHANGED <<request, extra, handed>>
  BY <1>3, Zenon DEF ReadTo
<1>5. t \in Nat /\ taken' \in 0..Len(Stream)
  BY <1>2, <1>4
<1>9. Whole' = Whole /\ Headers' = Headers /\ Meant' = Meant /\ (Plainly' <=> Plainly)
  BY <1>4 DEF Whole, Headers, Meant, Plainly
<1>10. Prefix(taken)' = Prefix(t)
  BY <1>4 DEF Prefix, Stream
<1>11. Reassembled' = IF Plainly THEN Prefix(t) ELSE Headers \o Body(request)
  BY <1>4, <1>9, <1>10, Zenon DEF Reassembled
<1>12. CASE t < Len(Headers)
  <2>2. request_buffer' = Prefix(t) /\ UNCHANGED <<request_complete, content_length, content_parsed>>
    BY <1>3, <1>12, Zenon DEF ReadTo
  <2>3. ~content_parsed
    BY <1>1, <1>2, <1>4, <1>5, <1>12 DEF Reading
  <2>4. t < Whole
    BY <1>2, <1>5, <1>12
  <2>5. Reading'
    BY <1>4, <1>9, <1>10, <2>2, <2>3, <2>4 DEF Reading
  <2>6. ~request_complete' /\ request_complete' \in BOOLEAN
    <3>1. request_complete' = request_complete
      BY <2>2
    <3>2. request_complete = FALSE
      BY <1>1 DEF FInv
    <3> QED  BY <3>1, <3>2, Zenon
  <2>7. content_parsed' \in BOOLEAN
    BY <1>1, <2>2, Zenon
  <2> QED  BY <1>4, <1>5, <2>5, <2>6, <2>7, Zenon
<1>13. CASE t >= Len(Headers)
  <2>5. /\ request_buffer' =
                   IF ~Plainly /\ parsed /\ ~content_parsed
                   THEN Headers \o decodeChunkedBody(EraseFront(Prefix(t), Len(Headers)))
                   ELSE Prefix(t)
        /\ request_complete' = complete
        /\ content_length' = IF complete THEN 0 ELSE length
        /\ content_parsed' = (parsed /\ ~complete)
    BY <1>3, <1>13, Zenon DEF ReadTo
  <2>10. request_complete' \in BOOLEAN /\ content_parsed' \in BOOLEAN
    BY <2>5, Zenon
  <2>11. /\ request_complete' <=> complete
         /\ content_parsed' <=> parsed /\ ~complete
    BY <2>5, Zenon
  <2>12. CASE ~Plainly
    <3>1. ~content_parsed
      BY <1>1, <2>12, Zenon DEF Reading
    <3>2. (complete <=> t >= Whole) /\ (parsed <=> t >= Whole)
      BY <1>1, <1>4, <2>12, <3>1, FoundInPrefix, Zenon
    <3>3. ~content_parsed'
      BY <2>11, <3>2, Zenon
    <3> HIDE DEF parsed, complete
    <3>4. CASE t >= Whole
      <4>1. request_buffer' = Headers \o decodeChunkedBody(EraseFront(Prefix(t), Len(Headers)))
        BY <2>5, <2>12, <3>1, <3>2, <3>4, Zenon
      <4>2. decodeChunkedBody(EraseFront(Prefix(t), Len(Headers))) = Body(request)
        BY <1>1, <1>4, <2>12, <3>4, DecodedFromStream, Zenon
      <4>3. request_buffer' = Reassembled'
        BY <1>11, <2>12, <4>1, <4>2, Zenon
      <4>4. taken' >= Whole'
        BY <1>4, <1>9, <3>4, Zenon
      <4>5. Complete'
        BY <3>3, <4>3, <4>4 DEF Complete
      <4> QED  BY <1>4, <1>5, <2>10, <2>11, <3>2, <3>4, <4>5, Zenon
    <3>5. CASE ~(t >= Whole)
      <4>1. request_buffer' = Prefix(t)
        BY <2>5, <3>2, <3>5, Zenon
      <4>2. t < Whole
        BY <1>2, <1>5, <3>5
      <4>3. Reading'
        BY <1>4, <1>9, <1>10, <3>3, <4>1, <4>2 DEF Reading
      <4> QED  BY <1>4, <1>5, <2>10, <2>11, <3>2, <3>5, <4>3, Zenon
    <3> QED  BY <3>4, <3>5
  <2>13. CASE Plainly
    <3>2. length = Meant
      <4>1. parseContentLength(Headers) = Meant
        BY <1>1, <2>13, HeadersSay, Zenon
      <4> QED  BY <1>1, <2>13, <4>1, Zenon DEF Reading
    <3>3. totalExpected(Headers, length) = Whole
      <4>1. Whole < 2^SizeWidth
        BY <1>1, ClientAssumption DEF RequestOK, Whole
      <4>2. totalExpected(Headers, length) = ToSize(Whole)
        BY <1>2, <3>2, Zenon DEF totalExpected
      <4> QED  BY <1>2, <4>1, <4>2, PowersAssumption DEF ToSize
    <3>4. complete <=> t >= Whole
      BY <2>13, <3>3, Zenon
    <3>5. request_buffer' = Prefix(t)
      BY <2>5, <2>13, Zenon
    <3>6. content_parsed' <=> ~complete
      BY <2>11, <2>13, Zenon
    <3> HIDE DEF parsed, complete, length
    <3>7. CASE t >= Whole
      <4>1. request_buffer' = Reassembled' /\ taken' >= Whole'
        BY <1>4, <1>9, <1>11, <2>13, <3>5, <3>7, Zenon
      <4>2. Complete'
        BY <3>4, <3>6, <3>7, <4>1 DEF Complete
      <4> QED  BY <1>4, <1>5, <2>10, <2>11, <3>4, <3>7, <4>2, Zenon
    <3>8. CASE ~(t >= Whole)
      <4>1. t < Whole
        BY <1>2, <1>5, <3>8
      <4>2. content_length' = Meant
        BY <2>5, <3>2, <3>4, <3>8, Zenon
      <4>3. Reading'
        BY <1>4, <1>9, <1>10, <1>13, <2>13, <3>5, <4>1, <4>2 DEF Reading
      <4> QED  BY <1>4, <1>5, <2>10, <2>11, <3>4, <3>8, <4>3, Zenon
    <3> QED  BY <3>7, <3>8
  <2> QED  BY <2>12, <2>13
<1> QED  BY <1>2, <1>5, <1>12, <1>13

\* processClientEvent: what is erased is the request.
LEMMA HandOverStep ==
  ASSUME FInv, processClientEvent, Understood(request)
  PROVE  /\ handed' # <<>> /\ (taken >= Whole)' /\ ~request_complete'
         /\ handed' = <<Reassembled>>'
         /\ Plainly' => request_buffer' = Rest'
<1>1. /\ request \in Requests /\ extra \in Extras /\ taken \in 0..Len(Stream)
      /\ UNCHANGED <<request, extra, taken>> /\ request_complete
      /\ handed' = <<request_buffer>> /\ request_buffer' = eraseRequest(request_buffer)
      /\ ~request_complete' /\ Complete
  BY DEF FInv, Framed, processClientEvent
<1>2. ASSUME Plainly PROVE eraseRequest(Prefix(taken)) = Rest
  <2>1. /\ Headers \in Text /\ Stream \in Text /\ Len(Headers) \in Nat /\ Len(Headers) > 2
        /\ Whole = Len(Headers) + Meant /\ Whole \in Nat /\ Meant \in Nat
        /\ Whole <= Len(Stream) /\ Len(Stream) \in Nat
    BY <1>1, StreamFacts DEF Text
  <2>2. taken >= Whole /\ taken >= Len(Headers)
    BY <1>1, <2>1 DEF Complete
  <2>3. /\ Find(Prefix(taken), EndOfHeaders) = Len(Headers) - 1
        /\ SubSeq(Prefix(taken), 1, Len(Headers)) = Headers
        /\ Prefix(taken) \in Text /\ Len(Prefix(taken)) = taken
    BY <1>1, <2>2, FoundInPrefix, Zenon
  <2>4. Len(Headers) - 1 + 1 = Len(Headers)
    BY <2>1
  <2>5. SubSeq(Prefix(taken), 1, Find(Prefix(taken), EndOfHeaders) + 1) = Headers
    BY <2>3, <2>4, Zenon
  <2>6. ~isChunkedTransfer(Headers) /\ parseContentLength(Headers) = Meant
    BY <1>1, <1>2, HeadersSay, Zenon
  <2>7. totalExpected(Headers, Meant) = Whole
    <3>1. Whole < 2^SizeWidth
      BY <1>1, ClientAssumption DEF RequestOK, Whole
    <3> QED  BY <2>1, <3>1, PowersAssumption DEF ToSize, totalExpected
  <2>8. eraseRequest(Prefix(taken)) = EraseFront(Prefix(taken), Whole)
    BY <2>5, <2>6, <2>7, Zenon DEF eraseRequest
  <2>9. EraseFront(Prefix(taken), Whole) = SubSeq(Prefix(taken), Whole + 1, taken)
    BY <2>3, Zenon DEF EraseFront
  <2>10. SubSeq(SubSeq(Stream, 1, taken), Whole + 1, taken) = SubSeq(Stream, Whole + 1, taken)
    BY <1>1, <2>1, <2>2, SubSeqOfSubSeq DEF Text
  <2> QED  BY <2>8, <2>9, <2>10, Zenon DEF Prefix, Rest, Whole
<1>3. Rest' = Rest /\ Reassembled' = Reassembled /\ (Plainly' <=> Plainly)
  BY <1>1 DEF Rest, Plainly, Prefix, Stream, Reassembled, Headers
<1>4. /\ request_buffer = Reassembled
      /\ Plainly => request_buffer = Prefix(taken)
  BY <1>1 DEF Complete, Reassembled
<1>5. (taken >= Whole)'
  BY <1>1 DEF Complete, Whole
<1> QED  BY <1>1, <1>2, <1>3, <1>4, <1>5

LEMMA NextInvariant == FInv /\ [Next]_vars => FInv'
<1> SUFFICES ASSUME FInv, [Next]_vars PROVE FInv'
  OBVIOUS
<1>1. CASE readRequest
  <2>1. UNCHANGED <<request, extra, handed>> /\ handed = <<>>
    BY <1>1 DEF readRequest
  <2>2. Understood(request') <=> Understood(request)
    BY <2>1
  <2>3. /\ taken' \in 0..Len(Stream) /\ request_complete' \in BOOLEAN
        /\ content_parsed' \in BOOLEAN
    BY <1>1, ReadTypes
  <2>4. Framed'
    <3>1. CASE Understood(request)
      BY <1>1, <2>1, <3>1, ReadStep, Zenon DEF Framed
    <3>2. CASE ~Understood(request)
      BY <2>2, <3>2, Zenon DEF Framed
    <3> QED  BY <3>1, <3>2
  <2>5. request' \in Requests /\ extra' \in Extras /\ Stream' = Stream
    BY <2>1 DEF FInv, Stream
  <2> QED  BY <2>3, <2>4, <2>5, Zenon DEF FInv
<1>2. CASE processClientEvent
  <2>1. /\ UNCHANGED <<request, extra, taken, content_parsed>> /\ request_complete' = FALSE
    BY <1>2 DEF processClientEvent
  <2>2. Understood(request') <=> Understood(request)
    BY <2>1
  <2>3. Framed'
    <3>1. CASE Understood(request)
      BY <1>2, <3>1, HandOverStep, Zenon DEF Framed
    <3>2. CASE ~Understood(request)
      BY <2>2, <3>2, Zenon DEF Framed
    <3> QED  BY <3>1, <3>2
  <2>4. /\ request' \in Requests /\ extra' \in Extras /\ taken' \in 0..Len(Stream')
        /\ request_complete' \in BOOLEAN /\ content_parsed' \in BOOLEAN
    BY <2>1 DEF FInv, Stream
  <2> QED  BY <2>3, <2>4, Zenon DEF FInv
<1>3. CASE UNCHANGED vars
  BY <1>3 DEF vars, FInv, Framed, Reading, Complete, Prefix, Stream, Whole, Headers, Meant,
              Plainly, Rest, Reassembled
<1> QED  BY <1>1, <1>2, <1>3 DEF Next

THEOREM Invariance == Spec => []FInv
<1> QED  BY InitInvariant, NextInvariant, PTL DEF Spec
-----------------------------------------------------------------------------
(* The theorems. *)

\* readRequest: however the bytes are cut into reads, a request the code
\* understands is complete with its last byte, not before and not later.
THEOREM CompleteInTime == Spec => []CompleteWithLastByte
<1>1. FInv => CompleteWithLastByte
  <2> SUFFICES ASSUME FInv, Understood(request), handed = <<>>
               PROVE  request_complete <=> taken >= Whole
    BY DEF CompleteWithLastByte, Whole
  <2>1. IF request_complete THEN Complete ELSE Reading
    BY DEF FInv, Framed
  <2>2. Whole \in Nat /\ taken \in Nat
    BY StreamFacts DEF FInv
  <2> QED  BY <2>1, <2>2 DEF Complete, Reading
<1> QED  BY <1>1, Invariance, PTL

\* processClientEvent keeps exactly what was read behind a request that is
\* not chunked.
THEOREM KeepsTheRest == Spec => []RestIsKept
<1>1. FInv => RestIsKept
  BY DEF FInv, Framed, RestIsKept, Plainly
<1> QED  BY <1>1, Invariance, PTL

\* processHttpRequest gets the headers and the whole body: of a chunked request
\* decodeChunkedBody has put it together out of the chunks, and there is
\* nothing else; behind another one there is nothing the peer did not send
\* there.
THEOREM BodyIsWhole == Spec => []BodyIsReassembled
<1>1. FInv => BodyIsReassembled
  <2> SUFFICES ASSUME FInv, Understood(request), handed # <<>>
               PROVE  LET meant == HeadOf(request) \o Body(request)
                      IN  IF ~Plainly THEN handed[1] = meant
                          ELSE IsPrefix(meant, handed[1]) /\ IsPrefix(handed[1], meant \o extra)
    BY Zenon DEF BodyIsReassembled, Plainly
  <2>1. handed[1] = Reassembled
    BY DEF FInv, Framed
  <2>2. CASE ~Plainly
    BY <2>1, <2>2, Zenon DEF Reassembled, Headers
  <2>3. CASE Plainly
    <3>1. handed[1] = Prefix(taken)
      BY <2>1, <2>3, Zenon DEF Reassembled
    <3>2. HeadOf(request) \o Body(request) = Encode(request)
      BY <2>3, Zenon DEF Encode, Sent, Plainly
    <3>3. /\ request \in Requests /\ extra \in Extras
          /\ taken \in 0..Len(Stream) /\ taken >= Whole
      BY DEF FInv, Framed
    <3>4. /\ Stream \in Text /\ Whole \in Nat /\ Whole <= Len(Stream) /\ Whole > 2
          /\ Prefix(Whole) = Encode(request) /\ Len(Stream) \in Nat
      BY <3>3, StreamFacts DEF Text
    <3>5. Len(Prefix(taken)) = taken
      BY <3>3, FoundInPrefix
    <3>6. IsPrefix(Encode(request), Prefix(taken))
      <4>1. SubSeq(Prefix(taken), 1, Whole) = Prefix(Whole)
        BY <3>3, <3>4, SubSeqOfSubSeq DEF Prefix, Text
      <4>2. SubSeq(Encode(request), 1, Whole) = Prefix(Whole)
        BY <3>4, SubSeqOfSubSeq DEF Prefix, Text
      <4>3. Whole <= taken
        BY <3>3, <3>4
      <4> QED  BY <3>5, <4>1, <4>2, <4>3, Zenon DEF IsPrefix, Whole
    <3>7. IsPrefix(Prefix(taken), Stream)
      <4>1. SubSeq(Prefix(taken), 1, taken) = SubSeq(Stream, 1, taken)
        BY <3>3, <3>4, SubSeqOfSubSeq DEF Prefix, Text
      <4>2. taken <= Len(Stream)
        BY <3>3, <3>4
      <4> QED  BY <3>5, <4>1, <4>2, Zenon DEF IsPrefix
    <3> QED  BY <2>3, <3>1, <3>2, <3>6, <3>7, Zenon DEF Stream
  <2> QED  BY <2>2, <2>3
<1> QED  BY <1>1, Invariance, PTL
-----------------------------------------------------------------------------
(* The types, of any request. *)

\* What was read is in the buffer until the request is complete; decoding and
\* erasing only make it shorter.
Bounded ==
  /\ content_length \in 0..(2^SizeWidth - 1)
  /\ IF handed # <<>>
     THEN /\ ~request_complete /\ Len(request_buffer) <= taken
          /\ \E b \in Text : handed = <<b>> /\ Len(b) <= taken
     ELSE IF request_complete
     THEN /\ request_buffer \in Text /\ Len(request_buffer) <= taken
          /\ Find(request_buffer, EndOfHeaders) # 0
          /\ ~content_parsed /\ content_length = 0
     ELSE request_buffer = Prefix(taken) /\ (content_parsed => Plainly)

LEMMA IsSize == ASSUME NEW n \in Int PROVE ToSize(n) \in 0..(2^SizeWidth - 1)
<1>1. PICK w \in Nat : w = 2^SizeWidth
  BY PowersAssumption
<1>2. w > 0
  BY <1>1, PowersAssumption
<1>3. n % w \in 0..(w - 1)
  BY <1>1, <1>2
<1> QED  BY <1>1, <1>3, Zenon DEF ToSize

\* A length is a size_t, whatever the header holds.
LEMMA LengthIsSize ==
  ASSUME NEW h \in Text
  PROVE  parseContentLength(h) \in 0..(2^SizeWidth - 1)
<1> DEFINE I == {i \in 1..Len(h) : h[i] \in DOMAIN Declared}
           at == IF I # {} THEN Min(I) ELSE 0
<1>1. parseContentLength(h) = IF at = 0 THEN 0 ELSE ToSize(ToInt(Declared[h[at]]))
  BY DEF parseContentLength, SelectInSeq
<1>2. 0 \in 0..(2^SizeWidth - 1)
  BY PowersAssumption
<1>3. ASSUME at # 0 PROVE ToSize(ToInt(Declared[h[at]])) \in 0..(2^SizeWidth - 1)
  <2>1. at \in I
    <3>1. I # {} /\ I \subseteq Nat
      BY <1>3 DEF Text
    <3> HIDE DEF I
    <3> QED  BY <3>1, Smallest
  <2>2. PICK v \in Nat : v = Declared[h[at]]
    BY <2>1, ClientAssumption
  <2>3. ToInt(v) \in Int
    <3>1. v % 2^IntWidth \in Int
      BY PowersAssumption
    <3> QED  BY <3>1, PowersAssumption DEF ToInt
  <2> QED  BY <2>2, <2>3, IsSize, Zenon
<1> HIDE DEF at
<1> QED  BY <1>1, <1>2, <1>3, Zenon

\* What erasing leaves is no longer than what there was.
LEMMA ErasedIsShorter ==
  ASSUME NEW b \in Text, Find(b, EndOfHeaders) # 0
  PROVE  Len(eraseRequest(b)) <= Len(b)
<1> DEFINE hend == Find(b, EndOfHeaders)
           headers == SubSeq(b, 1, hend + 1)
           cend == Find(EraseFront(b, hend + 1), LastChunk)
           n == IF ~isChunkedTransfer(headers)
                THEN totalExpected(headers, parseContentLength(headers))
                ELSE Len(headers) + (IF cend = 0 THEN NposPlus5 ELSE cend - 1 + Len(LastChunk))
<1>1. ASSUME NEW k \in Nat PROVE Len(EraseFront(b, k)) <= Len(b) /\ EraseFront(b, k) \in Text
  BY <1>1 DEF EraseFront, Text
<1>2. EndOfHeaders \in Text /\ Len(EndOfHeaders) = 2 /\ LastChunk \in Text /\ Len(LastChunk) = 3
  <2>1. "N" \in Token /\ "0" \in Token
    BY ClientAssumption
  <2> QED  BY <2>1 DEF EndOfHeaders, LastChunk, Text
<1>3. hend \in Nat /\ hend + 1 <= Len(b) /\ Len(b) \in Nat
  <2>1. hend \in Hits(b, EndOfHeaders)
    BY <1>2, FindFacts
  <2>2. Len(b) \in Nat
    BY DEF Text
  <2> HIDE DEF hend
  <2> QED  BY <1>2, <2>1, <2>2 DEF Hits
<1>4. headers \in Text /\ Len(headers) \in Nat
  <2>1. PICK m \in Nat : m = hend + 1
    BY <1>3
  <2>2. m <= Len(b)
    BY <1>3, <2>1
  <2>3. SubSeq(b, 1, m) \in Text
    BY <1>3, <2>2 DEF Text
  <2> QED  BY <2>1, <2>3 DEF Text
<1>5. cend \in Nat
  <2>1. hend + 1 \in Nat
    BY <1>3
  <2>2. EraseFront(b, hend + 1) \in Text
    BY <1>1, <2>1
  <2>3. ASSUME NEW x \in Text PROVE Find(x, LastChunk) \in Nat
    <3>1. Hits(x, LastChunk) \subseteq Nat
      BY DEF Hits
    <3>2. Find(x, LastChunk) = 0 \/ Find(x, LastChunk) \in Hits(x, LastChunk)
      BY <1>2, FindFacts, Zenon
    <3> QED  BY <3>1, <3>2
  <2> QED  BY <2>2, <2>3, Zenon
<1> HIDE DEF hend, headers, cend
<1>6. n \in Nat
  <2>1. totalExpected(headers, parseContentLength(headers)) \in Nat
    <3>1. PICK v \in Nat : v = parseContentLength(headers)
      BY <1>4, LengthIsSize
    <3>2. PICK z \in Int : z = Len(headers) + v
      BY <1>4, <3>1
    <3> QED  BY <3>1, <3>2, IsSize DEF totalExpected
  <2>2. cend # 0 => cend - 1 + Len(LastChunk) \in Nat
    BY <1>2, <1>5
  <2> QED  BY <1>4, <2>1, <2>2 DEF NposPlus5
<1>7. eraseRequest(b) = EraseFront(b, n)
  BY Zenon DEF eraseRequest, hend, headers, cend
<1> HIDE DEF n
<1> QED  BY <1>1, <1>6, <1>7

LEMMA BoundedInit == Init => Bounded
<1> SUFFICES ASSUME Init PROVE Bounded
  OBVIOUS
<1>1. request \in Requests /\ extra \in Extras
  BY DEF Init
<1>2. Stream \in Text
  BY <1>1, StreamFacts
<1>3. taken = 0 /\ request_buffer = <<>> /\ handed = <<>> /\ request_complete = FALSE
      /\ content_parsed = FALSE /\ content_length = 0
  BY DEF Init
<1>4. Prefix(0) = <<>>
  BY <1>2 DEF Prefix, Text
<1>5. 0 \in 0..(2^SizeWidth - 1)
  BY PowersAssumption
<1> QED  BY <1>3, <1>4, <1>5, Zenon DEF Bounded

\* readRequest, however the last chunk is found.
LEMMA BoundedRead ==
  ASSUME FInv, Bounded, readRequest
  PROVE  Bounded'
<1>1. /\ request \in Requests /\ extra \in Extras /\ taken \in 0..Len(Stream)
      /\ request_complete = FALSE /\ handed = <<>> /\ content_parsed \in BOOLEAN
  BY Zenon DEF FInv, readRequest
<1>2. /\ request_buffer = Prefix(taken) /\ (content_parsed => Plainly)
      /\ content_length \in 0..(2^SizeWidth - 1)
  BY <1>1, Zenon DEF Bounded
<1>3. /\ Headers \in Text /\ Stream \in Text /\ Len(Headers) \in Nat /\ Len(Headers) > 2
      /\ Len(Stream) \in Nat
  BY <1>1, StreamFacts DEF Text
<1>4. PICK t : ReadTo(t)
  BY <1>1, <1>2, ReadMeans, Zenon
<1> DEFINE parsed == content_parsed \/ Plainly \/ isChunkedComplete(Prefix(t))
           length == IF ~Plainly \/ content_parsed THEN content_length
                     ELSE parseContentLength(Headers)
           complete == parsed /\ (~Plainly \/ t >= totalExpected(Headers, length))
<1>5. /\ t \in 0..Len(Stream) /\ taken' = t /\ handed' = <<>>
      /\ UNCHANGED <<request, extra>>
  BY <1>1, <1>4, Zenon DEF ReadTo
<1>6. Plainly' = Plainly /\ \A n : Prefix(n)' = Prefix(n)
  BY <1>5, Zenon DEF Plainly, Prefix, Stream
<1>7. length \in 0..(2^SizeWidth - 1)
  BY <1>2, <1>3, LengthIsSize, Zenon
<1>8. 0 \in 0..(2^SizeWidth - 1)
  BY PowersAssumption
<1>9. CASE t < Len(Headers)
  <2>1. /\ request_buffer' = Prefix(t)
        /\ UNCHANGED <<request_complete, content_length, content_parsed>>
    BY <1>4, <1>9, Zenon DEF ReadTo
  <2>2. request_buffer' = (Prefix(taken))'
    BY <1>5, <1>6, <2>1, Zenon
  <2> QED  BY <1>1, <1>2, <1>5, <1>6, <2>1, <2>2, Zenon DEF Bounded
<1>10. CASE ~(t < Len(Headers))
  <2>1. t >= Len(Headers) /\ t \in Nat
    BY <1>3, <1>5, <1>10
  <2>2. /\ request_buffer' =
             IF ~Plainly /\ parsed /\ ~content_parsed
             THEN Headers \o decodeChunkedBody(EraseFront(Prefix(t), Len(Headers)))
             ELSE Prefix(t)
        /\ request_complete' = complete
        /\ content_length' = IF complete THEN 0 ELSE length
        /\ content_parsed' = (parsed /\ ~complete)
    BY <1>4, <2>1, Zenon DEF ReadTo
  <2>3. Prefix(t) \in Text /\ Len(Prefix(t)) = t
    BY <1>1, <1>5, FoundInPrefix, Zenon
  <2>4. Find(Prefix(t), EndOfHeaders) # 0
    <3>1. Find(Prefix(t), EndOfHeaders) = Len(Headers) - 1
      BY <1>1, <1>5, <2>1, FoundInPrefix, Zenon
    <3> QED  BY <1>3, <3>1
  <2> HIDE DEF parsed, length, complete
  <2>5. CASE complete
    <3> DEFINE b == request_buffer'
    <3>1. b \in Text /\ Len(b) <= t /\ Find(b, EndOfHeaders) # 0
      <4>1. CASE ~Plainly /\ parsed /\ ~content_parsed
        <5>1. PICK d : d = EraseFront(Prefix(t), Len(Headers))
          OBVIOUS
        <5>2. PICK r : r = decodeChunkedBody(d)
          OBVIOUS
        <5>3. b = Headers \o r
          BY <2>2, <4>1, <5>1, <5>2, Zenon
        <5>4. d \in Text /\ Len(d) = t - Len(Headers)
          BY <1>3, <2>1, <2>3, <5>1 DEF EraseFront, Text
        <5>5. r \in Text /\ Len(r) <= Len(d)
          <6>1. PICK f : Decodes(f, d) /\ r = f[1]
            BY <5>2, <5>4, DecoderExists, Zenon
          <6>2. 1 \in Nat \ {0}
            OBVIOUS
          <6> QED  BY <5>4, <6>1, <6>2, DecodedIsShort, Zenon
        <5>6. PICK h \in Text : h = Headers /\ Len(h) > 2
          BY <1>3, Zenon
        <5>7. /\ h \o r \in Text /\ Len(h \o r) = Len(h) + Len(r)
              /\ Len(h) \in Nat /\ Len(r) \in Nat /\ SubSeq(h \o r, 1, Len(h)) = h
          BY <5>5, ConcatProperties, SubSeqOfConcat1, SubSeqFull DEF Text
        <5>8. Len(h \o r) <= t
          BY <2>1, <5>4, <5>5, <5>6, <5>7
        <5>9. Find(h \o r, EndOfHeaders) # 0
          <6>1. PICK s \in Text : s = h \o r
            BY <5>7, Zenon
          <6>2. EndOfHeaders \in Text /\ Len(EndOfHeaders) = 2
            <7>1. "N" \in Token
              BY ClientAssumption
            <7> QED  BY <7>1 DEF EndOfHeaders, Text
          <6>3. Find(h, EndOfHeaders) = Len(h) - 1
            BY <1>1, <5>6, ClientAssumption, Zenon DEF RequestOK, Headers
          <6>4. PICK m \in 0..Len(s) : m = Len(h) /\ m > 2
            <7>1. Len(s) = Len(h) + Len(r)
              BY <5>7, <6>1, Zenon
            <7>2. PICK x, y \in Nat : x = Len(h) /\ y = Len(r) /\ x > 2
              BY <5>6, <5>7, Zenon
            <7>3. Len(s) = x + y
              BY <7>1, <7>2, Zenon
            <7>4. x \in 0..(x + y)
              BY <7>2
            <7> QED  BY <7>2, <7>3, <7>4, Zenon
          <6>5. /\ Len(EndOfHeaders) > 0 /\ m >= Len(EndOfHeaders)
                /\ m - 1 = m - Len(EndOfHeaders) + 1
            BY <6>2, <6>4
          <6>6. Find(SubSeq(s, 1, m), EndOfHeaders) = m - Len(EndOfHeaders) + 1
            BY <5>7, <6>1, <6>3, <6>4, <6>5, Zenon
          <6>7. Len(s) \in 0..Len(s) /\ Len(s) >= m
            BY <6>4
          <6>8. Find(SubSeq(s, 1, Len(s)), EndOfHeaders) = m - Len(EndOfHeaders) + 1
            BY <6>2, <6>5, <6>6, <6>7, FindInPrefix, Zenon
          <6>9. SubSeq(s, 1, Len(s)) = s
            BY SubSeqFull DEF Text
          <6>10. m - Len(EndOfHeaders) + 1 # 0
            <7>1. m - 1 # 0
              BY <6>4
            <7> QED  BY <6>5, <7>1, Zenon
          <6> QED  BY <6>1, <6>8, <6>9, <6>10, Zenon
        <5> QED  BY <5>3, <5>6, <5>7, <5>8, <5>9, Zenon
      <4>2. CASE ~(~Plainly /\ parsed /\ ~content_parsed)
        <5>1. b = Prefix(t)
          BY <2>2, <4>2, Zenon
        <5>2. Len(Prefix(t)) <= t
          BY <2>1, <2>3
        <5> QED  BY <2>3, <2>4, <5>1, <5>2, Zenon
      <4> QED  BY <4>1, <4>2, Zenon
    <3>2. request_complete' /\ content_length' = 0 /\ ~content_parsed'
      BY <2>2, <2>5, Zenon
    <3> QED  BY <1>5, <1>8, <3>1, <3>2, Zenon DEF Bounded
  <2>6. CASE ~complete
    <3>1. ~request_complete' /\ content_length' = length /\ (content_parsed' => parsed)
      BY <2>2, <2>6, Zenon
    <3>2. parsed => Plainly
      BY <2>6, Zenon DEF complete
    <3>3. request_buffer' = Prefix(t)
      BY <2>2, <3>2, Zenon
    <3>4. request_buffer' = (Prefix(taken))'
      BY <1>5, <1>6, <3>3, Zenon
    <3>5. content_parsed' => Plainly'
      BY <1>6, <3>1, <3>2, Zenon
    <3> QED  BY <1>5, <1>7, <3>1, <3>4, <3>5, Zenon DEF Bounded, length
  <2> QED  BY <2>5, <2>6
<1> QED  BY <1>9, <1>10

LEMMA BoundedHandOver ==
  ASSUME FInv, Bounded, processClientEvent
  PROVE  Bounded'
<1>1. /\ UNCHANGED <<taken, content_length>> /\ request_complete
      /\ handed' = <<request_buffer>> /\ request_buffer' = eraseRequest(request_buffer)
      /\ request_complete' = FALSE
  BY Zenon DEF processClientEvent
<1>2. handed = <<>> /\ taken \in Nat
  <2>1. handed = <<>>
    BY <1>1, Zenon DEF Bounded
  <2> QED  BY <2>1, StreamFacts DEF FInv
<1>3. /\ request_buffer \in Text /\ Len(request_buffer) <= taken
      /\ Find(request_buffer, EndOfHeaders) # 0 /\ content_length \in 0..(2^SizeWidth - 1)
  BY <1>1, <1>2, Zenon DEF Bounded
<1>4. Len(eraseRequest(request_buffer)) <= taken
  <2>1. PICK b \in Text : b = request_buffer
    BY <1>3
  <2> QED  BY <1>2, <1>3, <2>1, ErasedIsShorter
<1>5. handed' # <<>>
  BY <1>1
<1> QED  BY <1>1, <1>3, <1>4, <1>5, Zenon DEF Bounded

LEMMA BoundedNext == FInv /\ Bounded /\ [Next]_vars => Bounded'
<1> SUFFICES ASSUME FInv, Bounded, [Next]_vars PROVE Bounded'
  OBVIOUS
<1>1. CASE UNCHANGED vars
  BY <1>1 DEF vars, Bounded, Prefix, Stream, Plainly
<1> QED  BY <1>1, BoundedRead, BoundedHandOver, Zenon DEF Next

\* A length stays a size_t whatever a header claims, the buffer never holds
\* more than was read, and a complete request leaves nothing behind for the
\* next: of every request, those too that the code misunderstands.
THEOREM TypeCorrectness == Spec => []TypeOK
<1>1. Init => Bounded
  BY BoundedInit
<1>2. FInv /\ Bounded /\ [Next]_vars => Bounded'
  BY BoundedNext
<1>3. FInv /\ Bounded => TypeOK
  <2> SUFFICES ASSUME FInv, Bounded PROVE TypeOK
    OBVIOUS
  <2>1. request \in Requests /\ extra \in Extras /\ taken \in 0..Len(Stream) /\ taken \in Nat
        /\ Len(Stream) \in Nat
    BY StreamFacts DEF FInv, Text
  <2>2. Len(request_buffer) <= taken
    <3>1. CASE handed = <<>> /\ ~request_complete
      <4>1. Len(Prefix(taken)) = taken
        BY <2>1, FoundInPrefix, Zenon
      <4> QED  BY <2>1, <3>1, <4>1 DEF Bounded
    <3>2. CASE ~(handed = <<>> /\ ~request_complete)
      BY <3>2, Zenon DEF Bounded
    <3> QED  BY <3>1, <3>2
  <2>3. \A buffer \in ToSet(handed) : Len(buffer) <= taken
    <3>1. CASE handed = <<>>
      BY <3>1 DEF ToSet
    <3>2. CASE handed # <<>>
      <4>1. PICK b \in Text : handed = <<b>> /\ Len(b) <= taken
        BY <3>2, Zenon DEF Bounded
      <4>2. ToSet(handed) = {b}
        BY <4>1 DEF ToSet
      <4> QED  BY <4>1, <4>2
    <3> QED  BY <3>1, <3>2
  <2>4. request_complete => ~content_parsed /\ content_length = 0
    BY Zenon DEF Bounded
  <2>5. content_length \in 0..(2^SizeWidth - 1)
    BY Zenon DEF Bounded
  <2>6. request_complete \in BOOLEAN /\ content_parsed \in BOOLEAN
    BY Zenon DEF FInv
  <2> QED  BY <2>1, <2>2, <2>3, <2>4, <2>5, <2>6, Zenon DEF TypeOK
<1> QED  BY <1>1, <1>2, <1>3, Invariance, PTL DEF Spec
=============================================================================
