----------------------------- MODULE IrohProofs -----------------------------
(***************************************************************************)
(* What holds of the chat for any number of channels and texts: what is    *)
(* written to a stream is cut into pieces and split into lines at any      *)
(* place, and still the lines add up to what was sent.                     *)
(***************************************************************************)
EXTENDS IrohChat, ListProofs, TLAPS

-----------------------------------------------------------------------------
(* The two nodes.                                                          *)

LEMMA Peers ==
    ASSUME NEW n \in Node
    PROVE  Peer(n) \in Node /\ Peer(n) # n /\ \A m \in Node : m # n => m = Peer(n)
<1>1. IsFiniteSet(Node) /\ Cardinality(Node) = 2
  BY ChatAssumption
<1>2. PICK others : others = Node \ {n}
  OBVIOUS
<1>3. IsFiniteSet(others) /\ Cardinality(others) = 1
  BY <1>1, <1>2, FS_RemoveElement
<1>4. others # {}
  BY <1>3, FS_EmptySet
<1>5. PICK m : m \in others
  BY <1>4
<1>6. IsFiniteSet(others \ {m}) /\ Cardinality(others \ {m}) = 0
  BY <1>3, <1>5, FS_RemoveElement
<1>7. others \ {m} = {}
  BY <1>6, FS_EmptySet
<1>8. m \in Node /\ m # n /\ \A k \in Node : k # n => k = m
  BY <1>2, <1>5, <1>7
<1>9. Peer(n) \in Node /\ Peer(n) # n
  BY <1>8 DEF Peer
<1> QED BY <1>8, <1>9

LEMMA FarEnds ==
    ASSUME NEW e \in End
    PROVE  /\ FarEnd(e) \in End /\ FarEnd(e)[1] = Peer(e[1]) /\ FarEnd(e)[2] = e[2]
           /\ Peer(Peer(e[1])) = e[1] /\ FarEnd(FarEnd(e)) = e
           /\ e[1] \in Node /\ e[2] \in Channel /\ e = <<e[1], e[2]>>
<1>1. e[1] \in Node /\ e[2] \in Channel /\ e = <<e[1], e[2]>>
  BY DEF End
<1>2. Peer(e[1]) \in Node /\ Peer(e[1]) # e[1]
  BY <1>1, Peers
<1>3. Peer(Peer(e[1])) = e[1]
  BY <1>1, <1>2, Peers
<1> QED BY <1>1, <1>2, <1>3 DEF FarEnd, End

-----------------------------------------------------------------------------
(* The parts of texts.                                                     *)

LEMMA Wider ==
    ASSUME NEW S, NEW T, S \subseteq T
    PROVE  Seq(S) \subseteq Seq(T)
<1> SUFFICES ASSUME NEW s \in Seq(S) PROVE s \in Seq(T)
  OBVIOUS
<1>1. Len(s) \in Nat /\ s \in [1 .. Len(s) -> S]
  BY LenProperties
<1>2. s \in [1 .. Len(s) -> T]
  BY <1>1
<1> QED BY <1>1, <1>2, SeqDef

IsPartsOf(parts, texts) ==
    /\ Len(parts) = 2 * Len(texts)
    /\ \A i \in 1 .. 2 * Len(texts) : parts[i] = <<texts[(i + 1) \div 2], 2 - (i % 2)>>

LEMMA Halves ==
    \A n \in Nat : \A i \in 1 .. 2 * n :
        (i + 1) \div 2 \in 1 .. n /\ 2 - (i % 2) \in 1 .. 2
OBVIOUS

LEMMA PartsAre ==
    ASSUME NEW S \in SUBSET (1 .. MaxTexts), NEW texts \in Seq(S)
    PROVE  /\ PartsOf(texts) \in Seq(S \X (1 .. 2)) /\ S \X (1 .. 2) \subseteq Part
           /\ IsPartsOf(PartsOf(texts), texts)
<1>1. Len(texts) \in Nat /\ \A k \in 1 .. Len(texts) : texts[k] \in S
  BY LenProperties, ElementOfSeq
<1>2. PICK n \in Nat : n = Len(texts)
  BY <1>1
<1>3. PICK parts : parts = PartsOf(texts)
  OBVIOUS
<1>4. parts = [i \in 1 .. 2 * n |-> <<texts[(i + 1) \div 2], 2 - (i % 2)>>]
  BY <1>2, <1>3 DEF PartsOf
<1>5. ASSUME NEW i \in 1 .. 2 * n
      PROVE  <<texts[(i + 1) \div 2], 2 - (i % 2)>> \in S \X (1 .. 2)
  <2>1. (i + 1) \div 2 \in 1 .. n /\ 2 - (i % 2) \in 1 .. 2
    BY Halves
  <2> QED BY <1>1, <1>2, <2>1
<1>6. parts \in [1 .. 2 * n -> S \X (1 .. 2)] /\ 2 * n \in Nat
  BY <1>4, <1>5
<1>7. parts \in Seq(S \X (1 .. 2))
  BY <1>6, SeqDef
<1>8. Len(parts) = 2 * n
  BY <1>6, <1>7, LenProperties
<1>9. IsPartsOf(parts, texts)
  BY <1>2, <1>4, <1>8 DEF IsPartsOf
<1>10. S \X (1 .. 2) \subseteq Part
  BY DEF Part
<1> QED BY <1>3, <1>7, <1>9, <1>10

LEMMA PartsOfConcat ==
    ASSUME NEW S \in SUBSET (1 .. MaxTexts), NEW a \in Seq(S), NEW b \in Seq(S)
    PROVE  PartsOf(a \o b) = PartsOf(a) \o PartsOf(b)
<1>1. PICK p : p = PartsOf(a)
  OBVIOUS
<1>2. PICK q : q = PartsOf(b)
  OBVIOUS
<1>3. PICK ab : ab = a \o b
  OBVIOUS
<1>4. PICK pq : pq = PartsOf(ab)
  OBVIOUS
<1>5. PICK n \in Nat : n = Len(a)
  BY LenProperties
<1>6. PICK m \in Nat : m = Len(b)
  BY LenProperties
<1> DEFINE J == S \X (1 .. 2)
<1>7. p \in Seq(J) /\ Len(p) = 2 * n
      /\ \A i \in 1 .. 2 * n : p[i] = <<a[(i + 1) \div 2], 2 - (i % 2)>>
  BY <1>1, <1>5, PartsAre DEF IsPartsOf
<1>8. q \in Seq(J) /\ Len(q) = 2 * m
      /\ \A i \in 1 .. 2 * m : q[i] = <<b[(i + 1) \div 2], 2 - (i % 2)>>
  BY <1>2, <1>6, PartsAre DEF IsPartsOf
<1>9. /\ ab \in Seq(S) /\ Len(ab) = n + m
      /\ \A k \in 1 .. n + m : ab[k] = IF k <= n THEN a[k] ELSE b[k - n]
  BY <1>3, <1>5, <1>6, ConcatProperties
<1>10. /\ pq \in Seq(J) /\ Len(pq) = 2 * (n + m)
       /\ \A i \in 1 .. 2 * (n + m) : pq[i] = <<ab[(i + 1) \div 2], 2 - (i % 2)>>
  BY <1>4, <1>9, PartsAre DEF IsPartsOf
<1> HIDE DEF J
<1>11. PICK r : r = p \o q
  OBVIOUS
<1>12. /\ r \in Seq(J) /\ Len(r) = 2 * n + 2 * m
       /\ \A i \in 1 .. 2 * n + 2 * m : r[i] = IF i <= 2 * n THEN p[i] ELSE q[i - 2 * n]
  <2>1. p \in Seq(J) /\ q \in Seq(J) /\ Len(p) = 2 * n /\ Len(q) = 2 * m
    BY <1>7, <1>8
  <2>2. /\ r \in Seq(J) /\ Len(r) = Len(p) + Len(q)
        /\ \A i \in 1 .. Len(p) + Len(q) :
             r[i] = IF i <= Len(p) THEN p[i] ELSE q[i - Len(p)]
    BY <1>11, <2>1, ConcatProperties
  <2> QED BY <2>1, <2>2
<1>13. ASSUME NEW i \in 1 .. 2 * n + 2 * m PROVE pq[i] = r[i]
  <2>0. i \in Int /\ i >= 1 /\ 2 * n + 2 * m = 2 * (n + m)
    OBVIOUS
  <2>1. pq[i] = <<ab[(i + 1) \div 2], 2 - (i % 2)>> /\ (i + 1) \div 2 \in 1 .. n + m
    <3>1. i \in 1 .. 2 * (n + m) /\ n + m \in Nat
      BY <2>0
    <3> QED BY <1>10, <3>1, Halves
  <2>2. CASE i <= 2 * n
    <3>1. i \in 1 .. 2 * n /\ (i + 1) \div 2 <= n
      BY <2>0, <2>2
    <3>2. r[i] = <<a[(i + 1) \div 2], 2 - (i % 2)>>
      <4>1. r[i] = p[i]
        BY <1>12, <2>2
      <4> QED BY <1>7, <3>1, <4>1
    <3>3. ab[(i + 1) \div 2] = a[(i + 1) \div 2]
      BY <1>9, <2>1, <3>1
    <3> QED BY <2>1, <3>2, <3>3
  <2>3. CASE i > 2 * n
    <3>1. PICK j : j = i - 2 * n
      OBVIOUS
    <3>2. j \in 1 .. 2 * m
      BY <2>0, <2>3, <3>1
    <3>3. (i + 1) \div 2 = (j + 1) \div 2 + n /\ i % 2 = j % 2 /\ (j + 1) \div 2 \in 1 .. m
      BY <2>0, <3>1, <3>2, Halves
    <3>4. r[i] = <<b[(j + 1) \div 2], 2 - (j % 2)>>
      <4>1. r[i] = q[j]
        <5>1. ~(i <= 2 * n)
          BY <2>0, <2>3
        <5> QED BY <1>12, <3>1, <5>1
      <4> QED BY <1>8, <3>2, <4>1
    <3>5. ab[(i + 1) \div 2] = b[(j + 1) \div 2]
      <4>1. PICK k : k = (i + 1) \div 2
        OBVIOUS
      <4>2. PICK h : h = (j + 1) \div 2
        OBVIOUS
      <4>3. k \in 1 .. n + m /\ ~(k <= n) /\ k - n = h
        BY <2>1, <3>3, <4>1, <4>2
      <4> QED BY <1>9, <4>1, <4>2, <4>3
    <3> QED BY <2>1, <3>3, <3>4, <3>5
  <2> QED BY <2>0, <2>2, <2>3
<1>14. pq = r
  <2>1. Len(pq) = Len(r) /\ \A i \in 1 .. Len(pq) : pq[i] = r[i]
    BY <1>10, <1>12, <1>13
  <2> QED BY <1>10, <1>12, <2>1, SeqEqual
<1> QED BY <1>1, <1>2, <1>3, <1>4, <1>11, <1>14

LEMMA PartsOfNone == PartsOf(<<>>) = <<>>
BY DEF PartsOf

LEMMA PartsOfOne ==
    ASSUME NEW t
    PROVE  PartsOf(<<t>>) = <<<<t, 1>>, <<t, 2>>>>
<1>1. PICK one : one = <<t>>
  OBVIOUS
<1>2. Len(one) = 1 /\ one[1] = t
  BY <1>1
<1>3. PartsOf(one) = [i \in 1 .. 2 |-> <<one[(i + 1) \div 2], 2 - (i % 2)>>]
  BY <1>2 DEF PartsOf
<1>4. \A i \in 1 .. 2 : (i + 1) \div 2 = 1 /\ 2 - (i % 2) = i
  OBVIOUS
<1>5. PartsOf(one) = [i \in 1 .. 2 |-> <<t, i>>]
  BY <1>2, <1>3, <1>4
<1>6. [i \in 1 .. 2 |-> <<t, i>>] = <<<<t, 1>>, <<t, 2>>>>
  OBVIOUS
<1> QED BY <1>1, <1>5, <1>6

-----------------------------------------------------------------------------
(* A piece of a stream, and its lines.                                     *)

SplitsUpTo(split, s, m) ==
    split = [n \in 0 .. m |-> IF n = 0 THEN NoLines ELSE WithByte(split[n - 1], s[n])]

LEMMA SplitFirstIs ==
    ASSUME NEW s, Len(s) \in Nat
    PROVE  SplitsUpTo(SplitFirst(s), s, Len(s))
<1> DEFINE T == {m \in Nat : \E split : SplitsUpTo(split, s, m)}
<1>1. 0 \in T
  <2>1. SplitsUpTo([n \in 0 .. 0 |-> NoLines], s, 0)
    BY DEF SplitsUpTo
  <2> QED BY <2>1
<1>2. ASSUME NEW m \in 0 .. Len(s), m \in T PROVE m + 1 \in T
  <2>1. PICK split : SplitsUpTo(split, s, m)
    BY <1>2
  <2> DEFINE more == [n \in 0 .. m + 1 |->
                        IF n <= m THEN split[n] ELSE WithByte(split[n - 1], s[n])]
  <2>2. ASSUME NEW n \in 0 .. m + 1
        PROVE  more[n] = IF n = 0 THEN NoLines ELSE WithByte(more[n - 1], s[n])
    <3>1. CASE n = 0
      BY <2>1, <3>1 DEF SplitsUpTo
    <3>2. CASE n # 0
      <4>1. n - 1 \in 0 .. m /\ more[n - 1] = split[n - 1]
        BY <3>2
      <4>2. CASE n <= m
        <5>1. n \in 0 .. m
          BY <4>2
        <5>2. split[n] = WithByte(split[n - 1], s[n])
          BY <2>1, <3>2, <5>1, Zenon DEF SplitsUpTo
        <5>3. more[n] = split[n]
          BY <4>2
        <5> QED BY <3>2, <4>1, <5>2, <5>3
      <4>3. CASE ~(n <= m)
        BY <3>2, <4>1, <4>3
      <4> QED BY <4>2, <4>3
    <3> QED BY <3>1, <3>2
  <2>3. more = [n \in 0 .. m + 1 |-> more[n]]
    OBVIOUS
  <2> HIDE DEF more
  <2>4. SplitsUpTo(more, s, m + 1)
    BY <2>2, <2>3 DEF SplitsUpTo
  <2> QED BY <2>4
<1> HIDE DEF T
<1>3. Len(s) \in T
  BY <1>1, <1>2, EveryNumber
<1>4. \E split : SplitsUpTo(split, s, Len(s))
  BY <1>3 DEF T
<1> QED BY <1>4 DEF SplitFirst, SplitsUpTo

SplitSoFar(f, s) ==
    f[0] = NoLines /\ \A n \in 1 .. Len(s) : f[n] = WithByte(f[n - 1], s[n])

LEMMA SplitSteps ==
    ASSUME NEW s, Len(s) \in Nat
    PROVE  SplitSoFar(SplitFirst(s), s)
<1>1. PICK f : f = SplitFirst(s)
  OBVIOUS
<1>2. PICK l \in Nat : l = Len(s)
  OBVIOUS
<1>3. f = [n \in 0 .. l |-> IF n = 0 THEN NoLines ELSE WithByte(f[n - 1], s[n])]
  BY <1>1, <1>2, SplitFirstIs DEF SplitsUpTo
<1>4. f[0] = NoLines
  BY <1>3
<1>5. ASSUME NEW n \in 1 .. l PROVE f[n] = WithByte(f[n - 1], s[n])
  <2>1. n \in 0 .. l /\ n # 0
    OBVIOUS
  <2> QED BY <1>3, <2>1, Zenon
<1> QED BY <1>1, <1>2, <1>4, <1>5 DEF SplitSoFar

LEMMA SplitOfNone == Split(<<>>) = NoLines
<1>1. Len(<<>>) = 0
  OBVIOUS
<1>2. SplitSoFar(SplitFirst(<<>>), <<>>)
  BY <1>1, SplitSteps
<1> QED BY <1>1, <1>2 DEF SplitSoFar, Split

LEMMA SplitOfAppend ==
    ASSUME NEW K, NEW s \in Seq(K), NEW x \in K
    PROVE  Split(Append(s, x)) = WithByte(Split(s), x)
<1>1. PICK u : u = Append(s, x)
  OBVIOUS
<1>2. /\ u \in Seq(K) /\ Len(u) = Len(s) + 1 /\ Len(s) \in Nat /\ u[Len(s) + 1] = x
      /\ \A i \in 1 .. Len(s) : u[i] = s[i]
  BY <1>1, AppendProperties, LenProperties
<1>3. PICK l \in Nat : l = Len(s)
  BY <1>2
<1>4. PICK f : f = SplitFirst(s)
  OBVIOUS
<1>5. PICK g : g = SplitFirst(u)
  OBVIOUS
<1>6. f[0] = NoLines /\ \A n \in 1 .. l : f[n] = WithByte(f[n - 1], s[n])
  BY <1>2, <1>3, <1>4, SplitSteps DEF SplitSoFar
<1>7. g[0] = NoLines /\ \A n \in 1 .. l + 1 : g[n] = WithByte(g[n - 1], u[n])
  BY <1>2, <1>3, <1>5, SplitSteps DEF SplitSoFar
<1> DEFINE T == {n \in Nat : n <= l => g[n] = f[n]}
<1>8. l \in T
  <2>1. 0 \in T
    BY <1>6, <1>7
  <2>2. ASSUME NEW m \in 0 .. l, m < l, m \in T PROVE m + 1 \in T
    <3>1. m + 1 \in 1 .. l /\ m + 1 \in 1 .. l + 1 /\ (m + 1) - 1 = m /\ g[m] = f[m]
      BY <2>2
    <3>2. u[m + 1] = s[m + 1]
      BY <1>2, <1>3, <3>1
    <3>3. g[m + 1] = f[m + 1]
      BY <1>6, <1>7, <3>1, <3>2
    <3> QED BY <3>1, <3>3
  <2> HIDE DEF T
  <2> QED BY <2>1, <2>2, EveryNumber
<1>9. g[l] = f[l]
  BY <1>8
<1>10. l + 1 \in 1 .. l + 1 /\ (l + 1) - 1 = l /\ u[l + 1] = x
  BY <1>2, <1>3
<1>11. g[l + 1] = WithByte(f[l], x)
  BY <1>7, <1>9, <1>10
<1>12. Split(s) = f[l] /\ Split(u) = g[l + 1]
  BY <1>2, <1>3, <1>4, <1>5 DEF Split
<1> QED BY <1>1, <1>11, <1>12

Whole(split, P, parts) ==
    /\ split.enteras \in Seq(Seq(P)) /\ split.resto \in Seq(P)
    /\ FlattenSeq(split.enteras) \o split.resto = parts

LEMMA WholeWithByte ==
    ASSUME NEW P, NEW split, NEW parts, Whole(split, P, parts)
    PROVE  /\ Whole(WithByte(split, LineFeed), P, parts)
           /\ \A x \in P : x # LineFeed => Whole(WithByte(split, x), P, Append(parts, x))
<1>1. PICK a : a = split.enteras
  OBVIOUS
<1>2. PICK r : r = split.resto
  OBVIOUS
<1>3. PICK flat : flat = FlattenSeq(a)
  OBVIOUS
<1>4. a \in Seq(Seq(P)) /\ r \in Seq(P) /\ flat \o r = parts /\ flat \in Seq(P)
  BY <1>1, <1>2, <1>3, FlatOfAppend DEF Whole
<1>5. Whole(WithByte(split, LineFeed), P, parts)
  <2>1. PICK d : d = WithByte(split, LineFeed)
    OBVIOUS
  <2>2. d.enteras = Append(a, r) /\ d.resto = <<>>
    BY <1>1, <1>2, <2>1 DEF WithByte
  <2>3. PICK b : b = Append(a, r)
    OBVIOUS
  <2>4. b \in Seq(Seq(P)) /\ FlattenSeq(b) = parts
    BY <1>3, <1>4, <2>3, AppendProperties, FlatOfAppend
  <2>5. parts \in Seq(P)
    BY <1>4, ConcatProperties
  <2>6. parts \o <<>> = parts /\ <<>> \in Seq(P)
    BY <2>5, ConcatEmptySeq, EmptySeq
  <2> QED BY <2>1, <2>2, <2>3, <2>4, <2>6 DEF Whole
<1>6. ASSUME NEW x \in P, x # LineFeed
      PROVE  Whole(WithByte(split, x), P, Append(parts, x))
  <2>1. PICK d : d = WithByte(split, x)
    OBVIOUS
  <2>2. d.enteras = a /\ d.resto = Append(r, x)
    BY <1>1, <1>2, <1>6, <2>1 DEF WithByte
  <2>3. flat \o Append(r, x) = Append(flat \o r, x) /\ Append(r, x) \in Seq(P)
    BY <1>4, ConcatAppended, AppendProperties, SMTT(60)
  <2> QED BY <1>3, <1>4, <2>1, <2>2, <2>3 DEF Whole
<1> QED BY <1>5, <1>6

LEMMA SplitIs ==
    ASSUME NEW P, LineFeed \notin P
    PROVE  \A s \in Seq(P \cup {LineFeed}) : Whole(Split(s), P, Among(s, P))
<1>1. PICK K : K = P \cup {LineFeed}
  OBVIOUS
<1> DEFINE T == {s \in Seq(K) : Whole(Split(s), P, Among(s, P))}
<1>2. <<>> \in T
  <2>1. Whole(NoLines, P, <<>>)
    <3>1. NoLines.enteras = <<>> /\ NoLines.resto = <<>>
      BY DEF NoLines
    <3>2. <<>> \in Seq(P) /\ <<>> \in Seq(Seq(P)) /\ FlattenSeq(<<>>) = <<>> /\ <<>> \o <<>> = <<>>
      BY EmptySeq, FlatOfNone, ConcatEmptySeq
    <3> QED BY <3>1, <3>2 DEF Whole
  <2> QED BY <2>1, SplitOfNone, AmongOfNone, EmptySeq
<1>3. ASSUME NEW s \in Seq(K), NEW x \in K, s \in T PROVE Append(s, x) \in T
  <2>1. PICK split : split = Split(s)
    OBVIOUS
  <2>2. PICK parts : parts = Among(s, P)
    OBVIOUS
  <2>3. Whole(split, P, parts)
    BY <1>3, <2>1, <2>2
  <2>4. Split(Append(s, x)) = WithByte(split, x)
    BY <2>1, SplitOfAppend
  <2>5. Among(Append(s, x), P) = IF x \in P THEN Append(parts, x) ELSE parts
    BY <2>2, AmongOfAppend
  <2>6. Append(s, x) \in Seq(K)
    BY AppendProperties
  <2>7. CASE x = LineFeed
    <3>1. Whole(WithByte(split, x), P, parts)
      BY <2>3, <2>7, WholeWithByte
    <3> QED BY <2>4, <2>5, <2>6, <2>7, <3>1
  <2>8. CASE x # LineFeed
    <3>1. x \in P
      BY <1>1, <2>8
    <3>2. Whole(WithByte(split, x), P, Append(parts, x))
      BY <2>3, <2>8, <3>1, WholeWithByte
    <3> QED BY <2>4, <2>5, <2>6, <3>1, <3>2
  <2> QED BY <2>7, <2>8
<1> HIDE DEF T
<1>4. \A s \in Seq(K) : s \in T
  BY <1>2, <1>3, EverySequence
<1> QED BY <1>1, <1>4 DEF T

LEMMA EmptyLinesAdd ==
    ASSUME NEW P, P \subseteq SignsOf(Part)
    PROVE  \A ss \in Seq(Seq(P)) : /\ Among(ss, Line) \in Seq(Seq(P))
                                   /\ FlattenSeq(Among(ss, Line)) = FlattenSeq(ss)
<1>1. PICK K : K = Seq(P)
  OBVIOUS
<1> DEFINE T == {ss \in Seq(K) : FlattenSeq(Among(ss, Line)) = FlattenSeq(ss)}
<1>2. <<>> \in T
  BY AmongOfNone, EmptySeq
<1>3. ASSUME NEW ss \in Seq(K), NEW s \in K, ss \in T PROVE Append(ss, s) \in T
  <2>1. PICK a : a = Among(ss, Line)
    OBVIOUS
  <2>2. a \in Seq(K) /\ FlattenSeq(a) = FlattenSeq(ss)
    BY <1>3, <2>1, AmongKeeps
  <2>3. Among(Append(ss, s), Line) = IF s \in Line THEN Append(a, s) ELSE a
    BY <2>1, AmongOfAppend
  <2>4. FlattenSeq(Append(ss, s)) = FlattenSeq(ss) \o s /\ FlattenSeq(ss) \in Seq(P)
    BY <1>1, FlatOfAppend
  <2>5. FlattenSeq(Append(a, s)) = FlattenSeq(a) \o s
    BY <1>1, <2>2, FlatOfAppend
  <2>6. Append(ss, s) \in Seq(K)
    BY AppendProperties
  <2>7. CASE s \in Line
    BY <2>2, <2>3, <2>4, <2>5, <2>6, <2>7
  <2>8. CASE s \notin Line
    <3>1. s = <<>>
      <4>1. s \in Seq(SignsOf(Part))
        BY <1>1, Wider
      <4> QED BY <2>8, <4>1 DEF Line
    <3>2. FlattenSeq(ss) \o s = FlattenSeq(ss)
      BY <2>4, <3>1, ConcatEmptySeq
    <3> QED BY <2>2, <2>3, <2>4, <2>6, <2>8, <3>2
  <2> QED BY <2>7, <2>8
<1> HIDE DEF T
<1>4. \A ss \in Seq(K) : ss \in T
  BY <1>2, <1>3, EverySequence
<1> QED BY <1>1, <1>4, AmongKeeps DEF T

LEMMA SignsAre ==
    ASSUME NEW P, P \subseteq Part
    PROVE  /\ LineFeed \notin SignsOf(P) /\ P \subseteq SignsOf(P)
           /\ \A x \in P : Place(x) = x /\ Place(Garbled(x)) = x /\ Garbled(x) # LineFeed
           /\ \A x \in SignsOf(P) : Place(x) \in P
           /\ \A Q : P \subseteq Q => SignsOf(P) \subseteq SignsOf(Q)
<1>1. \A x \in P : x[1] \in 1 .. MaxTexts /\ x = <<x[1], x[2]>>
  BY DEF Part
<1>2. LineFeed[1] = 0
  BY DEF LineFeed
<1>3. ASSUME NEW x \in P
      PROVE  Place(x) = x /\ Place(Garbled(x)) = x /\ Garbled(x) # LineFeed /\ x # LineFeed
  <2>1. Garbled(x)[1] = x[1] /\ Garbled(x)[2] = x[2]
    BY DEF Garbled
  <2>2. Garbled(x)[1] # LineFeed[1] /\ x[1] # LineFeed[1]
    BY <1>1, <1>2, <2>1
  <2> QED BY <1>1, <2>1, <2>2 DEF Place
<1>4. \A x \in SignsOf(P) : x \in P \/ \E byte \in P : x = Garbled(byte)
  BY DEF SignsOf
<1>5. P \subseteq SignsOf(P) /\ \A Q : P \subseteq Q => SignsOf(P) \subseteq SignsOf(Q)
  BY DEF SignsOf
<1>6. LineFeed \notin SignsOf(P)
  BY <1>3, <1>4
<1>7. \A x \in SignsOf(P) : Place(x) \in P
  BY <1>3, <1>4
<1> QED BY <1>3, <1>5, <1>6, <1>7

LEMMA PlacesAre ==
    ASSUME NEW S, NEW T, \A x \in S : Place(x) \in T, NEW s \in Seq(S)
    PROVE  /\ Places(s) \in Seq(T) /\ Len(Places(s)) = Len(s)
           /\ \A i \in 1 .. Len(s) : Places(s)[i] = Place(s[i])
<1>1. PICK l \in Nat : l = Len(s)
  BY LenProperties
<1>2. PICK places : places = Places(s)
  OBVIOUS
<1>3. places = [i \in 1 .. l |-> Place(s[i])]
  BY <1>1, <1>2 DEF Places
<1>4. \A i \in 1 .. l : s[i] \in S
  BY <1>1, ElementOfSeq
<1>5. places \in [1 .. l -> T]
  BY <1>3, <1>4
<1>6. places \in Seq(T)
  BY <1>5, SeqDef
<1>7. Len(places) = l
  BY <1>5, <1>6, LenProperties
<1> QED BY <1>1, <1>2, <1>3, <1>6, <1>7

LEMMA PlacesOfConcat ==
    ASSUME NEW S, NEW s \in Seq(S), NEW t \in Seq(S)
    PROVE  Places(s \o t) = Places(s) \o Places(t)
<1>1. PICK T : T = {Place(x) : x \in S}
  OBVIOUS
<1>2. \A x \in S : Place(x) \in T
  BY <1>1
<1>3. PICK a : a = Places(s)
  OBVIOUS
<1>4. PICK b : b = Places(t)
  OBVIOUS
<1>5. PICK st : st = s \o t
  OBVIOUS
<1>6. PICK ab : ab = a \o b
  OBVIOUS
<1>7. PICK c : c = Places(st)
  OBVIOUS
<1>8. PICK n \in Nat : n = Len(s)
  BY LenProperties
<1>9. PICK m \in Nat : m = Len(t)
  BY LenProperties
<1>10. a \in Seq(T) /\ Len(a) = n /\ \A i \in 1 .. n : a[i] = Place(s[i])
  BY <1>2, <1>3, <1>8, PlacesAre
<1>11. b \in Seq(T) /\ Len(b) = m /\ \A i \in 1 .. m : b[i] = Place(t[i])
  BY <1>2, <1>4, <1>9, PlacesAre
<1>12. /\ st \in Seq(S) /\ Len(st) = n + m
       /\ \A i \in 1 .. n + m : st[i] = IF i <= n THEN s[i] ELSE t[i - n]
  BY <1>5, <1>8, <1>9, ConcatProperties
<1>13. /\ c \in Seq(T) /\ Len(c) = n + m /\ \A i \in 1 .. n + m : c[i] = Place(st[i])
  BY <1>2, <1>7, <1>12, PlacesAre
<1>14. /\ ab \in Seq(T) /\ Len(ab) = n + m
       /\ \A i \in 1 .. n + m : ab[i] = IF i <= n THEN a[i] ELSE b[i - n]
  BY <1>6, <1>10, <1>11, ConcatProperties
<1>15. ASSUME NEW i \in 1 .. n + m PROVE c[i] = ab[i]
  <2>1. CASE i <= n
    BY <1>10, <1>12, <1>13, <1>14, <2>1
  <2>2. CASE ~(i <= n)
    <3>1. i - n \in 1 .. m
      BY <2>2
    <3> QED BY <1>11, <1>12, <1>13, <1>14, <2>2, <3>1
  <2> QED BY <2>1, <2>2
<1>16. c = ab
  BY <1>13, <1>14, <1>15, SeqEqual
<1> QED BY <1>3, <1>4, <1>5, <1>6, <1>7, <1>16

LEMMA PlacesOfNone == Places(<<>>) = <<>>
BY DEF Places

LEMMA PlacesOfAppend ==
    ASSUME NEW S, NEW s \in Seq(S), NEW x \in S
    PROVE  Places(Append(s, x)) = Append(Places(s), Place(x))
<1>1. PICK one : one = <<x>>
  OBVIOUS
<1>2. one \in Seq(S) /\ Append(s, x) = s \o one
  BY <1>1, AppendIsConcat
<1>3. Places(one) = <<Place(x)>>
  <2>1. Len(one) = 1 /\ one[1] = x
    BY <1>1
  <2>2. Places(one) = [i \in 1 .. 1 |-> Place(one[i])]
    BY <2>1 DEF Places
  <2>3. Places(one) = [i \in 1 .. 1 |-> Place(x)]
    BY <2>1, <2>2
  <2>4. PICK y : y = Place(x)
    OBVIOUS
  <2>5. [i \in 1 .. 1 |-> y] = <<y>>
    OBVIOUS
  <2> QED BY <2>3, <2>4, <2>5
<1>4. PICK T : T = {Place(z) : z \in S}
  OBVIOUS
<1>5. PICK a : a = Places(s)
  OBVIOUS
<1>6. a \in Seq(T) /\ Place(x) \in T
  BY <1>4, <1>5, PlacesAre
<1>7. PICK y : y = Place(x)
  OBVIOUS
<1>8. Append(a, y) = a \o <<y>>
  BY <1>6, <1>7, AppendIsConcat
<1>9. Places(s \o one) = a \o Places(one)
  BY <1>2, <1>5, PlacesOfConcat
<1> QED BY <1>2, <1>3, <1>5, <1>7, <1>8, <1>9

LEMMA PlacesOfAmong ==
    ASSUME NEW P, P \subseteq Part
    PROVE  \A d \in Seq(SignsOf(P) \cup {LineFeed}) :
              Places(Among(d, SignsOf(P))) = Among(Places(d), P)
<1>1. PICK G : G = SignsOf(P)
  OBVIOUS
<1>2. PICK K : K = G \cup {LineFeed}
  OBVIOUS
<1>3. PICK Q : Q = P \cup {LineFeed}
  OBVIOUS
<1>4. LineFeed \notin P /\ LineFeed \notin G /\ Place(LineFeed) = LineFeed
  BY <1>1, SignsAre DEF Place, LineFeed
<1>5. \A x \in G : Place(x) \in P
  BY <1>1, SignsAre
<1>6. \A x \in K : Place(x) \in Q
  BY <1>2, <1>3, <1>4, <1>5
<1> DEFINE T == {d \in Seq(K) : Places(Among(d, G)) = Among(Places(d), P)}
<1>7. <<>> \in T
  BY AmongOfNone, PlacesOfNone, EmptySeq
<1>8. ASSUME NEW d \in Seq(K), NEW x \in K, d \in T PROVE Append(d, x) \in T
  <2>1. PICK a : a = Among(d, G)
    OBVIOUS
  <2>2. PICK p : p = Places(d)
    OBVIOUS
  <2>3. Places(a) = Among(p, P)
    BY <1>8, <2>1, <2>2
  <2>4. a \in Seq(K)
    BY <2>1, AmongKeeps
  <2>5. p \in Seq(Q)
    BY <1>6, <2>2, PlacesAre
  <2>6. PICK y : y = Place(x)
    OBVIOUS
  <2>7. y \in Q /\ (x \in G <=> y \in P)
    <3>1. x = LineFeed => y = LineFeed
      BY <1>4, <2>6
    <3>2. x \in G => y \in P
      BY <1>5, <2>6
    <3> QED BY <1>2, <1>3, <1>4, <3>1, <3>2
  <2>8. Places(Append(d, x)) = Append(p, y)
    BY <2>2, <2>6, PlacesOfAppend
  <2>9. Among(Append(p, y), P) = IF y \in P THEN Append(Among(p, P), y) ELSE Among(p, P)
    BY <2>5, <2>7, AmongOfAppend
  <2>10. Among(Append(d, x), G) = IF x \in G THEN Append(a, x) ELSE a
    BY <2>1, AmongOfAppend
  <2>11. Places(Append(a, x)) = Append(Places(a), y)
    BY <2>4, <2>6, PlacesOfAppend
  <2>12. Append(d, x) \in Seq(K)
    BY AppendProperties
  <2>13. CASE x \in G
    BY <2>3, <2>7, <2>8, <2>9, <2>10, <2>11, <2>12, <2>13
  <2>14. CASE x \notin G
    BY <2>3, <2>7, <2>8, <2>9, <2>10, <2>12, <2>14
  <2> QED BY <2>13, <2>14
<1> HIDE DEF T
<1>9. \A d \in Seq(K) : d \in T
  BY <1>7, <1>8, EverySequence
<1> QED BY <1>1, <1>2, <1>9 DEF T

\* What is decoded stands, sign by sign, for the bytes of the piece.
LEMMA DecodedIs ==
    ASSUME NEW P, P \subseteq Part, NEW s \in Seq(P \cup {LineFeed})
    PROVE  /\ Decoded(s) \in Seq(SignsOf(P) \cup {LineFeed}) /\ Places(Decoded(s)) = s
           /\ DOMAIN Decoded(s) = DOMAIN s
           /\ \A i \in DOMAIN s : Decoded(s)[i] = IF CutOff(s[i], s) THEN Garbled(s[i]) ELSE s[i]
<1>1. PICK d : d = Decoded(s)
  OBVIOUS
<1>2. PICK l \in Nat : l = Len(s)
  BY LenProperties
<1>3. PICK K : K = SignsOf(P) \cup {LineFeed}
  OBVIOUS
<1>4. PICK Q : Q = P \cup {LineFeed}
  OBVIOUS
<1>5. DOMAIN s = 1 .. l /\ s \in Seq(Q) /\ \A i \in 1 .. l : s[i] \in Q
  BY <1>2, <1>4, LenProperties, ElementOfSeq
<1>6. d = [i \in 1 .. l |-> IF CutOff(s[i], s) THEN Garbled(s[i]) ELSE s[i]]
  BY <1>1, <1>5 DEF Decoded
<1>7. Place(LineFeed) = LineFeed /\ LineFeed \notin SignsOf(P)
  BY SignsAre DEF Place, LineFeed
<1>8. ~CutOff(LineFeed, s)
  <2>1. LineFeed[1] = 0 /\ 0 \notin Wide
    BY ChatAssumption DEF LineFeed
  <2> QED BY <2>1 DEF CutOff
<1>9. ASSUME NEW i \in 1 .. l PROVE d[i] \in K /\ Place(d[i]) = s[i]
  <2>1. d[i] = IF CutOff(s[i], s) THEN Garbled(s[i]) ELSE s[i]
    BY <1>6
  <2>2. CASE s[i] = LineFeed
    BY <1>3, <1>7, <1>8, <2>1, <2>2
  <2>3. CASE s[i] \in P
    <3>1. PICK x \in P : x = s[i]
      BY <2>3
    <3>2. Garbled(x) \in SignsOf(P) /\ x \in SignsOf(P)
      BY DEF SignsOf
    <3>3. Place(x) = x /\ Place(Garbled(x)) = x
      BY SignsAre
    <3> QED BY <1>3, <2>1, <3>1, <3>2, <3>3
  <2> QED BY <1>4, <1>5, <2>2, <2>3
<1>10. d \in [1 .. l -> K]
  BY <1>6, <1>9
<1>11. d \in Seq(K)
  BY <1>10, SeqDef
<1>12. DOMAIN d = 1 .. l /\ Len(d) = l
  BY <1>10, <1>11, LenProperties
<1>13. Places(d) = s
  <2>1. PICK a : a = Places(d)
    OBVIOUS
  <2>2. \A x \in K : Place(x) \in Q
    <3>1. \A x \in SignsOf(P) : Place(x) \in P
      BY SignsAre
    <3> QED BY <1>3, <1>4, <1>7, <3>1
  <2>3. a \in Seq(Q) /\ Len(a) = l /\ \A i \in 1 .. l : a[i] = Place(d[i])
    BY <1>11, <1>12, <2>1, <2>2, PlacesAre
  <2>4. \A i \in 1 .. l : a[i] = s[i]
    BY <1>9, <2>3
  <2>5. a = s
    BY <1>2, <1>5, <2>3, <2>4, SeqEqual
  <2> QED BY <2>1, <2>5
<1> QED BY <1>1, <1>3, <1>5, <1>6, <1>11, <1>12, <1>13

\* Whatever the place a stream is cut at, the lines of a piece are what was decoded of
\* it, in its order (cablear, the reader).
LEMMA LinesAre ==
    ASSUME NEW P, P \subseteq Part
    PROVE  \A s \in Seq(P \cup {LineFeed}) :
              /\ Lineas(s) \in Seq(Seq(SignsOf(P)))
              /\ FlattenSeq(Lineas(s)) = Among(Decoded(s), SignsOf(P))
<1> SUFFICES ASSUME NEW s \in Seq(P \cup {LineFeed})
             PROVE  /\ Lineas(s) \in Seq(Seq(SignsOf(P)))
                    /\ FlattenSeq(Lineas(s)) = Among(Decoded(s), SignsOf(P))
  OBVIOUS
<1>0. PICK d : d = Decoded(s)
  OBVIOUS
<1>g. PICK G : G = SignsOf(P)
  OBVIOUS
<1>d. d \in Seq(G \cup {LineFeed}) /\ LineFeed \notin G /\ G \subseteq SignsOf(Part)
  BY <1>0, <1>g, DecodedIs, SignsAre
<1>1. PICK a : a = Split(d).enteras
  OBVIOUS
<1>2. PICK r : r = Split(d).resto
  OBVIOUS
<1>3. a \in Seq(Seq(G)) /\ r \in Seq(G) /\ FlattenSeq(a) \o r = Among(d, G)
  BY <1>d, <1>1, <1>2, SplitIs DEF Whole
<1>4. PICK b : b = Append(a, r)
  OBVIOUS
<1>5. b \in Seq(Seq(G)) /\ FlattenSeq(b) = Among(d, G)
  BY <1>3, <1>4, AppendProperties, FlatOfAppend
<1>6. Lineas(s) = Among(b, Line)
  BY <1>0, <1>1, <1>2, <1>4 DEF Lineas
<1>7. Among(b, Line) \in Seq(Seq(G)) /\ FlattenSeq(Among(b, Line)) = FlattenSeq(b)
  BY <1>d, <1>5, EmptyLinesAdd
<1> QED BY <1>0, <1>g, <1>5, <1>6, <1>7

-----------------------------------------------------------------------------
(* What was sent through an end, and what of it has arrived.               *)

ViaGood(v) == v \in Seq(End) /\ Len(v) <= MaxTexts
TextsIn(v, e) == {t \in DOMAIN v : v[t] = e}
PartsIn(v, e) == {part \in Part : part[1] \in DOMAIN v /\ v[part[1]] = e}
KnownIn(v) == {part \in Part : part[1] \in DOMAIN v}
SignsIn(v) == SignsOf(KnownIn(v))
SentIn(v, e) == PartsOf(Among([t \in DOMAIN v |-> t], TextsIn(v, e)))

LEMMA LineFeedIsNoPart == LineFeed \notin Part
BY DEF LineFeed, Part

LEMMA PartsInAre ==
    ASSUME NEW v, ViaGood(v), NEW e \in End
    PROVE  /\ TextsIn(v, e) \in SUBSET (1 .. MaxTexts)
           /\ PartsIn(v, e) = TextsIn(v, e) \X (1 .. 2) /\ PartsIn(v, e) \subseteq Part
           /\ PartsIn(v, e) \subseteq KnownIn(v) /\ KnownIn(v) \subseteq Part
           /\ SentIn(v, e) \in Seq(Part)
           /\ \A f \in End : f # e => PartsIn(v, e) \cap PartsIn(v, f) = {}
<1>1. DOMAIN v = 1 .. Len(v) /\ Len(v) \in Nat /\ Len(v) <= MaxTexts /\ MaxTexts \in Nat
  BY LenProperties, ChatAssumption DEF ViaGood
<1>2. DOMAIN v \subseteq 1 .. MaxTexts
  BY <1>1
<1>3. TextsIn(v, e) \in SUBSET (1 .. MaxTexts)
  BY <1>2 DEF TextsIn
<1>4. PartsIn(v, e) = TextsIn(v, e) \X (1 .. 2)
  BY <1>2 DEF PartsIn, TextsIn, Part
<1>5. SentIn(v, e) \in Seq(Part)
  <2>1. PICK ids : ids = [t \in DOMAIN v |-> t]
    OBVIOUS
  <2>2. ids \in Seq(1 .. MaxTexts)
    <3>1. ids \in [1 .. Len(v) -> 1 .. MaxTexts]
      BY <1>1, <1>2, <2>1
    <3> QED BY <1>1, <3>1, SeqDef
  <2>3. PICK texts : texts = Among(ids, TextsIn(v, e))
    OBVIOUS
  <2>4. texts \in Seq(1 .. MaxTexts)
    BY <2>2, <2>3, AmongKeeps
  <2>5. PartsOf(texts) \in Seq((1 .. MaxTexts) \X (1 .. 2))
    BY <2>4, PartsAre
  <2> QED BY <2>1, <2>3, <2>5 DEF SentIn, Part
<1>6. \A f \in End : f # e => PartsIn(v, e) \cap PartsIn(v, f) = {}
  BY DEF PartsIn
<1>7. PartsIn(v, e) \subseteq Part /\ PartsIn(v, e) \subseteq KnownIn(v) /\ KnownIn(v) \subseteq Part
  BY DEF PartsIn, KnownIn
<1> QED BY <1>3, <1>4, <1>5, <1>6, <1>7

OneMore(v, e, w, t) ==
    /\ ViaGood(w) /\ t \in TextsIn(w, e) /\ DOMAIN v \subseteq DOMAIN w
    /\ SentIn(w, e) = SentIn(v, e) \o PartsOf(<<t>>)
    /\ KnownIn(v) \subseteq KnownIn(w)
    /\ \A f \in End : /\ f # e => SentIn(w, f) = SentIn(v, f)
                      /\ TextsIn(v, f) \subseteq TextsIn(w, f)
                      /\ PartsIn(v, f) \subseteq PartsIn(w, f)
                      /\ KnownIn(v) \cap PartsIn(w, f) = PartsIn(v, f)

LEMMA OneMoreText ==
    ASSUME NEW v, ViaGood(v), Len(v) < MaxTexts, NEW e \in End
    PROVE  OneMore(v, e, Append(v, e), Len(v) + 1)
<1> SUFFICES ASSUME NEW w, w = Append(v, e), NEW t, t = Len(v) + 1
             PROVE  OneMore(v, e, w, t)
  OBVIOUS
<1>1. PICK l \in Nat : l = Len(v)
  BY LenProperties DEF ViaGood
<1>2. /\ v \in Seq(End) /\ DOMAIN v = 1 .. l /\ l < MaxTexts /\ MaxTexts \in Nat /\ t = l + 1
      /\ w \in Seq(End) /\ Len(w) = l + 1 /\ DOMAIN w = 1 .. l + 1 /\ w[l + 1] = e
      /\ \A i \in 1 .. l : w[i] = v[i]
  BY <1>1, LenProperties, AppendProperties, ChatAssumption DEF ViaGood
<1>3. ViaGood(w)
  BY <1>2 DEF ViaGood
<1>4. TextsIn(w, e) = TextsIn(v, e) \cup {t} /\ t \notin TextsIn(v, e)
  BY <1>2 DEF TextsIn
<1>5. \A f \in End : f # e => TextsIn(w, f) = TextsIn(v, f)
  BY <1>2 DEF TextsIn
<1>6. KnownIn(v) \subseteq KnownIn(w) /\ DOMAIN v \subseteq DOMAIN w
  BY <1>2 DEF KnownIn
<1>7. ASSUME NEW f \in End
      PROVE  /\ PartsIn(v, f) \subseteq PartsIn(w, f)
             /\ KnownIn(v) \cap PartsIn(w, f) = PartsIn(v, f)
  <2>1. \A i \in DOMAIN v : i \in DOMAIN w /\ w[i] = v[i]
    BY <1>2
  <2> QED BY <2>1 DEF KnownIn, PartsIn
<1>8. PICK ids : ids = [i \in DOMAIN v |-> i]
  OBVIOUS
<1>9. PICK more : more = [i \in DOMAIN w |-> i]
  OBVIOUS
<1>10. ids \in Seq(1 .. MaxTexts) /\ Len(ids) = l /\ ToSet(ids) = 1 .. l
  <2>1. ids \in [1 .. l -> 1 .. MaxTexts] /\ \A i \in 1 .. l : ids[i] = i
    BY <1>2, <1>8
  <2>2. ids \in Seq(1 .. MaxTexts) /\ DOMAIN ids = 1 .. l
    BY <2>1, SeqDef
  <2>3. Len(ids) = l
    BY <2>2, LenProperties
  <2> QED BY <2>1, <2>2, <2>3 DEF ToSet
<1>11. more = Append(ids, t)
  <2>1. PICK u : u = Append(ids, t)
    OBVIOUS
  <2>2. t \in 1 .. MaxTexts
    BY <1>2
  <2>3. /\ u \in Seq(1 .. MaxTexts) /\ Len(u) = l + 1 /\ u[l + 1] = t
        /\ \A i \in 1 .. l : u[i] = ids[i]
    BY <1>10, <2>1, <2>2, AppendProperties
  <2>4. more \in [1 .. l + 1 -> 1 .. MaxTexts]
    BY <1>2, <1>9
  <2>5. more \in Seq(1 .. MaxTexts)
    <3>1. l + 1 \in Nat
      BY <1>1
    <3> QED BY <2>4, <3>1, SeqDef
  <2>6. Len(more) = l + 1
    BY <2>4, <2>5, LenProperties
  <2>7. \A i \in 1 .. l + 1 : more[i] = u[i]
    BY <1>2, <1>8, <1>9, <2>3
  <2>8. more = u
    BY <2>3, <2>5, <2>6, <2>7, SeqEqual
  <2> QED BY <2>1, <2>8
<1>12. ASSUME NEW f \in End
       PROVE  Among(ids, TextsIn(w, f)) = Among(ids, TextsIn(v, f))
  <2>1. ToSet(ids) \cap TextsIn(w, f) = ToSet(ids) \cap TextsIn(v, f)
    <3>1. t \notin ToSet(ids)
      BY <1>2, <1>10
    <3> QED BY <1>4, <1>5, <3>1
  <2> QED BY <1>10, <2>1, AmongAgrees
<1>13. ASSUME NEW f \in End
       PROVE  Among(more, TextsIn(w, f)) = IF t \in TextsIn(w, f)
                                           THEN Append(Among(ids, TextsIn(v, f)), t)
                                           ELSE Among(ids, TextsIn(v, f))
  <2>1. PICK J : J = 1 .. MaxTexts
    OBVIOUS
  <2>2. PICK S : S = TextsIn(w, f)
    OBVIOUS
  <2>3. PICK x : x = t
    OBVIOUS
  <2>4. x \in J /\ ids \in Seq(J)
    BY <1>2, <1>10, <2>1, <2>3
  <2>5. Among(Append(ids, x), S) = IF x \in S THEN Append(Among(ids, S), x) ELSE Among(ids, S)
    BY <2>4, AmongOfAppend
  <2> QED BY <1>11, <1>12, <2>2, <2>3, <2>5
<1>14. \A f \in End : f # e => SentIn(w, f) = SentIn(v, f)
  <2> SUFFICES ASSUME NEW f \in End, f # e PROVE SentIn(w, f) = SentIn(v, f)
    OBVIOUS
  <2>1. t \notin TextsIn(w, f)
    BY <1>2 DEF TextsIn
  <2> QED BY <1>8, <1>9, <1>13, <2>1 DEF SentIn
<1>15. SentIn(w, e) = SentIn(v, e) \o PartsOf(<<t>>)
  <2>1. PICK a : a = Among(ids, TextsIn(v, e))
    OBVIOUS
  <2>2. PICK one : one = <<t>>
    OBVIOUS
  <2>3. t \in 1 .. MaxTexts
    BY <1>2
  <2>4. a \in Seq(1 .. MaxTexts) /\ one \in Seq(1 .. MaxTexts)
    BY <1>10, <2>1, <2>2, <2>3, AmongKeeps
  <2>5. Append(a, t) = a \o one
    BY <2>2, <2>3, <2>4, AppendIsConcat
  <2>6. Among(more, TextsIn(w, e)) = a \o one
    BY <1>4, <1>13, <2>1, <2>5
  <2>7. PartsOf(a \o one) = PartsOf(a) \o PartsOf(one)
    BY <2>4, PartsOfConcat
  <2> QED BY <1>8, <1>9, <2>1, <2>2, <2>6, <2>7 DEF SentIn
<1> QED BY <1>3, <1>4, <1>5, <1>6, <1>7, <1>14, <1>15 DEF OneMore

-----------------------------------------------------------------------------
(* A stream: what was sent, what was received of it, what is on the wire   *)
(* and what is in the queue of the writer.                                 *)

Goes(sent, received, wire, queue) == sent = (received \o wire) \o queue
Leaves(sent, received, wire) == \E rest \in Seq(Part) : Goes(sent, received, wire, rest)

LEMMA PartsRegroup ==
    \A a, b, c \in Seq(Part) : (a \o b) \o c = a \o (b \o c)
BY ConcatAssociative, SMTT(60)

LEMMA MoreIsSent ==
    ASSUME NEW s \in Seq(Part), NEW r \in Seq(Part), NEW h \in Seq(Part), NEW p \in Seq(Part)
    PROVE  /\ \A c \in Seq(Part) : Goes(s, r, h, c) => Goes(s \o p, r, h, c \o p)
           /\ Leaves(s, r, h) => Leaves(s \o p, r, h)
<1>1. ASSUME NEW c \in Seq(Part), Goes(s, r, h, c) PROVE Goes(s \o p, r, h, c \o p)
  <2>1. PICK rh : rh = r \o h
    OBVIOUS
  <2>2. rh \in Seq(Part)
    BY <2>1, ConcatProperties
  <2>3. (rh \o c) \o p = rh \o (c \o p)
    BY <2>2, PartsRegroup, ZenonT(60)
  <2> QED BY <1>1, <2>1, <2>3 DEF Goes
<1>2. ASSUME NEW c \in Seq(Part) PROVE c \o p \in Seq(Part)
  BY ConcatProperties
<1> QED BY <1>1, <1>2 DEF Leaves

LEMMA SomeIsWritten ==
    ASSUME NEW s, NEW r \in Seq(Part), NEW h \in Seq(Part), NEW p \in Seq(Part),
           NEW c \in Seq(Part), Goes(s, r, h, p \o c)
    PROVE  Goes(s, r, h \o p, c)
<1>1. PICK rh : rh = r \o h
  OBVIOUS
<1>2. rh \in Seq(Part)
  BY <1>1, ConcatProperties
<1>3. (rh \o p) \o c = rh \o (p \o c)
  BY <1>2, PartsRegroup, ZenonT(60)
<1>4. rh \o p = r \o (h \o p)
  BY <1>1, PartsRegroup, ZenonT(60)
<1> QED BY <1>1, <1>3, <1>4 DEF Goes

LEMMA SomeIsRead ==
    ASSUME NEW s, NEW r \in Seq(Part), NEW h \in Seq(Part), NEW p \in Seq(Part)
    PROVE  /\ \A c : Goes(s, r, p \o h, c) => Goes(s, r \o p, h, c)
           /\ Leaves(s, r, p \o h) => Leaves(s, r \o p, h)
<1>1. (r \o p) \o h = r \o (p \o h)
  BY PartsRegroup, ZenonT(60)
<1> QED BY <1>1 DEF Goes, Leaves

LEMMA SomeIsLost ==
    ASSUME NEW s, NEW r \in Seq(Part), NEW h \in Seq(Part), Leaves(s, r, h)
    PROVE  Leaves(s, r, <<>>)
<1>1. PICK rest \in Seq(Part) : s = (r \o h) \o rest
  BY DEF Leaves, Goes
<1>2. PICK more : more = h \o rest
  OBVIOUS
<1>3. more \in Seq(Part) /\ s = r \o more
  <2>1. h \o rest \in Seq(Part)
    BY ConcatProperties, Zenon
  <2>2. (r \o h) \o rest = r \o (h \o rest)
    BY PartsRegroup, ZenonT(60)
  <2> QED BY <1>1, <1>2, <2>1, <2>2
<1>4. r \o <<>> = r
  BY ConcatEmptySeq
<1> QED BY <1>3, <1>4 DEF Leaves, Goes

-----------------------------------------------------------------------------
(* The inductive invariant: who may be wired, what is where, and that what *)
(* was sent through an end is what was received of it, then what is on the *)
(* wire, then a rest, which is the queue while the connection lives.       *)

IsOver(f, S) == f = [x \in S |-> f[x]]

Wiring ==
    /\ vivo \in [Node -> BOOLEAN] /\ opened \in 0 .. MaxChannels
    /\ abierto \subseteq 1 .. opened
    /\ escritor \in [End -> State] /\ lector \in [End -> State]
    /\ salidas \in [Node -> Seq(Channel)] /\ limpieza \subseteq End
    /\ \A n \in Node : ToSet(salidas[n]) \subseteq 1 .. opened /\ IsInjective(salidas[n])
    /\ \A e \in End : escritor[e] = "no" => e[2] \notin ToSet(salidas[e[1]])

Data ==
    /\ ViaGood(via) /\ \A t \in DOMAIN via : via[t][2] \in 1 .. opened
    /\ IsOver(cola, End) /\ IsOver(hilo, End)
    /\ IsOver(entrantes, Node) /\ IsOver(leidas, Node)
    /\ \A e \in End : /\ cola[e] \in Seq(TextsIn(via, e))
                      /\ hilo[e] \in Seq(PartsIn(via, e) \cup {LineFeed})
    /\ \A n \in Node : /\ entrantes[n] \in Seq(Seq(SignsIn(via)))
                       /\ leidas[n] \in Seq(Seq(SignsIn(via)))

Wire(e) == Among(hilo[e], Part)
Flow(e) ==
    /\ Leaves(Sent(e), Received(e), Wire(e))
    /\ e[2] \in abierto => Goes(Sent(e), Received(e), Wire(e), PartsOf(cola[e]))

Clean == \A n \in Node : OnlyCutsGarble(ToSet(Display(n)))

IInv == Wiring /\ Data /\ Clean /\ \A e \in End : Flow(e)

ChangedAt(S, f, x, y, g) ==
    /\ IsOver(g, S) /\ g[x] = y /\ \A z \in S : z # x => g[z] = f[z]
    /\ y = f[x] => g = f

LEMMA Changed ==
    ASSUME NEW S, NEW f, IsOver(f, S), NEW x \in S, NEW y
    PROVE  ChangedAt(S, f, x, y, [f EXCEPT ![x] = y])
<1>0. PICK g : g = [f EXCEPT ![x] = y]
  OBVIOUS
<1>1. g = [z \in S |-> IF z = x THEN y ELSE f[z]] /\ f = [z \in S |-> f[z]]
  BY <1>0 DEF IsOver
<1>2. y = f[x] => \A z \in S : (IF z = x THEN y ELSE f[z]) = f[z]
  OBVIOUS
<1> QED BY <1>0, <1>1, <1>2 DEF IsOver, ChangedAt

LEMMA TypedIsOver ==
    ASSUME NEW S, NEW T, NEW f \in [S -> T]
    PROVE  IsOver(f, S)
BY DEF IsOver

LEMMA InItsSet ==
    ASSUME NEW S, NEW s \in Seq(S)
    PROVE  ToSet(s) \subseteq S
<1>1. DOMAIN s = 1 .. Len(s) /\ \A i \in 1 .. Len(s) : s[i] \in S
  BY LenProperties, ElementOfSeq
<1> QED BY <1>1 DEF ToSet

\* What is in the queue, on the wire and shown are parts of what was sent.
LEMMA StreamTypes ==
    ASSUME NEW v, ViaGood(v), NEW e \in End,
           NEW c \in Seq(TextsIn(v, e)), NEW h \in Seq(PartsIn(v, e) \cup {LineFeed})
    PROVE  /\ PartsOf(c) \in Seq(Part) /\ Among(h, Part) \in Seq(PartsIn(v, e))
           /\ Among(h, Part) = Among(h, PartsIn(v, e)) /\ Among(h, Part) \in Seq(Part)
<1>1. PICK P : P = PartsIn(v, e)
  OBVIOUS
<1>2. PICK Q : Q = P \cup {LineFeed}
  OBVIOUS
<1>3. P \subseteq Part /\ h \in Seq(Q) /\ LineFeed \notin Part
  BY <1>1, <1>2, PartsInAre, LineFeedIsNoPart
<1>4. PartsOf(c) \in Seq(Part)
  <2>1. TextsIn(v, e) \in SUBSET (1 .. MaxTexts)
    BY PartsInAre
  <2>2. PICK S \in SUBSET (1 .. MaxTexts) : S = TextsIn(v, e)
    BY <2>1
  <2>3. PartsOf(c) \in Seq(S \X (1 .. 2)) /\ S \X (1 .. 2) \subseteq Part
    BY <2>2, PartsAre
  <2> QED BY <2>3, Wider
<1>5. Among(h, Part) = Among(h, P)
  <2>1. \A i \in 1 .. Len(h) : h[i] \in Q
    BY <1>3, ElementOfSeq
  <2>2. DOMAIN h = 1 .. Len(h)
    BY <1>3, LenProperties
  <2>3. ToSet(h) \subseteq Q
    BY <2>1, <2>2 DEF ToSet
  <2>4. ToSet(h) \cap Part = ToSet(h) \cap P
    BY <1>2, <1>3, <2>3
  <2> QED BY <1>3, <2>4, AmongAgrees
<1>6. Among(h, P) \in Seq(P)
  <2>1. PICK a : a = Among(h, P)
    OBVIOUS
  <2>2. a \in Seq(Q) /\ ToSet(a) = ToSet(h) \cap P
    BY <1>3, <2>1, AmongKeeps
  <2>3. Len(a) \in Nat /\ DOMAIN a = 1 .. Len(a) /\ a \in [1 .. Len(a) -> Q]
    BY <2>2, LenProperties
  <2>4. \A i \in 1 .. Len(a) : a[i] \in P
    BY <2>2, <2>3 DEF ToSet
  <2>5. a \in [1 .. Len(a) -> P]
    BY <2>3, <2>4
  <2> QED BY <2>1, <2>3, <2>5, SeqDef
<1>7. Seq(P) \subseteq Seq(Part)
  BY <1>3, Wider
<1> QED BY <1>1, <1>4, <1>5, <1>6, <1>7

LEMMA ShownTypes ==
    ASSUME NEW v, ViaGood(v), NEW lines \in Seq(Seq(SignsIn(v))),
           NEW more \in Seq(Seq(SignsIn(v)))
    PROVE  /\ lines \o more \in Seq(Seq(SignsIn(v)))
           /\ FlattenSeq(lines \o more) \in Seq(SignsIn(v))
           /\ Places(FlattenSeq(lines \o more)) \in Seq(KnownIn(v))
           /\ Places(FlattenSeq(lines \o more)) \in Seq(Part)
<1>1. PICK all : all = lines \o more
  OBVIOUS
<1>2. all \in Seq(Seq(SignsIn(v)))
  BY <1>1, ConcatProperties
<1>3. PICK signs : signs = FlattenSeq(all)
  OBVIOUS
<1>4. signs \in Seq(SignsIn(v))
  BY <1>2, <1>3, FlatOfAppend
<1>5. KnownIn(v) \subseteq Part
  BY DEF KnownIn
<1>6. \A x \in SignsIn(v) : Place(x) \in KnownIn(v)
  BY <1>5, SignsAre DEF SignsIn
<1>7. Places(signs) \in Seq(KnownIn(v))
  BY <1>4, <1>6, PlacesAre
<1>8. Places(signs) \in Seq(Part)
  BY <1>5, <1>7, Wider
<1> QED BY <1>1, <1>2, <1>3, <1>4, <1>7, <1>8

-----------------------------------------------------------------------------
(* The wiring is kept.                                                     *)

LEMMA WiredOnce ==
    ASSUME IInv, NEW e \in End, e[2] \notin ToSet(salidas[e[1]]), NEW m \in 0 .. MaxChannels,
           opened <= m, e[2] \in 1 .. m, Cableado(e), vivo' = vivo, opened' = m,
           abierto' \subseteq 1 .. m
    PROVE  Wiring'
<1>1. Wiring /\ opened \in 0 .. MaxChannels
  BY DEF IInv, Wiring
<1>2. e[1] \in Node /\ e[2] \in Channel /\ e = <<e[1], e[2]>>
  BY FarEnds
<1>3. PICK c : c = e[2]
  OBVIOUS
<1>4. PICK n \in Node : n = e[1]
  BY <1>2
<1>5. PICK s : s = salidas[n]
  OBVIOUS
<1>6. s \in Seq(Channel) /\ ToSet(s) \subseteq 1 .. opened /\ IsInjective(s) /\ c \notin ToSet(s)
  BY <1>1, <1>3, <1>4, <1>5 DEF Wiring
<1>7. PICK t : t = Append(s, c)
  OBVIOUS
<1>8. t \in Seq(Channel) /\ ToSet(t) = ToSet(s) \cup {c} /\ IsInjective(t)
  BY <1>2, <1>3, <1>6, <1>7, AppendKeeps
<1>9. salidas' = [salidas EXCEPT ![n] = t]
  BY <1>3, <1>4, <1>5, <1>7 DEF Cableado
<1>10. salidas \in [Node -> Seq(Channel)]
  BY <1>1 DEF Wiring
<1>11. salidas' \in [Node -> Seq(Channel)] /\ salidas'[n] = t
       /\ \A k \in Node : k # n => salidas'[k] = salidas[k]
  BY <1>8, <1>9, <1>10
<1>12. ASSUME NEW k \in Node
       PROVE  ToSet(salidas'[k]) \subseteq 1 .. opened' /\ IsInjective(salidas'[k])
  <2>1. 1 .. opened \subseteq 1 .. m
    BY <1>1
  <2>2. CASE k = n
    BY <1>3, <1>6, <1>8, <1>11, <2>1, <2>2
  <2>3. CASE k # n
    <3>1. ToSet(salidas[k]) \subseteq 1 .. opened /\ IsInjective(salidas[k])
      BY <1>1 DEF Wiring
    <3> QED BY <1>11, <2>1, <2>3, <3>1
  <2> QED BY <2>2, <2>3
<1>13. /\ escritor' \in [End -> State] /\ lector' \in [End -> State] /\ escritor'[e] = "vive"
       /\ \A f \in End : f # e => escritor'[f] = escritor[f]
  BY <1>1 DEF Wiring, State, Cableado
<1>14. ASSUME NEW f \in End, escritor'[f] = "no"
       PROVE  f[2] \notin ToSet(salidas'[f[1]])
  <2>1. f # e /\ escritor[f] = "no"
    BY <1>13, <1>14
  <2>2. f[1] \in Node /\ f = <<f[1], f[2]>>
    BY FarEnds
  <2>3. f[2] \notin ToSet(salidas[f[1]])
    BY <1>1, <2>1 DEF Wiring
  <2>4. CASE f[1] = n
    <3>1. f[2] # c
      BY <1>2, <1>3, <1>4, <2>1, <2>2, <2>4
    <3> QED BY <1>5, <1>8, <1>11, <2>3, <2>4, <3>1
  <2>5. CASE f[1] # n
    BY <1>11, <2>2, <2>3, <2>5
  <2> QED BY <2>4, <2>5
<1>15. limpieza' \subseteq End /\ vivo' \in [Node -> BOOLEAN]
  BY <1>1 DEF Wiring, Cableado
<1> QED BY <1>11, <1>12, <1>13, <1>14, <1>15 DEF Wiring

LEMMA WiringIsKept ==
    ASSUME IInv, [Next]_vars
    PROVE  Wiring'
<1>0. Wiring
  BY DEF IInv
<1>1. CASE UNCHANGED vars
  BY <1>0, <1>1 DEF Wiring, vars, tasks
<1>2. ASSUME NEW n \in Node, StartServidor(n) PROVE Wiring'
  BY <1>0, <1>2 DEF StartServidor, Wiring, tasks
<1>3. ASSUME NEW n \in Node, Stop(n) PROVE Wiring'
  BY <1>0, <1>3 DEF Stop, Wiring, tasks
<1>4. ASSUME NEW n \in Node, ChatConectar(n) PROVE Wiring'
  <2>1. opened < MaxChannels /\ opened \in 0 .. MaxChannels /\ MaxChannels \in Nat
    BY <1>0, <1>4, ChatAssumption DEF ChatConectar, Wiring
  <2>2. PICK c \in Channel : c = opened + 1
    BY <2>1 DEF Channel
  <2>3. PICK e : e = <<n, c>>
    OBVIOUS
  <2>4. e \in End /\ e[1] = n /\ e[2] = c
    BY <2>3 DEF End
  <2>5. Cableado(e) /\ vivo' = vivo /\ opened' = c /\ abierto' = abierto \cup {c}
    BY <1>4, <2>2, <2>3 DEF ChatConectar
  <2>6. e[2] \notin ToSet(salidas[e[1]])
    <3>1. ToSet(salidas[n]) \subseteq 1 .. opened /\ c \notin 1 .. opened
      BY <1>0, <2>1, <2>2 DEF Wiring
    <3> QED BY <2>4, <3>1
  <2>7. c \in 0 .. MaxChannels /\ opened <= c /\ c \in 1 .. c /\ abierto' \subseteq 1 .. c
    <3>1. abierto \subseteq 1 .. opened
      BY <1>0 DEF Wiring
    <3> QED BY <2>1, <2>2, <2>5, <3>1
  <2> QED BY <2>4, <2>5, <2>6, <2>7, WiredOnce
<1>5. ASSUME NEW e \in End, Accept(e) PROVE Wiring'
  <2>1. Cableado(e) /\ vivo' = vivo /\ opened' = opened /\ abierto' = abierto
        /\ escritor[e] = "no" /\ e[2] \in abierto
    BY <1>5 DEF Accept
  <2>2. /\ opened \in 0 .. MaxChannels /\ abierto \subseteq 1 .. opened
        /\ e[2] \notin ToSet(salidas[e[1]])
    BY <1>0, <2>1 DEF Wiring
  <2>3. PICK m \in 0 .. MaxChannels : m = opened
    BY <2>2
  <2>4. opened <= m /\ e[2] \in 1 .. m /\ opened' = m /\ abierto' \subseteq 1 .. m
    <3>1. abierto \subseteq 1 .. m
      BY <2>2, <2>3
    <3>2. opened' = m /\ abierto' = abierto /\ e[2] \in abierto
      BY <2>1, <2>3
    <3>3. opened <= m
      BY <2>3
    <3>4. e[2] \in 1 .. m /\ abierto' \subseteq 1 .. m
      BY <3>1, <3>2, Zenon
    <3> QED BY <3>2, <3>3, <3>4
  <2> QED BY <2>1, <2>2, <2>4, WiredOnce
<1>6. ASSUME NEW c \in Channel, Pierde(c) PROVE Wiring'
  BY <1>0, <1>6 DEF Pierde, Wiring, tasks
<1>7. ASSUME NEW e \in End, Limpia(e) PROVE Wiring'
  <2>1. e[1] \in Node
    BY FarEnds
  <2>2. <<>> \in Seq(Channel) /\ ToSet(<<>>) = {} /\ IsInjective(<<>>)
    BY EmptySeq DEF ToSet, IsInjective
  <2>3. salidas' = [salidas EXCEPT ![e[1]] = <<>>] /\ limpieza' = limpieza \ {e}
        /\ UNCHANGED <<vivo, opened, abierto, escritor, lector>>
    BY <1>7 DEF Limpia
  <2>4. salidas \in [Node -> Seq(Channel)]
    BY <1>0 DEF Wiring
  <2>5. /\ salidas' \in [Node -> Seq(Channel)]
        /\ \A n \in Node : salidas'[n] = IF n = e[1] THEN <<>> ELSE salidas[n]
    BY <2>1, <2>2, <2>3, <2>4
  <2>6. ASSUME NEW n \in Node
        PROVE  ToSet(salidas'[n]) \subseteq 1 .. opened' /\ IsInjective(salidas'[n])
    <3>1. ToSet(salidas[n]) \subseteq 1 .. opened /\ IsInjective(salidas[n]) /\ opened' = opened
      BY <1>0, <2>3 DEF Wiring
    <3>2. CASE n = e[1]
      <4>1. ToSet(salidas'[n]) = {} /\ IsInjective(salidas'[n])
        BY <2>2, <2>5, <3>2
      <4> QED BY <4>1
    <3>3. CASE n # e[1]
      BY <2>5, <3>1, <3>3
    <3> QED BY <3>2, <3>3
  <2>7. ASSUME NEW f \in End, escritor'[f] = "no"
        PROVE  f[2] \notin ToSet(salidas'[f[1]])
    <3>1. f[2] \notin ToSet(salidas[f[1]])
      BY <1>0, <2>3, <2>7 DEF Wiring
    <3>2. f[1] \in Node
      BY FarEnds
    <3>3. salidas'[f[1]] = <<>> \/ salidas'[f[1]] = salidas[f[1]]
      BY <2>5, <3>2
    <3> QED BY <2>2, <3>1, <3>3
  <2>8. /\ vivo' \in [Node -> BOOLEAN] /\ opened' \in 0 .. MaxChannels
        /\ abierto' \subseteq 1 .. opened' /\ escritor' \in [End -> State]
        /\ lector' \in [End -> State] /\ limpieza' \subseteq End
    BY <1>0, <2>3 DEF Wiring
  <2> QED BY <2>5, <2>6, <2>7, <2>8 DEF Wiring
<1>8. ASSUME NEW n \in Node, ChatMandar(n) PROVE Wiring'
  BY <1>0, <1>8 DEF ChatMandar, Wiring, tasks
<1>9. ASSUME NEW e \in End, Escribe(e) PROVE Wiring'
  <2>1. UNCHANGED <<vivo, opened, abierto, lector, salidas, limpieza>>
    BY <1>9 DEF Escribe
  <2>2. escritor' \in [End -> State] /\ \A f \in End : escritor'[f] = "no" => escritor[f] = "no"
    BY <1>0, <1>9 DEF Escribe, Wiring, State
  <2> QED BY <1>0, <2>1, <2>2 DEF Wiring
<1>10. ASSUME NEW e \in End, TerminaEscritor(e) PROVE Wiring'
  <2>1. UNCHANGED <<vivo, opened, abierto, lector, salidas, limpieza>>
    BY <1>10 DEF TerminaEscritor
  <2>2. escritor' \in [End -> State] /\ \A f \in End : escritor'[f] = "no" => escritor[f] = "no"
    BY <1>0, <1>10 DEF TerminaEscritor, Wiring, State
  <2> QED BY <1>0, <2>1, <2>2 DEF Wiring
<1>11. ASSUME NEW e \in End, Lee(e) PROVE Wiring'
  BY <1>0, <1>11 DEF Lee, Wiring, tasks
<1>12. ASSUME NEW e \in End, TerminaLector(e) PROVE Wiring'
  <2>1. UNCHANGED <<vivo, opened, abierto, escritor, salidas, limpieza>>
    BY <1>12 DEF TerminaLector
  <2>2. lector' \in [End -> State]
    BY <1>0, <1>12 DEF TerminaLector, Wiring, State
  <2> QED BY <1>0, <2>1, <2>2 DEF Wiring
<1>13. ASSUME NEW n \in Node, ChatLeer(n) PROVE Wiring'
  BY <1>0, <1>13 DEF ChatLeer, Wiring, tasks
<1> QED BY <1>1, <1>2, <1>3, <1>4, <1>5, <1>6, <1>7, <1>8, <1>9, <1>10, <1>11, <1>12, <1>13
        DEF Next

-----------------------------------------------------------------------------
(* The streams are kept.                                                   *)

Known == KnownIn(via)
Signs == SignsIn(via)

LEMMA Here ==
    ASSUME IInv
    PROVE  /\ ViaGood(via) /\ \A t \in DOMAIN via : via[t][2] \in 1 .. opened
           /\ IsOver(cola, End) /\ IsOver(hilo, End)
           /\ IsOver(entrantes, Node) /\ IsOver(leidas, Node)
           /\ \A n \in Node : /\ entrantes[n] \in Seq(Seq(Signs)) /\ leidas[n] \in Seq(Seq(Signs))
                              /\ Display(n) \in Seq(Signs)
                              /\ Shows(n) \in Seq(Known) /\ Shows(n) \in Seq(Part)
           /\ \A e \in End : /\ Sent(e) = SentIn(via, e) /\ Sent(e) \in Seq(Part)
                             /\ Received(e) = Among(Shows(Peer(e[1])), PartsIn(via, e))
                             /\ Received(e) \in Seq(Part) /\ Wire(e) \in Seq(Part)
                             /\ Wire(e) = Among(hilo[e], PartsIn(via, e))
                             /\ cola[e] \in Seq(TextsIn(via, e))
                             /\ hilo[e] \in Seq(PartsIn(via, e) \cup {LineFeed})
                             /\ PartsOf(cola[e]) \in Seq(Part) /\ Flow(e)
<1>1. Data /\ \A e \in End : Flow(e)
  BY DEF IInv
<1>2. /\ ViaGood(via) /\ \A t \in DOMAIN via : via[t][2] \in 1 .. opened
      /\ IsOver(cola, End) /\ IsOver(hilo, End)
      /\ IsOver(entrantes, Node) /\ IsOver(leidas, Node)
  BY <1>1 DEF Data
<1>3. ASSUME NEW n \in Node
      PROVE  /\ entrantes[n] \in Seq(Seq(Signs)) /\ leidas[n] \in Seq(Seq(Signs))
             /\ Display(n) \in Seq(Signs)
             /\ Shows(n) \in Seq(Known) /\ Shows(n) \in Seq(Part)
  <2>1. entrantes[n] \in Seq(Seq(Signs)) /\ leidas[n] \in Seq(Seq(Signs))
    BY <1>1 DEF Data, Signs
  <2>2. Display(n) \in Seq(Signs) /\ Shows(n) \in Seq(Known) /\ Shows(n) \in Seq(Part)
    BY <1>2, <2>1, ShownTypes DEF Shows, Display, Known, Signs
  <2> QED BY <2>1, <2>2
<1>4. ASSUME NEW e \in End
      PROVE  /\ Sent(e) = SentIn(via, e) /\ Sent(e) \in Seq(Part)
             /\ Received(e) = Among(Shows(Peer(e[1])), PartsIn(via, e))
             /\ Received(e) \in Seq(Part) /\ Wire(e) \in Seq(Part)
             /\ Wire(e) = Among(hilo[e], PartsIn(via, e))
             /\ cola[e] \in Seq(TextsIn(via, e))
             /\ hilo[e] \in Seq(PartsIn(via, e) \cup {LineFeed})
             /\ PartsOf(cola[e]) \in Seq(Part) /\ Flow(e)
  <2>1. cola[e] \in Seq(TextsIn(via, e)) /\ hilo[e] \in Seq(PartsIn(via, e) \cup {LineFeed})
    BY <1>1 DEF Data
  <2>2. Sent(e) = SentIn(via, e)
    BY DEF Sent, TextsOf, SentIn, TextsIn
  <2>3. Received(e) = Among(Shows(Peer(e[1])), PartsIn(via, e))
    BY DEF Received, PartsVia, PartsIn
  <2>4. Peer(e[1]) \in Node
    BY FarEnds, Peers
  <2>5. Received(e) \in Seq(Part)
    BY <1>3, <2>3, <2>4, AmongKeeps
  <2>6. Sent(e) \in Seq(Part)
    BY <1>2, <2>2, PartsInAre
  <2>7. /\ PartsOf(cola[e]) \in Seq(Part) /\ Wire(e) \in Seq(Part)
        /\ Wire(e) = Among(hilo[e], PartsIn(via, e))
    BY <1>2, <2>1, StreamTypes DEF Wire
  <2> QED BY <1>1, <2>1, <2>2, <2>3, <2>5, <2>6, <2>7
<1> QED BY <1>2, <1>3, <1>4

LEMMA FlowStays ==
    ASSUME NEW e \in End, Flow(e), Sent(e)' = Sent(e), Received(e)' = Received(e),
           Wire(e)' = Wire(e), cola'[e] = cola[e] \/ e[2] \notin abierto,
           e[2] \in abierto' => e[2] \in abierto
    PROVE  Flow(e)'
BY DEF Flow

LEMMA NoTexts ==
    ASSUME NEW v, ViaGood(v), NEW e \in End, TextsIn(v, e) = {}
    PROVE  SentIn(v, e) = <<>> /\ PartsIn(v, e) = {}
<1>1. DOMAIN v = 1 .. Len(v) /\ Len(v) \in Nat
  BY LenProperties DEF ViaGood
<1>2. PICK ids : ids = [t \in DOMAIN v |-> t]
  OBVIOUS
<1>3. ids \in Seq(Nat)
  <2>1. ids \in [1 .. Len(v) -> Nat]
    BY <1>1, <1>2
  <2> QED BY <1>1, <2>1, SeqDef
<1>4. Among(ids, {}) = <<>>
  BY <1>3, AmongOthers
<1>5. SentIn(v, e) = <<>>
  BY <1>2, <1>4, PartsOfNone DEF SentIn
<1>6. PartsIn(v, e) = {}
  BY PartsInAre
<1> QED BY <1>5, <1>6

LEMMA NothingToFlow ==
    ASSUME IInv, NEW e \in End, e[2] \notin 1 .. opened
    PROVE  Goes(Sent(e), Received(e), Wire(e), PartsOf(cola[e]))
<1>1. TextsIn(via, e) = {}
  BY Here DEF TextsIn
<1>2. SentIn(via, e) = <<>> /\ PartsIn(via, e) = {}
  BY <1>1, Here, NoTexts
<1>3. cola[e] = <<>>
  <2>1. PICK c : c = cola[e]
    OBVIOUS
  <2>2. c \in Seq({})
    BY <1>1, <2>1, Here
  <2>3. Len(c) \in Nat /\ c \in [1 .. Len(c) -> {}]
    BY <2>2, LenProperties
  <2>4. Len(c) = 0
    <3>1. Len(c) # 0 => 1 \in 1 .. Len(c)
      BY <2>3
    <3>2. 1 \in 1 .. Len(c) => c[1] \in {}
      BY <2>3
    <3> QED BY <3>1, <3>2
  <2> QED BY <2>1, <2>2, <2>4, EmptySeq
<1>4. Received(e) = <<>>
  <2>1. PICK shown : shown = Shows(Peer(e[1]))
    OBVIOUS
  <2>2. Peer(e[1]) \in Node
    BY FarEnds, Peers
  <2>3. shown \in Seq(Part) /\ Received(e) = Among(shown, {})
    BY <1>2, <2>1, <2>2, Here
  <2> QED BY <2>3, AmongOthers
<1>5. Wire(e) = <<>>
  <2>1. PICK h : h = hilo[e]
    OBVIOUS
  <2>2. h \in Seq({} \cup {LineFeed}) /\ Wire(e) = Among(h, {})
    BY <1>2, <2>1, Here
  <2> QED BY <2>2, AmongOthers
<1>6. Sent(e) = <<>>
  BY <1>2, Here
<1>7. (<<>> \o <<>>) \o <<>> = <<>>
  BY EmptySeq, ConcatEmptySeq
<1> QED BY <1>3, <1>4, <1>5, <1>6, <1>7, PartsOfNone DEF Goes

LEMMA SameData ==
    ASSUME IInv, UNCHANGED <<cola, hilo, entrantes, leidas, via>>,
           NEW m \in Nat, opened' = m, opened <= m,
           \A c \in abierto' : c \in abierto \/ c \notin 1 .. opened
    PROVE  Data' /\ \A e \in End : Flow(e)'
<1>1. Data /\ opened \in Nat
  BY DEF IInv, Wiring
<1>2. \A t \in DOMAIN via' : via'[t][2] \in 1 .. opened'
  <2>1. 1 .. opened \subseteq 1 .. m
    BY <1>1
  <2> QED BY <1>1, <2>1 DEF Data
<1>3. Data'
  BY <1>1, <1>2 DEF Data
<1>4. ASSUME NEW e \in End PROVE Flow(e)'
  <2>1. Sent(e)' = Sent(e) /\ Received(e)' = Received(e) /\ Wire(e)' = Wire(e)
    BY DEF Sent, TextsOf, Received, PartsVia, Shows, Display, Wire
  <2>2. CASE e[2] \in abierto' => e[2] \in abierto
    BY <2>1, <2>2, FlowStays, Here
  <2>3. CASE e[2] \in abierto' /\ e[2] \notin abierto
    <3>1. Goes(Sent(e), Received(e), Wire(e), PartsOf(cola[e]))
      BY <2>3, NothingToFlow
    <3>2. Leaves(Sent(e), Received(e), Wire(e))
      BY Here DEF Flow
    <3> QED BY <2>1, <3>1, <3>2 DEF Flow
  <2> QED BY <2>2, <2>3
<1> QED BY <1>3, <1>4

\* chat_mandar: one text more was sent through the oldest channel, and is in its queue.
LEMMA TextIsSent ==
    ASSUME IInv, NEW e \in End, e[2] \in 1 .. opened, Len(via) < MaxTexts,
           cola' = [cola EXCEPT ![e] = Append(cola[e], Len(via) + 1)],
           via' = Append(via, e),
           UNCHANGED <<opened, abierto, hilo, entrantes, leidas>>
    PROVE  Data' /\ \A f \in End : Flow(f)'
<1>1. PICK w : w = via'
  OBVIOUS
<1>2. PICK t : t = Len(via) + 1
  OBVIOUS
<1>3. PICK v : v = via
  OBVIOUS
<1>4. ViaGood(v) /\ Len(v) < MaxTexts /\ w = Append(v, e) /\ t = Len(v) + 1
  BY <1>1, <1>2, <1>3, Here
<1>0. OneMore(v, e, w, t)
  BY <1>4, OneMoreText
<1>5. /\ ViaGood(w) /\ t \in TextsIn(w, e) /\ DOMAIN v \subseteq DOMAIN w
      /\ SentIn(w, e) = SentIn(v, e) \o PartsOf(<<t>>)
      /\ KnownIn(v) \subseteq KnownIn(w)
      /\ \A f \in End : /\ f # e => SentIn(w, f) = SentIn(v, f)
                        /\ TextsIn(v, f) \subseteq TextsIn(w, f)
                        /\ PartsIn(v, f) \subseteq PartsIn(w, f)
                        /\ KnownIn(v) \cap PartsIn(w, f) = PartsIn(v, f)
  BY <1>0 DEF OneMore
<1>6. PICK c : c = cola[e]
  OBVIOUS
<1>7. PICK d : d = Append(c, t)
  OBVIOUS
<1>8. cola' = [cola EXCEPT ![e] = d]
  BY <1>2, <1>6, <1>7
<1>9. IsOver(cola', End) /\ cola'[e] = d /\ \A f \in End : f # e => cola'[f] = cola[f]
  <2>1. IsOver(cola, End)
    BY Here
  <2>2. ChangedAt(End, cola, e, d, [cola EXCEPT ![e] = d])
    BY <2>1, Changed, Zenon
  <2> QED BY <1>8, <2>2, Zenon DEF ChangedAt
<1>10. c \in Seq(TextsIn(w, e)) /\ d \in Seq(TextsIn(w, e)) /\ d = c \o <<t>>
  <2>1. c \in Seq(TextsIn(v, e))
    BY <1>3, <1>6, Here
  <2>2. c \in Seq(TextsIn(w, e))
    BY <1>5, <2>1, Wider
  <2>3. PICK S : S = TextsIn(w, e)
    OBVIOUS
  <2>4. c \in Seq(S) /\ t \in S
    BY <1>5, <2>2, <2>3
  <2>5. d \in Seq(S) /\ d = c \o <<t>>
    BY <1>7, <2>4, AppendProperties, AppendIsConcat
  <2> QED BY <2>2, <2>3, <2>5
<1>11. PartsOf(d) = PartsOf(c) \o PartsOf(<<t>>) /\ PartsOf(<<t>>) \in Seq(Part)
  <2>1. PICK S : S = TextsIn(w, e)
    OBVIOUS
  <2>2. S \in SUBSET (1 .. MaxTexts)
    BY <1>5, <2>1, PartsInAre
  <2>3. PICK one : one = <<t>>
    OBVIOUS
  <2>4. c \in Seq(S) /\ one \in Seq(S)
    <3>1. t \in S
      BY <1>5, <2>1
    <3> QED BY <1>10, <2>1, <2>3, <3>1
  <2>5. PartsOf(c \o one) = PartsOf(c) \o PartsOf(one)
    BY <2>2, <2>4, PartsOfConcat
  <2>6. PartsOf(one) \in Seq(S \X (1 .. 2)) /\ S \X (1 .. 2) \subseteq Part
    BY <2>2, <2>4, PartsAre
  <2>7. PartsOf(one) \in Seq(Part)
    BY <2>6, Wider
  <2> QED BY <1>10, <2>3, <2>5, <2>7
<1>12. Data'
  <2>1. \A i \in DOMAIN via' : via'[i][2] \in 1 .. opened'
    <3>1. \A i \in DOMAIN v : v[i][2] \in 1 .. opened
      BY <1>3, Here
    <3>2. \A i \in DOMAIN w : i \in DOMAIN v \/ w[i] = e
      <4>1. v \in Seq(End) /\ w = Append(v, e) /\ e \in End
        BY <1>4 DEF ViaGood
      <4>2. /\ DOMAIN v = 1 .. Len(v) /\ Len(v) \in Nat
            /\ w \in Seq(End) /\ Len(w) = Len(v) + 1 /\ w[Len(v) + 1] = e
        BY <4>1, LenProperties, AppendProperties
      <4>3. DOMAIN w = 1 .. Len(v) + 1
        BY <4>2, LenProperties
      <4> QED BY <4>2, <4>3
    <3>3. \A i \in DOMAIN v : w[i] = v[i]
      <4>1. v \in Seq(End) /\ w = Append(v, e) /\ e \in End
        BY <1>4 DEF ViaGood
      <4> QED BY <4>1, LenProperties, AppendProperties
    <3> QED BY <1>1, <3>1, <3>2, <3>3
  <2>2. ASSUME NEW f \in End
        PROVE  /\ cola'[f] \in Seq(TextsIn(w, f))
               /\ hilo'[f] \in Seq(PartsIn(w, f) \cup {LineFeed})
    <3>1. cola[f] \in Seq(TextsIn(v, f)) /\ hilo[f] \in Seq(PartsIn(v, f) \cup {LineFeed})
      BY <1>3, Here
    <3>2. cola[f] \in Seq(TextsIn(w, f))
      BY <1>5, <3>1, Wider
    <3>3. PartsIn(v, f) \cup {LineFeed} \subseteq PartsIn(w, f) \cup {LineFeed}
      BY <1>5
    <3>4. hilo[f] \in Seq(PartsIn(w, f) \cup {LineFeed})
      BY <3>1, <3>3, Wider
    <3> QED BY <1>9, <1>10, <3>2, <3>4
  <2>3. ASSUME NEW n \in Node
        PROVE  entrantes'[n] \in Seq(Seq(SignsIn(w))) /\ leidas'[n] \in Seq(Seq(SignsIn(w)))
    <3>1. entrantes[n] \in Seq(Seq(SignsIn(v))) /\ leidas[n] \in Seq(Seq(SignsIn(v)))
      BY <1>3, Here DEF Signs
    <3>2. SignsIn(v) \subseteq SignsIn(w)
      <4>1. KnownIn(v) \subseteq Part
        BY DEF KnownIn
      <4> QED BY <1>5, <4>1, SignsAre DEF SignsIn
    <3>3. Seq(Seq(SignsIn(v))) \subseteq Seq(Seq(SignsIn(w)))
      BY <3>2, Wider
    <3> QED BY <3>1, <3>3
  <2>4. IsOver(hilo', End) /\ IsOver(entrantes', Node) /\ IsOver(leidas', Node)
    BY Here
  <2> QED BY <1>1, <1>5, <1>9, <2>1, <2>2, <2>3, <2>4 DEF Data
<1>13. ASSUME NEW f \in End PROVE Flow(f)'
  <2>1. Wire(f)' = Wire(f) /\ Sent(f)' = SentIn(w, f)
    BY <1>1 DEF Wire, Sent, TextsOf, SentIn, TextsIn
  <2>2. Received(f)' = Received(f)
    <3>1. PICK shown : shown = Shows(Peer(f[1]))
      OBVIOUS
    <3>2. Received(f)' = Among(shown, PartsIn(w, f))
      BY <1>1, <3>1 DEF Received, PartsVia, PartsIn, Shows, Display
    <3>3. Peer(f[1]) \in Node
      BY FarEnds, Peers
    <3>4. shown \in Seq(KnownIn(v)) /\ Received(f) = Among(shown, PartsIn(v, f))
      BY <1>3, <3>1, <3>3, Here DEF Known
    <3>5. ToSet(shown) \cap PartsIn(w, f) = ToSet(shown) \cap PartsIn(v, f)
      <4>1. \A i \in DOMAIN shown : shown[i] \in KnownIn(v)
        BY <3>4, LenProperties, ElementOfSeq
      <4>2. ToSet(shown) \subseteq KnownIn(v)
        BY <4>1 DEF ToSet
      <4>3. KnownIn(v) \cap PartsIn(w, f) = PartsIn(v, f) /\ PartsIn(v, f) \subseteq PartsIn(w, f)
        BY <1>5
      <4> QED BY <4>2, <4>3
    <3> QED BY <3>2, <3>4, <3>5, AmongAgrees
  <2>3. CASE f # e
    <3>1. Sent(f)' = Sent(f)
      BY <1>3, <1>5, <2>1, <2>3, Here
    <3> QED BY <1>9, <2>1, <2>2, <2>3, <3>1, FlowStays, Here
  <2>4. CASE f = e
    <3>1. PICK s : s = Sent(e)
      OBVIOUS
    <3>2. PICK p : p = PartsOf(<<t>>)
      OBVIOUS
    <3>3. PICK r : r = Received(e)
      OBVIOUS
    <3>4. PICK h : h = Wire(e)
      OBVIOUS
    <3>5. PICK q : q = PartsOf(c)
      OBVIOUS
    <3>6. /\ s \in Seq(Part) /\ r \in Seq(Part) /\ h \in Seq(Part) /\ q \in Seq(Part)
          /\ p \in Seq(Part) /\ Leaves(s, r, h) /\ (e[2] \in abierto => Goes(s, r, h, q))
      BY <1>6, <1>11, <3>1, <3>2, <3>3, <3>4, <3>5, Here DEF Flow
    <3>7. Leaves(s \o p, r, h) /\ (e[2] \in abierto => Goes(s \o p, r, h, q \o p))
      BY <3>6, MoreIsSent
    <3>8. /\ Sent(e)' = s \o p /\ Received(e)' = r /\ Wire(e)' = h
          /\ PartsOf(cola[e])' = q \o p
      <4>1. SentIn(w, e) = s \o p
        BY <1>3, <1>5, <3>1, <3>2, Here
      <4> QED BY <1>9, <1>11, <2>1, <2>2, <2>4, <3>2, <3>3, <3>4, <3>5, <4>1
    <3> QED BY <2>4, <3>7, <3>8 DEF Flow
  <2> QED BY <2>3, <2>4
<1> QED BY <1>12, <1>13

\* The queue of a writer may be lost, with its connection.
LEMMA QueueIsLost ==
    ASSUME IInv, NEW e \in End, NEW d \in Seq(TextsIn(via, e)),
           d = cola[e] \/ e[2] \notin abierto,
           cola' = [cola EXCEPT ![e] = d],
           UNCHANGED <<opened, abierto, hilo, entrantes, leidas, via>>
    PROVE  Data' /\ \A f \in End : Flow(f)'
<1>1. ChangedAt(End, cola, e, d, [cola EXCEPT ![e] = d])
  <2>1. IsOver(cola, End)
    BY Here
  <2> QED BY <2>1, Changed, Zenon
<1>2. IsOver(cola', End) /\ cola'[e] = d /\ \A f \in End : f # e => cola'[f] = cola[f]
  BY <1>1, Zenon DEF ChangedAt
<1>3. Data
  BY DEF IInv
<1>4. ASSUME NEW f \in End PROVE cola'[f] \in Seq(TextsIn(via, f))
  BY <1>2, Here
<1>5. Data'
  BY <1>2, <1>3, <1>4 DEF Data
<1>6. ASSUME NEW f \in End PROVE Flow(f)'
  <2>1. Sent(f)' = Sent(f) /\ Received(f)' = Received(f) /\ Wire(f)' = Wire(f)
    BY DEF Sent, TextsOf, Received, PartsVia, Shows, Display, Wire
  <2>2. cola'[f] = cola[f] \/ f[2] \notin abierto
    BY <1>2
  <2> QED BY <2>1, <2>2, FlowStays, Here
<1> QED BY <1>5, <1>6

LEMMA AmongOneMore ==
    ASSUME NEW K, NEW S
    PROVE  \A s \in Seq(K) : \A x \in K :
             /\ x \in S => Among(Append(s, x), S) = Append(Among(s, S), x)
             /\ x \notin S => Among(Append(s, x), S) = Among(s, S)
BY AmongOfAppend

LEMMA Appended ==
    /\ \A a, b : Append(<<a>>, b) = <<a, b>>
    /\ \A a, b, l : Append(<<a, b>>, l) = <<a, b, l>>
<1>1. ASSUME NEW a, NEW b PROVE Append(<<a>>, b) = <<a, b>>
  <2>1. PICK S : S = {a, b}
    OBVIOUS
  <2>2. PICK s : s = <<a>>
    OBVIOUS
  <2>3. PICK u : u = <<a, b>>
    OBVIOUS
  <2>4. s \in Seq(S) /\ Len(s) = 1 /\ s[1] = a /\ b \in S
    BY <2>1, <2>2
  <2>5. u \in Seq(S) /\ Len(u) = 2 /\ u[1] = a /\ u[2] = b
    BY <2>1, <2>3
  <2>6. PICK v : v = Append(s, b)
    OBVIOUS
  <2>7. v \in Seq(S) /\ Len(v) = 2 /\ v[1] = a /\ v[2] = b
    <3>1. s \in Seq(S) /\ b \in S
      BY <2>4
    <3>2. /\ v \in Seq(S) /\ Len(v) = Len(s) + 1 /\ v[Len(s) + 1] = b
          /\ \A i \in 1 .. Len(s) : v[i] = s[i]
      BY <2>6, <3>1, AppendProperties
    <3> QED BY <2>4, <3>2
  <2>8. v = u
    BY <2>5, <2>7, SeqEqual
  <2> QED BY <2>2, <2>3, <2>6, <2>8
<1>2. ASSUME NEW a, NEW b, NEW l PROVE Append(<<a, b>>, l) = <<a, b, l>>
  <2>1. PICK S : S = {a, b, l}
    OBVIOUS
  <2>2. PICK s : s = <<a, b>>
    OBVIOUS
  <2>3. PICK u : u = <<a, b, l>>
    OBVIOUS
  <2>4. s \in Seq(S) /\ Len(s) = 2 /\ s[1] = a /\ s[2] = b /\ l \in S
    BY <2>1, <2>2
  <2>5. u \in Seq(S) /\ Len(u) = 3 /\ u[1] = a /\ u[2] = b /\ u[3] = l
    BY <2>1, <2>3
  <2>6. PICK v : v = Append(s, l)
    OBVIOUS
  <2>7. v \in Seq(S) /\ Len(v) = 3 /\ v[1] = a /\ v[2] = b /\ v[3] = l
    <3>1. s \in Seq(S) /\ l \in S
      BY <2>4
    <3>2. /\ v \in Seq(S) /\ Len(v) = Len(s) + 1 /\ v[Len(s) + 1] = l
          /\ \A i \in 1 .. Len(s) : v[i] = s[i]
      BY <2>6, <3>1, AppendProperties
    <3> QED BY <2>4, <3>2
  <2>8. v = u
    BY <2>5, <2>7, SeqEqual
  <2> QED BY <2>2, <2>3, <2>6, <2>8
<1> QED BY <1>1, <1>2

LEMMA BytesAre ==
    ASSUME NEW v, ViaGood(v), NEW e \in End, NEW t \in TextsIn(v, e)
    PROVE  Bytes(t) \in Seq(PartsIn(v, e) \cup {LineFeed}) /\ Among(Bytes(t), Part) = PartsOf(<<t>>)
<1>1. PICK Q : Q = PartsIn(v, e) \cup {LineFeed}
  OBVIOUS
<1>2. PICK a : a = <<t, 1>>
  OBVIOUS
<1>3. PICK b : b = <<t, 2>>
  OBVIOUS
<1>4. PICK l : l = LineFeed
  OBVIOUS
<1>5. a \in PartsIn(v, e) /\ b \in PartsIn(v, e) /\ PartsIn(v, e) \subseteq Part
  BY <1>2, <1>3, PartsInAre
<1>6. a \in Q /\ b \in Q /\ l \in Q /\ a \in Part /\ b \in Part /\ l \notin Part
  BY <1>1, <1>4, <1>5, LineFeedIsNoPart
<1>7. PICK one : one = Append(<<>>, a)
  OBVIOUS
<1>8. one \in Seq(Q) /\ one = <<a>> /\ Among(one, Part) = one
  <2>1. <<>> \in Seq(Q)
    BY EmptySeq
  <2>2. Among(one, Part) = Append(Among(<<>>, Part), a)
    <3>1. \A S : \A x \in Q : x \in S => Among(Append(<<>>, x), S) = Append(Among(<<>>, S), x)
      BY <2>1, AmongOneMore, ZenonT(60)
    <3> QED BY <1>6, <1>7, <3>1
  <2>3. one \in Seq(Q)
    BY <1>6, <1>7, <2>1, AppendProperties
  <2>4. one = <<a>>
    BY <1>7
  <2> QED BY <1>7, <2>2, <2>3, <2>4, AmongOfNone
<1>9. PICK two : two = Append(one, b)
  OBVIOUS
<1>10. two \in Seq(Q) /\ two = <<a, b>> /\ Among(two, Part) = two
  <2>1. Among(two, Part) = Append(one, b)
    <3>1. \A S : \A x \in Q : x \in S => Among(Append(one, x), S) = Append(Among(one, S), x)
      <4>1. one \in Seq(Q)
        BY <1>8
      <4> QED BY <4>1, AmongOneMore
    <3> QED BY <1>6, <1>8, <1>9, <3>1
  <2>2. two \in Seq(Q)
    BY <1>6, <1>8, <1>9, AppendProperties
  <2>3. two = <<a, b>>
    <3>1. Append(<<a>>, b) = <<a, b>>
      BY Appended
    <3> QED BY <1>8, <1>9, <3>1, Zenon
  <2> QED BY <1>9, <2>1, <2>2, <2>3
<1>11. PICK all : all = Append(two, l)
  OBVIOUS
<1>12. all \in Seq(Q) /\ all = <<a, b, l>> /\ Among(all, Part) = two
  <2>1. Among(all, Part) = two
    <3>1. \A S : \A x \in Q : x \notin S => Among(Append(two, x), S) = Among(two, S)
      <4>1. two \in Seq(Q)
        BY <1>10
      <4> QED BY <4>1, AmongOneMore
    <3> QED BY <1>6, <1>10, <1>11, <3>1
  <2>2. all \in Seq(Q)
    BY <1>6, <1>10, <1>11, AppendProperties
  <2>3. all = <<a, b, l>>
    <3>1. Append(<<a, b>>, l) = <<a, b, l>>
      BY Appended
    <3> QED BY <1>10, <1>11, <3>1, Zenon
  <2> QED BY <2>1, <2>2, <2>3
<1>13. Bytes(t) = all
  BY <1>2, <1>3, <1>4, <1>12 DEF Bytes
<1>14. PartsOf(<<t>>) = two
  BY <1>2, <1>3, <1>10, PartsOfOne
<1> QED BY <1>1, <1>12, <1>13, <1>14

LEMMA HeadAndTail ==
    ASSUME NEW S, NEW c \in Seq(S), c # <<>>
    PROVE  c[1] \in S /\ Tail(c) \in Seq(S) /\ c = <<c[1]>> \o Tail(c)
<1>1. /\ Tail(c) \in Seq(S) /\ Len(Tail(c)) = Len(c) - 1 /\ Len(c) \in Nat \ {0}
      /\ \A i \in 1 .. Len(c) - 1 : i + 1 \in 1 .. Len(c) /\ Tail(c)[i] = c[i + 1]
  BY TailKeeps
<1>2. PICK d : d = Tail(c)
  OBVIOUS
<1>3. PICK l \in Nat : l = Len(c)
  BY <1>1
<1>4. PICK one : one = <<c[1]>>
  OBVIOUS
<1>5. c[1] \in S
  BY <1>1, ElementOfSeq
<1>6. one \in Seq(S) /\ Len(one) = 1 /\ one[1] = c[1]
  BY <1>4, <1>5
<1>7. PICK u : u = one \o d
  OBVIOUS
<1>8. d \in Seq(S) /\ Len(d) = l - 1 /\ l >= 1 /\ \A i \in 1 .. l - 1 : d[i] = c[i + 1]
  BY <1>1, <1>2, <1>3
<1>9. /\ u \in Seq(S) /\ Len(u) = l
      /\ \A i \in 1 .. l : u[i] = IF i <= 1 THEN one[i] ELSE d[i - 1]
  <2>1. /\ u \in Seq(S) /\ Len(u) = Len(one) + Len(d)
        /\ \A i \in 1 .. Len(one) + Len(d) :
             u[i] = IF i <= Len(one) THEN one[i] ELSE d[i - Len(one)]
    BY <1>6, <1>7, <1>8, ConcatProperties, ZenonT(60)
  <2> QED BY <1>6, <1>8, <2>1
<1>10. ASSUME NEW i \in 1 .. l PROVE c[i] = u[i]
  <2>1. CASE i = 1
    BY <1>6, <1>9, <2>1
  <2>2. CASE i # 1
    <3>1. i - 1 \in 1 .. l - 1 /\ ~(i <= 1) /\ (i - 1) + 1 = i
      BY <2>2
    <3> QED BY <1>8, <1>9, <3>1
  <2> QED BY <2>1, <2>2
<1>11. c = u
  <2>1. Len(c) = Len(u) /\ \A i \in 1 .. Len(c) : c[i] = u[i]
    BY <1>3, <1>9, <1>10
  <2> QED BY <1>9, <2>1, SeqEqual
<1> QED BY <1>1, <1>2, <1>4, <1>5, <1>7, <1>11

\* cablear, the writer: the first text of the queue is written.
LEMMA TextIsWritten ==
    ASSUME IInv, NEW e \in End, e[2] \in abierto, cola[e] # <<>>,
           hilo' = [hilo EXCEPT ![e] = hilo[e] \o Bytes(cola[e][1])],
           cola' = [cola EXCEPT ![e] = Tail(cola[e])],
           UNCHANGED <<opened, abierto, entrantes, leidas, via>>
    PROVE  Data' /\ \A f \in End : Flow(f)'
<1>1. PICK c : c = cola[e]
  OBVIOUS
<1>2. PICK d : d = Tail(c)
  OBVIOUS
<1>3. PICK t : t = c[1]
  OBVIOUS
<1>4. PICK g : g = hilo[e]
  OBVIOUS
<1>5. PICK h : h = g \o Bytes(t)
  OBVIOUS
<1>6. PICK S : S = TextsIn(via, e)
  OBVIOUS
<1>7. PICK Q : Q = PartsIn(via, e) \cup {LineFeed}
  OBVIOUS
<1>8. c \in Seq(S) /\ g \in Seq(Q) /\ S \in SUBSET (1 .. MaxTexts) /\ ViaGood(via)
  BY <1>1, <1>4, <1>6, <1>7, Here, PartsInAre
<1>9. t \in S /\ d \in Seq(S) /\ c = <<t>> \o d
  <2>1. c # <<>>
    BY <1>1
  <2> QED BY <1>2, <1>3, <1>8, <2>1, HeadAndTail
<1>10. PICK p : p = PartsOf(<<t>>)
  OBVIOUS
<1>11. Bytes(t) \in Seq(Q) /\ Among(Bytes(t), Part) = p
  BY <1>6, <1>7, <1>8, <1>9, <1>10, BytesAre
<1>12. h \in Seq(Q) /\ Among(h, Part) = Among(g, Part) \o p
  <2>1. PICK bytes : bytes = Bytes(t)
    OBVIOUS
  <2>2. bytes \in Seq(Q) /\ h = g \o bytes /\ Among(bytes, Part) = p
    BY <1>5, <1>11, <2>1
  <2>3. \A D : Among(g \o bytes, D) = Among(g, D) \o Among(bytes, D)
    <3>1. \A D, b : b \in Seq(Q) => Among(g \o b, D) = Among(g, D) \o Among(b, D)
      BY <1>8, AmongOfConcat
    <3> QED BY <2>2, <3>1, Zenon
  <2>4. g \o bytes \in Seq(Q)
    BY <1>8, <2>2, ConcatProperties
  <2> QED BY <2>2, <2>3, <2>4
<1>13. PartsOf(c) = p \o PartsOf(d) /\ p \in Seq(Part) /\ PartsOf(d) \in Seq(Part)
  <2>1. PICK one : one = <<t>>
    OBVIOUS
  <2>2. one \in Seq(S)
    BY <1>9, <2>1
  <2>3. PartsOf(one \o d) = PartsOf(one) \o PartsOf(d)
    BY <1>8, <1>9, <2>2, PartsOfConcat
  <2>4. /\ PartsOf(one) \in Seq(S \X (1 .. 2)) /\ PartsOf(d) \in Seq(S \X (1 .. 2))
        /\ S \X (1 .. 2) \subseteq Part
    BY <1>8, <1>9, <2>2, PartsAre
  <2>5. Seq(S \X (1 .. 2)) \subseteq Seq(Part)
    BY <2>4, Wider
  <2> QED BY <1>9, <1>10, <2>1, <2>3, <2>4, <2>5
<1>14. IsOver(cola', End) /\ cola'[e] = d /\ \A f \in End : f # e => cola'[f] = cola[f]
  <2>1. IsOver(cola, End) /\ cola' = [cola EXCEPT ![e] = d]
    BY <1>1, <1>2, Here
  <2>2. ChangedAt(End, cola, e, d, [cola EXCEPT ![e] = d])
    BY <2>1, Changed, Zenon
  <2> QED BY <2>1, <2>2, Zenon DEF ChangedAt
<1>15. IsOver(hilo', End) /\ hilo'[e] = h /\ \A f \in End : f # e => hilo'[f] = hilo[f]
  <2>1. IsOver(hilo, End) /\ hilo' = [hilo EXCEPT ![e] = h]
    BY <1>1, <1>3, <1>4, <1>5, Here
  <2>2. ChangedAt(End, hilo, e, h, [hilo EXCEPT ![e] = h])
    BY <2>1, Changed, Zenon
  <2> QED BY <2>1, <2>2, Zenon DEF ChangedAt
<1>16. Data'
  <2>1. Data
    BY DEF IInv
  <2>2. ASSUME NEW f \in End
        PROVE  /\ cola'[f] \in Seq(TextsIn(via, f))
               /\ hilo'[f] \in Seq(PartsIn(via, f) \cup {LineFeed})
    BY <1>6, <1>7, <1>9, <1>12, <1>14, <1>15, Here
  <2> QED BY <1>14, <1>15, <2>1, <2>2 DEF Data
<1>17. ASSUME NEW f \in End PROVE Flow(f)'
  <2>1. Sent(f)' = Sent(f) /\ Received(f)' = Received(f)
    BY DEF Sent, TextsOf, Received, PartsVia, Shows, Display
  <2>2. CASE f # e
    <3>1. Wire(f)' = Wire(f)
      BY <1>15, <2>2 DEF Wire
    <3> QED BY <1>14, <2>1, <2>2, <3>1, FlowStays, Here
  <2>3. CASE f = e
    <3>1. PICK s : s = Sent(e)
      OBVIOUS
    <3>2. PICK r : r = Received(e)
      OBVIOUS
    <3>3. PICK w : w = Wire(e)
      OBVIOUS
    <3>4. PICK q : q = PartsOf(d)
      OBVIOUS
    <3>5. /\ r \in Seq(Part) /\ w \in Seq(Part) /\ q \in Seq(Part) /\ p \in Seq(Part)
          /\ Goes(s, r, w, p \o q)
      BY <1>1, <1>13, <3>1, <3>2, <3>3, <3>4, Here DEF Flow
    <3>6. Goes(s, r, w \o p, q)
      BY <3>5, SomeIsWritten
    <3>7. Wire(e)' = w \o p /\ PartsOf(cola[e])' = q
      BY <1>4, <1>12, <1>14, <1>15, <3>3, <3>4 DEF Wire
    <3>8. Leaves(s, r, w \o p)
      BY <3>5, <3>6 DEF Leaves
    <3> QED BY <2>1, <2>3, <3>1, <3>2, <3>6, <3>7, <3>8 DEF Flow
  <2> QED BY <2>2, <2>3
<1> QED BY <1>16, <1>17

LEMMA TwoPieces ==
    ASSUME NEW Q, NEW g \in Seq(Q), NEW size \in 1 .. Len(g)
    PROVE  /\ SubSeq(g, 1, size) \in Seq(Q) /\ SubSeq(g, size + 1, Len(g)) \in Seq(Q)
           /\ g = SubSeq(g, 1, size) \o SubSeq(g, size + 1, Len(g))
<1>1. Len(g) \in Nat /\ \A i \in 1 .. Len(g) : g[i] \in Q
  BY LenProperties, ElementOfSeq
<1>2. SubSeq(g, 1, size) \in Seq(Q)
  <2>1. 1 \in Int /\ size \in Int /\ \A i \in 1 .. size : g[i] \in Q
    BY <1>1
  <2> QED BY <2>1, SubSeqProperties
<1>3. SubSeq(g, size + 1, Len(g)) \in Seq(Q)
  <2>1. size + 1 \in Int /\ Len(g) \in Int /\ \A i \in size + 1 .. Len(g) : g[i] \in Q
    BY <1>1
  <2> QED BY <2>1, SubSeqProperties
<1>4. SubSeq(g, 1, size) \o SubSeq(g, size + 1, Len(g)) = SubSeq(g, 1, Len(g))
  <2>1. 1 \in 1 .. Len(g) + 1 /\ size \in 1 - 1 .. Len(g) /\ Len(g) \in size .. Len(g)
    BY <1>1
  <2> QED BY <2>1, ConcatAdjacentSubSeq
<1>5. SubSeq(g, 1, Len(g)) = g
  BY SubSeqFull
<1> QED BY <1>2, <1>3, <1>4, <1>5

\* cablear, the reader: a piece of any size is decoded, and shown after what was shown.
LEMMA PieceIsShown ==
    ASSUME IInv, NEW f \in End, NEW n \in Node, NEW size \in 1 .. Len(hilo[f]),
           entrantes' = [entrantes EXCEPT ![n] =
                           entrantes[n] \o Lineas(SubSeq(hilo[f], 1, size))],
           UNCHANGED leidas,
           NEW pre, pre = SubSeq(hilo[f], 1, size)
    PROVE  /\ IsOver(entrantes', Node) /\ \A m \in Node : entrantes'[m] \in Seq(Seq(Signs))
           /\ pre \in Seq(PartsIn(via, f) \cup {LineFeed})
           /\ Display(n)' = Display(n) \o Among(Decoded(pre), SignsOf(PartsIn(via, f)))
           /\ \A m \in Node : m # n => Display(m)' = Display(m)
<1>1. PICK P : P = PartsIn(via, f)
  OBVIOUS
<1>2. PICK g : g = hilo[f]
  OBVIOUS
<1>3. /\ g \in Seq(P \cup {LineFeed}) /\ ViaGood(via) /\ P \subseteq Part /\ P \subseteq Known
      /\ Known \subseteq Part
  BY <1>1, <1>2, Here, PartsInAre DEF Known
<1>4. pre \in Seq(P \cup {LineFeed})
  <2>1. size \in 1 .. Len(g) /\ pre = SubSeq(g, 1, size)
    BY <1>2
  <2>2. PICK Q : Q = P \cup {LineFeed}
    OBVIOUS
  <2>3. g \in Seq(Q)
    BY <1>3, <2>2
  <2>4. SubSeq(g, 1, size) \in Seq(Q)
    BY ONLY <2>1, <2>3, TwoPieces, SMT
  <2> QED BY <2>1, <2>2, <2>4
<1>5. PICK lines : lines = Lineas(pre)
  OBVIOUS
<1>6. lines \in Seq(Seq(SignsOf(P))) /\ FlattenSeq(lines) = Among(Decoded(pre), SignsOf(P))
  BY <1>3, <1>4, <1>5, LinesAre
<1>7. PICK old : old = entrantes[n]
  OBVIOUS
<1>8. PICK new : new = old \o lines
  OBVIOUS
<1>9. PICK read : read = leidas[n]
  OBVIOUS
<1>10. PICK K : K = Seq(Signs)
  OBVIOUS
<1>11. old \in Seq(K) /\ lines \in Seq(K) /\ read \in Seq(K) /\ new \in Seq(K)
  <2>1. old \in Seq(K) /\ read \in Seq(K)
    BY <1>7, <1>9, <1>10, Here
  <2>2. SignsOf(P) \subseteq Signs
    BY <1>3, SignsAre DEF Signs, SignsIn, Known
  <2>3. Seq(Seq(SignsOf(P))) \subseteq Seq(K)
    BY <1>10, <2>2, Wider
  <2>4. lines \in Seq(K)
    BY <1>6, <2>3
  <2> QED BY <1>8, <2>1, <2>4, ConcatProperties
<1>12. IsOver(entrantes', Node) /\ entrantes'[n] = new
       /\ \A m \in Node : m # n => entrantes'[m] = entrantes[m]
  <2>1. IsOver(entrantes, Node) /\ entrantes' = [entrantes EXCEPT ![n] = new]
    BY <1>5, <1>7, <1>8, Here
  <2>2. ChangedAt(Node, entrantes, n, new, [entrantes EXCEPT ![n] = new])
    BY <2>1, Changed, Zenon
  <2> QED BY <2>1, <2>2, Zenon DEF ChangedAt
<1>13. \A m \in Node : entrantes'[m] \in Seq(Seq(Signs))
  BY <1>10, <1>11, <1>12, Here
<1>14. Display(n)' = Display(n) \o Among(Decoded(pre), SignsOf(P))
  <2>1. Display(n)' = FlattenSeq(read \o new) /\ Display(n) = FlattenSeq(read \o old)
    BY <1>7, <1>9, <1>12 DEF Display
  <2>2. read \o new = (read \o old) \o lines
    <3>1. \A x1, x2, x3 \in Seq(K) : (x1 \o x2) \o x3 = x1 \o (x2 \o x3)
      BY ConcatAssociative, SMTT(60)
    <3> QED BY <1>8, <1>11, <3>1, Zenon
  <2>3. PICK all : all = read \o old
    OBVIOUS
  <2>4. all \in Seq(K)
    BY <1>11, <2>3, ConcatProperties
  <2>5. FlattenSeq(all \o lines) = FlattenSeq(all) \o FlattenSeq(lines)
    BY <1>10, <1>11, <2>4, FlatOfConcat
  <2> QED BY <1>6, <2>1, <2>2, <2>3, <2>5
<1>15. \A m \in Node : m # n => Display(m)' = Display(m)
  BY <1>12 DEF Display
<1> QED BY <1>1, <1>4, <1>12, <1>13, <1>14, <1>15

\* ... and that is the part of the wire that was read.
LEMMA PieceIsRead ==
    ASSUME IInv, NEW f \in End, NEW n \in Node, n = Peer(f[1]), NEW size \in 1 .. Len(hilo[f]),
           entrantes' = [entrantes EXCEPT ![n] =
                           entrantes[n] \o Lineas(SubSeq(hilo[f], 1, size))],
           hilo' = [hilo EXCEPT ![f] = SubSeq(hilo[f], size + 1, Len(hilo[f]))],
           UNCHANGED <<opened, abierto, cola, leidas, via>>
    PROVE  Data' /\ \A g \in End : Flow(g)'
<1>1. PICK P : P = PartsIn(via, f)
  OBVIOUS
<1>2. PICK Q : Q = P \cup {LineFeed}
  OBVIOUS
<1>3. PICK g : g = hilo[f]
  OBVIOUS
<1>4. PICK pre : pre = SubSeq(g, 1, size)
  OBVIOUS
<1>5. PICK post : post = SubSeq(g, size + 1, Len(g))
  OBVIOUS
<1>6. g \in Seq(Q) /\ ViaGood(via) /\ P \subseteq Part /\ P \subseteq Known /\ LineFeed \notin P
  BY <1>1, <1>2, <1>3, Here, PartsInAre, LineFeedIsNoPart DEF Known
<1>7. pre \in Seq(Q) /\ post \in Seq(Q) /\ g = pre \o post
  <2>1. size \in 1 .. Len(g)
    BY <1>3
  <2> QED BY <1>4, <1>5, <1>6, <2>1, TwoPieces
<1>8. PICK x : x = Among(pre, P)
  OBVIOUS
<1>9. PICK signs : signs = Among(Decoded(pre), SignsOf(P))
  OBVIOUS
<1>10. signs \in Seq(SignsOf(P)) /\ Places(signs) = x
  <2>1. PICK d : d = Decoded(pre)
    OBVIOUS
  <2>2. d \in Seq(SignsOf(P) \cup {LineFeed}) /\ Places(d) = pre
    BY <1>2, <1>6, <1>7, <2>1, DecodedIs
  <2>3. Places(signs) = x
    BY <1>6, <1>8, <1>9, <2>1, <2>2, PlacesOfAmong
  <2>4. Lineas(pre) \in Seq(Seq(SignsOf(P))) /\ FlattenSeq(Lineas(pre)) = signs
    BY <1>2, <1>6, <1>7, <1>9, LinesAre
  <2> QED BY <2>3, <2>4, FlatOfAppend
<1>11. x \in Seq(P) /\ x \in Seq(Part)
  <2>1. \A z \in SignsOf(P) : Place(z) \in P
    BY <1>6, SignsAre
  <2>2. x \in Seq(P)
    BY <1>10, <2>1, PlacesAre
  <2> QED BY <1>6, <2>2, Wider
<1>12. Among(pre, Part) = x /\ Among(g, Part) = x \o Among(post, Part)
       /\ Among(post, Part) \in Seq(Part)
  <2>1. Among(pre, Part) = x
    <3>1. <<>> \in Seq(TextsIn(via, f))
      BY EmptySeq
    <3> QED BY <1>1, <1>2, <1>6, <1>7, <1>8, <3>1, StreamTypes
  <2>2. \A S : Among(pre \o post, S) = Among(pre, S) \o Among(post, S)
    BY <1>7, AmongOfConcat
  <2>3. Among(post, Part) \in Seq(Part)
    <3>1. <<>> \in Seq(TextsIn(via, f))
      BY EmptySeq
    <3> QED BY <1>1, <1>2, <1>6, <1>7, <3>1, StreamTypes
  <2> QED BY <1>7, <2>1, <2>2, <2>3
<1>17. /\ IsOver(entrantes', Node) /\ \A m \in Node : entrantes'[m] \in Seq(Seq(Signs))
       /\ Display(n)' = Display(n) \o signs
       /\ \A m \in Node : m # n => Display(m)' = Display(m)
  BY <1>1, <1>3, <1>4, <1>9, PieceIsShown
<1>18. IsOver(hilo', End) /\ hilo'[f] = post /\ \A h \in End : h # f => hilo'[h] = hilo[h]
  <2>1. IsOver(hilo, End) /\ hilo' = [hilo EXCEPT ![f] = post]
    BY <1>3, <1>5, Here
  <2>2. ChangedAt(End, hilo, f, post, [hilo EXCEPT ![f] = post])
    BY <2>1, Changed, Zenon
  <2> QED BY <2>1, <2>2, Zenon DEF ChangedAt
<1>19. Data'
  <2>1. Data
    BY DEF IInv
  <2>2. ASSUME NEW h \in End PROVE hilo'[h] \in Seq(PartsIn(via, h) \cup {LineFeed})
    BY <1>1, <1>2, <1>7, <1>18, Here
  <2>3. ASSUME NEW m \in Node PROVE entrantes'[m] \in Seq(Seq(SignsIn(via)))
    BY <1>17 DEF Signs
  <2> QED BY <1>17, <1>18, <2>1, <2>2, <2>3 DEF Data
<1>20. PICK shown : shown = Shows(n)
  OBVIOUS
<1>21. Shows(n)' = shown \o x /\ shown \in Seq(Part)
       /\ \A m \in Node : m # n => Shows(m)' = Shows(m)
  <2>1. PICK display : display = Display(n)
    OBVIOUS
  <2>2. display \in Seq(Signs) /\ signs \in Seq(Signs)
    <3>1. SignsOf(P) \subseteq Signs
      BY <1>6, SignsAre DEF Signs, SignsIn, Known
    <3>2. Seq(SignsOf(P)) \subseteq Seq(Signs)
      BY <3>1, Wider
    <3> QED BY <1>10, <2>1, <3>2, Here
  <2>3. Places(display \o signs) = Places(display) \o Places(signs)
    BY <2>2, PlacesOfConcat
  <2>4. Shows(n)' = Places(display \o signs) /\ shown = Places(display)
    BY <1>17, <1>20, <2>1 DEF Shows
  <2>5. \A m \in Node : m # n => Shows(m)' = Shows(m)
    BY <1>17 DEF Shows
  <2>6. shown \in Seq(Part)
    BY <1>20, Here
  <2> QED BY <1>10, <2>3, <2>4, <2>5, <2>6
<1>22. ASSUME NEW h \in End PROVE Flow(h)'
  <2>1. Sent(h)' = Sent(h) /\ PartsOf(cola[h])' = PartsOf(cola[h])
    BY DEF Sent, TextsOf
  <2>2. Peer(h[1]) \in Node /\ h[1] \in Node /\ f[1] \in Node
    BY FarEnds, Peers
  <2>3. Received(h)' = Among(Shows(Peer(h[1]))', PartsIn(via, h))
    BY DEF Received, PartsVia, PartsIn
  <2>4. Received(h) = Among(Shows(Peer(h[1])), PartsIn(via, h))
    BY Here
  <2>5. \A S : Among(shown \o x, S) = Among(shown, S) \o Among(x, S)
    BY <1>11, <1>21, AmongOfConcat
  <2>6. CASE h # f
    <3>1. Wire(h)' = Wire(h)
      BY <1>18, <2>6 DEF Wire
    <3>2. Received(h)' = Received(h)
      <4>1. CASE Peer(h[1]) # n
        BY <1>21, <2>2, <2>3, <2>4, <4>1
      <4>2. CASE Peer(h[1]) = n
        <5>1. Received(h)' = Among(shown, PartsIn(via, h)) \o Among(x, PartsIn(via, h))
          BY <1>21, <2>3, <2>5, <4>2
        <5>2. P \cap PartsIn(via, h) = {}
          BY <1>1, <1>6, <2>6, PartsInAre
        <5>3. Among(x, PartsIn(via, h)) = <<>>
          BY <1>11, <5>2, AmongOthers
        <5>4. Received(h) \in Seq(Part) /\ Received(h) = Among(shown, PartsIn(via, h))
          BY <1>20, <2>4, <4>2, Here
        <5>5. Received(h) \o <<>> = Received(h)
          BY <5>4, ConcatEmptySeq
        <5> QED BY <5>1, <5>3, <5>4, <5>5
      <4> QED BY <4>1, <4>2
    <3> QED BY <2>1, <3>1, <3>2, FlowStays, Here
  <2>7. CASE h = f
    <3>1. PICK s : s = Sent(f)
      OBVIOUS
    <3>2. PICK r : r = Received(f)
      OBVIOUS
    <3>3. PICK w : w = Among(post, Part)
      OBVIOUS
    <3>4. PICK q : q = PartsOf(cola[f])
      OBVIOUS
    <3>5. r \in Seq(Part) /\ w \in Seq(Part) /\ x \in Seq(Part)
      BY <1>11, <1>12, <3>2, <3>3, Here
    <3>6. Wire(f) = x \o w /\ Wire(f)' = w
      BY <1>3, <1>12, <1>18, <3>3 DEF Wire
    <3>7. Leaves(s, r, x \o w) /\ (f[2] \in abierto => Goes(s, r, x \o w, q))
      BY <3>1, <3>2, <3>4, <3>6, Here DEF Flow
    <3>8. Leaves(s, r \o x, w) /\ (f[2] \in abierto => Goes(s, r \o x, w, q))
      BY <3>5, <3>7, SomeIsRead
    <3>9. Received(f)' = r \o x
      <4>1. Received(f)' = Among(shown, P) \o Among(x, P)
        BY <1>1, <1>21, <2>3, <2>5, <2>7
      <4>2. Among(x, P) = x
        BY <1>11, AmongItsOwn
      <4> QED BY <1>1, <1>20, <2>4, <2>7, <3>2, <4>1, <4>2
    <3> QED BY <2>1, <2>7, <3>1, <3>4, <3>6, <3>8, <3>9 DEF Flow
  <2> QED BY <2>6, <2>7
<1> QED BY <1>19, <1>22

\* cablear, the reader: what is on the wire may be lost, with its connection.
LEMMA WireIsLost ==
    ASSUME IInv, NEW f \in End, f[2] \notin abierto \/ hilo[f] = <<>>,
           hilo' = [hilo EXCEPT ![f] = <<>>],
           UNCHANGED <<opened, abierto, cola, entrantes, leidas, via>>
    PROVE  Data' /\ \A g \in End : Flow(g)'
<1>1. IsOver(hilo', End) /\ hilo'[f] = <<>> /\ \A h \in End : h # f => hilo'[h] = hilo[h]
  <2>1. IsOver(hilo, End)
    BY Here
  <2>2. ChangedAt(End, hilo, f, <<>>, [hilo EXCEPT ![f] = <<>>])
    BY <2>1, Changed, Zenon
  <2> QED BY <2>1, <2>2, Zenon DEF ChangedAt
<1>2. Data'
  <2>1. Data
    BY DEF IInv
  <2>2. ASSUME NEW h \in End PROVE hilo'[h] \in Seq(PartsIn(via, h) \cup {LineFeed})
    <3>1. <<>> \in Seq(PartsIn(via, h) \cup {LineFeed})
      BY EmptySeq
    <3> QED BY <1>1, <3>1, Here
  <2> QED BY <1>1, <2>1, <2>2 DEF Data
<1>3. ASSUME NEW h \in End PROVE Flow(h)'
  <2>1. Sent(h)' = Sent(h) /\ Received(h)' = Received(h)
    BY DEF Sent, TextsOf, Received, PartsVia, Shows, Display
  <2>2. CASE hilo'[h] = hilo[h]
    <3>1. Wire(h)' = Wire(h)
      BY <2>2 DEF Wire
    <3> QED BY <2>1, <3>1, FlowStays, Here
  <2>3. CASE hilo'[h] # hilo[h]
    <3>1. h[2] \notin abierto /\ hilo'[h] = <<>>
      BY <1>1, <2>3
    <3>2. Wire(h)' = <<>>
      BY <3>1, AmongOfNone DEF Wire
    <3>3. Received(h) \in Seq(Part) /\ Wire(h) \in Seq(Part)
          /\ Leaves(Sent(h), Received(h), Wire(h))
      BY Here DEF Flow
    <3>4. Leaves(Sent(h), Received(h), <<>>)
      BY <3>3, SomeIsLost
    <3> QED BY <2>1, <3>1, <3>2, <3>4 DEF Flow
  <2> QED BY <2>2, <2>3
<1> QED BY <1>2, <1>3

\* chat_leer: the lines are handed over, and not kept.
LEMMA LinesAreRead ==
    ASSUME IInv, NEW n \in Node,
           leidas' = [leidas EXCEPT ![n] = leidas[n] \o entrantes[n]],
           entrantes' = [entrantes EXCEPT ![n] = <<>>],
           UNCHANGED <<opened, abierto, cola, hilo, via>>
    PROVE  Data' /\ (\A g \in End : Flow(g)') /\ \A m \in Node : Display(m)' = Display(m)
<1>1. PICK all : all = leidas[n] \o entrantes[n]
  OBVIOUS
<1>2. all \in Seq(Seq(Signs)) /\ all \o <<>> = all /\ <<>> \in Seq(Seq(Signs))
  <2>1. PICK K : K = Seq(Signs)
    OBVIOUS
  <2>2. leidas[n] \in Seq(K) /\ entrantes[n] \in Seq(K)
    BY <2>1, Here
  <2>3. all \in Seq(K)
    BY <1>1, <2>2, ConcatProperties
  <2> QED BY <2>1, <2>3, ConcatEmptySeq, EmptySeq
<1>3. IsOver(leidas', Node) /\ leidas'[n] = all
      /\ \A m \in Node : m # n => leidas'[m] = leidas[m]
  <2>1. IsOver(leidas, Node) /\ leidas' = [leidas EXCEPT ![n] = all]
    BY <1>1, Here
  <2>2. ChangedAt(Node, leidas, n, all, [leidas EXCEPT ![n] = all])
    BY <2>1, Changed, Zenon
  <2> QED BY <2>1, <2>2, Zenon DEF ChangedAt
<1>4. IsOver(entrantes', Node) /\ entrantes'[n] = <<>>
      /\ \A m \in Node : m # n => entrantes'[m] = entrantes[m]
  <2>1. IsOver(entrantes, Node)
    BY Here
  <2>2. ChangedAt(Node, entrantes, n, <<>>, [entrantes EXCEPT ![n] = <<>>])
    BY <2>1, Changed, Zenon
  <2> QED BY <2>1, <2>2, Zenon DEF ChangedAt
<1>5. Data'
  <2>1. Data
    BY DEF IInv
  <2>2. ASSUME NEW m \in Node
        PROVE  entrantes'[m] \in Seq(Seq(SignsIn(via))) /\ leidas'[m] \in Seq(Seq(SignsIn(via)))
    BY <1>2, <1>3, <1>4, Here DEF Signs
  <2> QED BY <1>3, <1>4, <2>1, <2>2 DEF Data
<1>6. ASSUME NEW m \in Node PROVE Display(m)' = Display(m)
  <2>1. CASE m = n
    BY <1>1, <1>2, <1>3, <1>4, <2>1 DEF Display
  <2>2. CASE m # n
    BY <1>3, <1>4, <2>2 DEF Display
  <2> QED BY <2>1, <2>2
<1>7. ASSUME NEW h \in End PROVE Flow(h)'
  <2>1. Sent(h)' = Sent(h) /\ Wire(h)' = Wire(h)
    BY DEF Sent, TextsOf, Wire
  <2>2. Peer(h[1]) \in Node
    BY FarEnds, Peers
  <2>3. Received(h)' = Received(h)
    BY <1>6, <2>2 DEF Received, PartsVia, Shows
  <2> QED BY <2>1, <2>3, FlowStays, Here
<1> QED BY <1>5, <1>6, <1>7

-----------------------------------------------------------------------------
(* The theorems.                                                           *)

LEMMA InitIsFine == Init => IInv
<1> SUFFICES ASSUME Init PROVE IInv
  OBVIOUS
<1>1. Wiring
  <2>1. <<>> \in Seq(Channel) /\ ToSet(<<>>) = {} /\ IsInjective(<<>>)
    BY EmptySeq DEF ToSet, IsInjective
  <2>2. salidas \in [Node -> Seq(Channel)] /\ \A n \in Node : salidas[n] = <<>>
    BY <2>1 DEF Init
  <2>3. \A e \in End : e[1] \in Node
    BY FarEnds
  <2>4. opened \in 0 .. MaxChannels /\ abierto \subseteq 1 .. opened
    BY ChatAssumption DEF Init
  <2>5. \A n \in Node : ToSet(salidas[n]) = {} /\ IsInjective(salidas[n])
    BY <2>1, <2>2
  <2>6. /\ vivo \in [Node -> BOOLEAN] /\ limpieza \subseteq End
        /\ escritor \in [End -> State] /\ lector \in [End -> State]
    BY DEF Init, State
  <2> QED BY <2>2, <2>3, <2>4, <2>5, <2>6 DEF Wiring
<1>2. Data
  <2>1. via = <<>> /\ Len(<<>>) = 0 /\ DOMAIN <<>> = {} /\ 0 <= MaxTexts
    BY ChatAssumption DEF Init
  <2>2. \A K : <<>> \in Seq(K)
    BY EmptySeq
  <2>3. ViaGood(via)
    BY <2>1, <2>2 DEF ViaGood
  <2>4. /\ IsOver(cola, End) /\ IsOver(hilo, End)
        /\ IsOver(entrantes, Node) /\ IsOver(leidas, Node)
    BY DEF Init, IsOver
  <2>5. /\ \A e \in End : cola[e] = <<>> /\ hilo[e] = <<>>
        /\ \A n \in Node : entrantes[n] = <<>> /\ leidas[n] = <<>>
    BY DEF Init
  <2> QED BY <2>1, <2>2, <2>3, <2>4, <2>5 DEF Data
<1>3. ASSUME NEW e \in End PROVE Flow(e)
  <2>1. via = <<>> /\ cola[e] = <<>> /\ hilo[e] = <<>> /\ ViaGood(via) /\ DOMAIN <<>> = {}
    BY <1>2 DEF Init, Data
  <2>2. Sent(e) = <<>>
    <3>1. TextsIn(via, e) = {}
      BY <2>1 DEF TextsIn
    <3>2. Sent(e) = SentIn(via, e)
      BY DEF Sent, TextsOf, SentIn, TextsIn
    <3> QED BY <2>1, <3>1, <3>2, NoTexts
  <2>3. Received(e) = <<>>
    <3>1. Peer(e[1]) \in Node
      BY FarEnds, Peers
    <3>2. leidas[Peer(e[1])] = <<>> /\ entrantes[Peer(e[1])] = <<>>
      BY <3>1 DEF Init
    <3>3. <<>> \o <<>> = <<>>
      BY EmptySeq, ConcatEmptySeq
    <3> QED BY <3>2, <3>3, FlatOfNone, PlacesOfNone, AmongOfNone DEF Received, Shows, Display
  <2>4. Wire(e) = <<>> /\ PartsOf(cola[e]) = <<>>
    BY <2>1, AmongOfNone, PartsOfNone DEF Wire
  <2>5. (<<>> \o <<>>) \o <<>> = <<>> /\ <<>> \in Seq(Part)
    BY EmptySeq, ConcatEmptySeq
  <2> QED BY <2>2, <2>3, <2>4, <2>5 DEF Flow, Goes, Leaves
<1>4. Clean
  <2> SUFFICES ASSUME NEW n \in Node PROVE OnlyCutsGarble(ToSet(Display(n)))
    BY DEF Clean
  <2>1. leidas[n] = <<>> /\ entrantes[n] = <<>>
    BY DEF Init
  <2>2. <<>> \o <<>> = <<>>
    BY EmptySeq, ConcatEmptySeq
  <2>3. Display(n) = <<>>
    BY <2>1, <2>2, FlatOfNone DEF Display
  <2>4. ToSet(<<>>) = {}
    BY DEF ToSet
  <2> QED BY <2>3, <2>4 DEF OnlyCutsGarble
<1> QED BY <1>1, <1>2, <1>3, <1>4 DEF IInv

LEMMA CleanOfBoth ==
    ASSUME NEW A, NEW B, OnlyCutsGarble(A), OnlyCutsGarble(B)
    PROVE  OnlyCutsGarble(A \cup B)
BY DEF OnlyCutsGarble

\* What is decoded of a piece: a half is garbled when the other half is not in it.
LEMMA DecodedIsClean ==
    ASSUME NEW P, P \subseteq Part, NEW s \in Seq(P \cup {LineFeed})
    PROVE  OnlyCutsGarble(ToSet(Among(Decoded(s), SignsOf(P))))
<1>1. PICK d : d = Decoded(s)
  OBVIOUS
<1>2. PICK shown : shown = ToSet(Among(d, SignsOf(P)))
  OBVIOUS
<1>3. /\ d \in Seq(SignsOf(P) \cup {LineFeed}) /\ DOMAIN d = DOMAIN s
      /\ \A i \in DOMAIN s : d[i] = IF CutOff(s[i], s) THEN Garbled(s[i]) ELSE s[i]
  BY <1>1, DecodedIs
<1>4. shown = ToSet(d) \cap SignsOf(P)
  BY <1>2, <1>3, AmongKeeps
<1>5. \A i \in DOMAIN s : s[i] \in P \cup {LineFeed}
  <2>1. DOMAIN s = 1 .. Len(s)
    BY LenProperties
  <2> QED BY <2>1, ElementOfSeq
<1>6. \A part \in Part : /\ part[1] \in 1 .. MaxTexts /\ part[2] \in 1 .. 2
                         /\ part = <<part[1], part[2]>> /\ Len(part) = 2
  BY DEF Part
<1>7. LineFeed[1] = 0 /\ LineFeed[2] = 0 /\ LineFeed = <<0, 0>>
  BY DEF LineFeed
<1>8. \A byte : /\ Len(Garbled(byte)) = 3 /\ Garbled(byte)[1] = byte[1]
               /\ Garbled(byte) \notin Part /\ Garbled(byte) # LineFeed
  <2> SUFFICES ASSUME NEW byte
               PROVE  /\ Len(Garbled(byte)) = 3 /\ Garbled(byte)[1] = byte[1]
                      /\ Garbled(byte) \notin Part /\ Garbled(byte) # LineFeed
    OBVIOUS
  <2>1. PICK g : g = Garbled(byte)
    OBVIOUS
  <2>2. Len(g) = 3 /\ g[1] = byte[1]
    BY <2>1 DEF Garbled
  <2>3. Len(LineFeed) = 2
    BY <1>7
  <2>4. g \notin Part /\ g # LineFeed
    <3>1. 2 # 3
      OBVIOUS
    <3>2. \A part \in Part : Len(part) = 2
      BY <1>6
    <3> QED BY <2>2, <2>3, <3>1, <3>2, Zenon
  <2> QED BY <2>1, <2>2, <2>4
<1>9. ASSUME NEW part \in Part, part \in shown, part[1] \in Wide
      PROVE  OtherHalf(part) \in shown
  <2>1. PICK i \in DOMAIN s : d[i] = part
    BY <1>3, <1>4, <1>9 DEF ToSet
  <2>2. ~CutOff(s[i], s) /\ s[i] = part
    BY <1>3, <1>8, <2>1
  <2>3. OtherHalf(part) \in ToSet(s)
    BY <1>9, <2>2 DEF CutOff
  <2>4. PICK j \in DOMAIN s : s[j] = OtherHalf(part)
    BY <2>3 DEF ToSet
  <2>5. OtherHalf(part) = <<part[1], 3 - part[2]>> /\ OtherHalf(part)[1] = part[1]
    BY DEF OtherHalf
  <2>6. OtherHalf(OtherHalf(part)) = part
    <3>1. OtherHalf(part)[2] = 3 - part[2] /\ 3 - (3 - part[2]) = part[2]
      BY <1>6, <2>5
    <3> QED BY <1>6, <2>5, <3>1 DEF OtherHalf
  <2>7. part \in ToSet(s)
    BY <2>2 DEF ToSet
  <2>8. ~CutOff(s[j], s)
    BY <2>4, <2>6, <2>7 DEF CutOff
  <2>9. d[j] = OtherHalf(part) /\ d[j] \in ToSet(d)
    BY <1>3, <2>4, <2>8 DEF ToSet
  <2>10. s[j] # LineFeed
    BY <1>6, <1>7, <2>4, <2>5
  <2>11. OtherHalf(part) \in P
    BY <1>5, <2>4, <2>10
  <2>12. OtherHalf(part) \in SignsOf(P)
    BY <2>11 DEF SignsOf
  <2> QED BY <1>4, <2>9, <2>12
<1>10. ASSUME NEW part \in Part, Garbled(part) \in shown PROVE part[1] \in Wide
  <2>1. PICK i \in DOMAIN s : d[i] = Garbled(part)
    BY <1>3, <1>4, <1>10 DEF ToSet
  <2>2. s[i] # Garbled(part)
    BY <1>5, <1>8
  <2>3. CutOff(s[i], s) /\ Garbled(s[i]) = Garbled(part)
    BY <1>3, <2>1, <2>2
  <2>4. s[i][1] = part[1]
    BY <1>8, <2>3
  <2> QED BY <2>3, <2>4 DEF CutOff
<1> QED BY <1>1, <1>2, <1>9, <1>10 DEF OnlyCutsGarble

LEMMA CleanIsKept ==
    ASSUME IInv, [Next]_vars
    PROVE  Clean'
<1>0. Clean
  BY DEF IInv
<1>1. ASSUME \A n \in Node : Display(n)' = Display(n) PROVE Clean'
  BY <1>0, <1>1 DEF Clean
<1>2. ASSUME UNCHANGED <<entrantes, leidas>> PROVE Clean'
  BY <1>1, <1>2 DEF Display
<1>3. ASSUME NEW e \in End, Lee(e) PROVE Clean'
  <2>1. PICK f : f = FarEnd(e)
    OBVIOUS
  <2>2. PICK n : n = e[1]
    OBVIOUS
  <2>3. f \in End /\ n \in Node
    BY <2>1, <2>2, FarEnds
  <2>4. PICK size \in 1 .. Len(hilo[f]) :
           entrantes' = [entrantes EXCEPT ![n] =
                           entrantes[n] \o Lineas(SubSeq(hilo[f], 1, size))]
    BY <1>3, <2>1, <2>2 DEF Lee
  <2>5. UNCHANGED leidas
    BY <1>3 DEF Lee
  <2>6. PICK pre : pre = SubSeq(hilo[f], 1, size)
    OBVIOUS
  <2>7. PICK P : P = PartsIn(via, f)
    OBVIOUS
  <2>8. PICK signs : signs = Among(Decoded(pre), SignsOf(P))
    OBVIOUS
  <2>9. /\ pre \in Seq(P \cup {LineFeed}) /\ Display(n)' = Display(n) \o signs
        /\ \A m \in Node : m # n => Display(m)' = Display(m)
    BY <2>3, <2>4, <2>5, <2>6, <2>7, <2>8, PieceIsShown
  <2>10. P \subseteq Part
    BY <2>3, <2>7, Here, PartsInAre
  <2>11. OnlyCutsGarble(ToSet(signs))
    BY <2>8, <2>9, <2>10, DecodedIsClean
  <2>12. ToSet(Display(n) \o signs) = ToSet(Display(n)) \cup ToSet(signs)
    <3>1. PICK display : display = Display(n)
      OBVIOUS
    <3>2. PICK K : K = Signs \cup SignsOf(P) \cup {LineFeed}
      OBVIOUS
    <3>3. display \in Seq(K)
      <4>1. display \in Seq(Signs) /\ Signs \subseteq K
        BY <2>3, <3>1, <3>2, Here
      <4> QED BY <4>1, Wider
    <3>4. signs \in Seq(K)
      <4>1. Decoded(pre) \in Seq(SignsOf(P) \cup {LineFeed})
        BY <2>9, <2>10, DecodedIs
      <4>2. signs \in Seq(SignsOf(P) \cup {LineFeed}) /\ SignsOf(P) \cup {LineFeed} \subseteq K
        BY <2>8, <3>2, <4>1, AmongKeeps
      <4> QED BY <4>2, Wider
    <3> QED BY <3>1, <3>3, <3>4, ConcatKeeps
  <2>13. OnlyCutsGarble(ToSet(Display(n)))
    BY <1>0, <2>3 DEF Clean
  <2>14. PICK shown : shown = ToSet(Display(n) \o signs)
    OBVIOUS
  <2>15. OnlyCutsGarble(shown)
    BY <2>11, <2>12, <2>13, <2>14, CleanOfBoth
  <2>16. ASSUME NEW m \in Node PROVE OnlyCutsGarble(ToSet(Display(m)))'
    <3>1. CASE m = n
      <4>1. ToSet(Display(m))' = shown
        BY <2>9, <2>14, <3>1
      <4> QED BY <2>15, <4>1 DEF OnlyCutsGarble
    <3>2. CASE m # n
      <4>1. ToSet(Display(m))' = ToSet(Display(m))
        BY <2>9, <3>2
      <4> QED BY <1>0, <4>1 DEF OnlyCutsGarble, Clean
    <3> QED BY <3>1, <3>2
  <2> QED BY <2>16 DEF Clean
<1>4. ASSUME NEW n \in Node, ChatLeer(n) PROVE Clean'
  <2>1. /\ leidas' = [leidas EXCEPT ![n] = leidas[n] \o entrantes[n]]
        /\ entrantes' = [entrantes EXCEPT ![n] = <<>>]
        /\ UNCHANGED <<opened, abierto, cola, hilo, via>>
    BY <1>4 DEF ChatLeer
  <2>2. \A m \in Node : Display(m)' = Display(m)
    BY <2>1, LinesAreRead
  <2> QED BY <1>1, <2>2
<1>5. CASE UNCHANGED vars
  BY <1>2, <1>5 DEF vars
<1>6. CASE \E n \in Node : StartServidor(n) \/ Stop(n) \/ ChatConectar(n) \/ ChatMandar(n)
  BY <1>2, <1>6 DEF StartServidor, Stop, ChatConectar, ChatMandar
<1>7. CASE \E c \in Channel : Pierde(c)
  BY <1>2, <1>7 DEF Pierde
<1>8. CASE \E e \in End : \/ Accept(e) \/ Limpia(e) \/ Escribe(e) \/ TerminaEscritor(e)
                         \/ TerminaLector(e)
  BY <1>2, <1>8 DEF Accept, Limpia, Escribe, TerminaEscritor, TerminaLector
<1> QED BY <1>3, <1>4, <1>5, <1>6, <1>7, <1>8, Zenon DEF Next

LEMMA StepsKeep ==
    ASSUME IInv, [Next]_vars
    PROVE  IInv'
<1>0. Wiring /\ opened \in Nat /\ \A c \in abierto : c \in 1 .. opened
  BY DEF IInv, Wiring
<1>w. Wiring'
  BY WiringIsKept
<1> DEFINE Streams == Data /\ \A f \in End : Flow(f)
<1>a. ASSUME UNCHANGED <<cola, hilo, entrantes, leidas, via>>, opened' = opened,
             abierto' \subseteq abierto
      PROVE  Streams'
  <2>1. PICK m \in Nat : m = opened
    BY <1>0
  <2>2. opened <= m /\ opened' = m
    BY <1>a, <2>1
  <2> QED BY <1>a, <2>2, SameData
<1>1. ASSUME UNCHANGED vars PROVE Streams'
  <2>1. UNCHANGED <<cola, hilo, entrantes, leidas, via>> /\ opened' = opened /\ abierto' = abierto
    BY <1>1 DEF vars
  <2> QED BY <2>1, <1>a
<1>2. ASSUME NEW n \in Node, StartServidor(n) PROVE Streams'
  BY <1>2, <1>a DEF StartServidor
<1>3. ASSUME NEW n \in Node, Stop(n) PROVE Streams'
  BY <1>3, <1>a DEF Stop
<1>4. ASSUME NEW n \in Node, ChatConectar(n) PROVE Streams'
  <2>1. PICK m \in Nat : m = opened + 1
    BY <1>0
  <2>2. opened' = m /\ opened <= m /\ abierto' = abierto \cup {m}
        /\ UNCHANGED <<cola, hilo, entrantes, leidas, via>>
    BY <1>0, <1>4, <2>1 DEF ChatConectar
  <2>3. \A c \in abierto' : c \in abierto \/ c \notin 1 .. opened
    BY <1>0, <2>1, <2>2
  <2> QED BY <2>2, <2>3, SameData
<1>5. ASSUME NEW e \in End, Accept(e) PROVE Streams'
  BY <1>5, <1>a DEF Accept
<1>6. ASSUME NEW c \in Channel, Pierde(c) PROVE Streams'
  BY <1>6, <1>a DEF Pierde
<1>7. ASSUME NEW e \in End, Limpia(e) PROVE Streams'
  BY <1>7, <1>a DEF Limpia
<1>8. ASSUME NEW n \in Node, ChatMandar(n) PROVE Streams'
  <2>1. PICK c : c = salidas[n][1]
    OBVIOUS
  <2>2. PICK s : s = salidas[n]
    OBVIOUS
  <2>3. s \in Seq(Channel) /\ s # <<>> /\ ToSet(s) \subseteq 1 .. opened
    BY <1>0, <1>8, <2>2 DEF Wiring, ChatMandar
  <2>4. Len(s) \in Nat \ {0} /\ DOMAIN s = 1 .. Len(s)
    BY <2>3, LenProperties, EmptySeq
  <2>5. c \in Channel /\ c \in 1 .. opened
    <3>1. 1 \in DOMAIN s /\ 1 \in 1 .. Len(s)
      BY <2>4
    <3>2. s[1] \in ToSet(s) /\ s[1] \in Channel
      BY <2>3, <3>1, ElementOfSeq DEF ToSet
    <3> QED BY <2>1, <2>2, <2>3, <3>2
  <2>6. PICK e : e = <<n, c>>
    OBVIOUS
  <2>7. e \in End /\ e[2] \in 1 .. opened
    BY <2>5, <2>6 DEF End
  <2>8. /\ Len(via) < MaxTexts /\ via' = Append(via, e)
        /\ cola' = [cola EXCEPT ![e] = Append(cola[e], Len(via) + 1)]
        /\ UNCHANGED <<opened, abierto, hilo, entrantes, leidas>>
    BY <1>8, <2>1, <2>6 DEF ChatMandar
  <2> QED BY <2>7, <2>8, TextIsSent
<1>9. ASSUME NEW e \in End, Escribe(e) PROVE Streams'
  <2>1. PICK S : S = TextsIn(via, e)
    OBVIOUS
  <2>2. cola[e] \in Seq(S) /\ cola[e] # <<>>
    BY <1>9, <2>1, Here DEF Escribe
  <2>3. Tail(cola[e]) \in Seq(S) /\ <<>> \in Seq(S)
    BY <2>2, TailKeeps, EmptySeq
  <2>4. UNCHANGED <<opened, abierto, entrantes, leidas, via>>
    BY <1>9 DEF Escribe
  <2>5. CASE /\ e[2] \in abierto
             /\ hilo' = [hilo EXCEPT ![e] = hilo[e] \o Bytes(cola[e][1])]
             /\ cola' = [cola EXCEPT ![e] = Tail(cola[e])]
    BY <2>2, <2>4, <2>5, TextIsWritten
  <2>6. CASE /\ e[2] \notin abierto /\ hilo' = hilo
             /\ cola' = [cola EXCEPT ![e] = Tail(cola[e])]
    BY <2>1, <2>3, <2>4, <2>6, QueueIsLost
  <2>7. CASE /\ e[2] \notin abierto /\ hilo' = hilo
             /\ cola' = [cola EXCEPT ![e] = <<>>]
    BY <2>1, <2>3, <2>4, <2>7, QueueIsLost
  <2> QED BY <1>9, <2>5, <2>6, <2>7 DEF Escribe
<1>10. ASSUME NEW e \in End, TerminaEscritor(e) PROVE Streams'
  <2>1. cola[e] = <<>> /\ cola' = [cola EXCEPT ![e] = <<>>]
        /\ UNCHANGED <<opened, abierto, hilo, entrantes, leidas, via>>
    BY <1>10 DEF TerminaEscritor, DroppedAndDrained
  <2>2. <<>> \in Seq(TextsIn(via, e))
    BY EmptySeq
  <2> QED BY <2>1, <2>2, QueueIsLost
<1>11. ASSUME NEW e \in End, Lee(e) PROVE Streams'
  <2>1. PICK f : f = FarEnd(e)
    OBVIOUS
  <2>2. PICK n : n = e[1]
    OBVIOUS
  <2>3. f \in End /\ n \in Node /\ n = Peer(f[1])
    BY <2>1, <2>2, FarEnds
  <2>4. PICK size \in 1 .. Len(hilo[f]) :
           /\ entrantes' = [entrantes EXCEPT ![n] =
                              entrantes[n] \o Lineas(SubSeq(hilo[f], 1, size))]
           /\ hilo' = [hilo EXCEPT ![f] = SubSeq(hilo[f], size + 1, Len(hilo[f]))]
    BY <1>11, <2>1, <2>2 DEF Lee
  <2>5. UNCHANGED <<opened, abierto, cola, leidas, via>>
    BY <1>11 DEF Lee, tasks
  <2> QED BY <2>3, <2>4, <2>5, PieceIsRead
<1>12. ASSUME NEW e \in End, TerminaLector(e) PROVE Streams'
  <2>1. PICK f : f = FarEnd(e)
    OBVIOUS
  <2>2. f \in End /\ f[2] = e[2]
    BY <2>1, FarEnds
  <2>3. /\ f[2] \notin abierto \/ hilo[f] = <<>>
        /\ hilo' = [hilo EXCEPT ![f] = <<>>]
        /\ UNCHANGED <<opened, abierto, cola, entrantes, leidas, via>>
    BY <1>12, <2>1, <2>2 DEF TerminaLector
  <2> QED BY <2>2, <2>3, WireIsLost
<1>13. ASSUME NEW n \in Node, ChatLeer(n) PROVE Streams'
  <2>1. /\ leidas' = [leidas EXCEPT ![n] = leidas[n] \o entrantes[n]]
        /\ entrantes' = [entrantes EXCEPT ![n] = <<>>]
        /\ UNCHANGED <<opened, abierto, cola, hilo, via>>
    BY <1>13 DEF ChatLeer
  <2> QED BY <2>1, LinesAreRead
<1> HIDE DEF Streams
<1>14. Streams'
  BY <1>1, <1>2, <1>3, <1>4, <1>5, <1>6, <1>7, <1>8, <1>9, <1>10, <1>11, <1>12, <1>13, Zenon
        DEF Next
<1> QED BY <1>w, <1>14, CleanIsKept DEF IInv, Streams

LEMMA IInvHolds == Spec => []IInv
<1>1. Init => IInv
  BY InitIsFine
<1>2. IInv /\ [Next]_vars => IInv'
  BY StepsKeep
<1> QED BY <1>1, <1>2, PTL DEF Spec

\* The types, for any number of channels and texts; no channel is twice in salidas.
LEMMA TypeFollows == IInv => TypeOK
<1> SUFFICES ASSUME IInv PROVE TypeOK
  OBVIOUS
<1>1. Wiring /\ Data /\ ViaGood(via)
  BY DEF IInv, Data
<1>2. ASSUME NEW e \in End
      PROVE  ToSet(cola[e]) \subseteq DOMAIN via /\ ToSet(hilo[e]) \subseteq Part \cup {LineFeed}
  <2>1. PICK S : S = TextsIn(via, e)
    OBVIOUS
  <2>2. PICK Q : Q = PartsIn(via, e) \cup {LineFeed}
    OBVIOUS
  <2>3. cola[e] \in Seq(S) /\ hilo[e] \in Seq(Q)
    BY <2>1, <2>2, Here
  <2>4. S \subseteq DOMAIN via /\ Q \subseteq Part \cup {LineFeed}
    BY <2>1, <2>2 DEF TextsIn, PartsIn
  <2>5. ToSet(cola[e]) \subseteq S /\ ToSet(hilo[e]) \subseteq Q
    BY <2>3, InItsSet
  <2> QED BY <2>4, <2>5
<1>3. ASSUME NEW n \in Node, NEW line \in ToSet(entrantes[n] \o leidas[n])
      PROVE  ToSet(line) \subseteq SignsOf(Part)
  <2>1. PICK K : K = Seq(Signs)
    OBVIOUS
  <2>2. entrantes[n] \in Seq(K) /\ leidas[n] \in Seq(K)
    BY <2>1, Here
  <2>3. PICK all : all = entrantes[n] \o leidas[n]
    OBVIOUS
  <2>4. all \in Seq(K)
    BY <2>2, <2>3, ConcatProperties
  <2>5. line \in K
    BY <2>3, <2>4, InItsSet
  <2>6. ToSet(line) \subseteq Signs
    BY <2>1, <2>5, InItsSet
  <2>7. Known \subseteq Part
    BY DEF Known, KnownIn
  <2>8. Signs \subseteq SignsOf(Part)
    BY <2>7, SignsAre DEF Signs, SignsIn, Known
  <2> QED BY <2>6, <2>8
<1> QED BY <1>1, <1>2, <1>3 DEF TypeOK, Wiring

LEMMA PrefixOf ==
    ASSUME NEW S, NEW s \in Seq(S), NEW t \in Seq(S)
    PROVE  IsPrefix(s, s \o t)
<1>1. PICK u : u = s \o t
  OBVIOUS
<1>2. u \in Seq(S) /\ Len(u) = Len(s) + Len(t) /\ Len(s) \in Nat /\ Len(t) \in Nat
  BY <1>1, ConcatProperties, LenProperties
<1>3. SubSeq(u, 1, Len(s)) = SubSeq(s, 1, Len(s))
  <2>1. CASE Len(s) = 0
    <3>1. SubSeq(u, 1, 0) = <<>> /\ SubSeq(s, 1, 0) = <<>>
      BY SubSeqEmpty
    <3> QED BY <2>1, <3>1
  <2>2. CASE Len(s) # 0
    <3>1. 1 \in 1 .. Len(s) /\ Len(s) \in 1 .. Len(s)
      BY <1>2, <2>2
    <3> QED BY <1>1, <3>1, SubSeqOfConcat1
  <2> QED BY <2>1, <2>2
<1>4. Len(s) <= Len(u)
  BY <1>2
<1> QED BY <1>1, <1>3, <1>4 DEF IsPrefix

THEOREM ChatTypeCorrect == Spec => []TypeOK
<1>1. IInv => TypeOK
  BY TypeFollows
<1> QED BY <1>1, IInvHolds, PTL

\* cablear, chat_leer: over all channels, restarts and losses, what a node shows of a
\* channel is the beginning of what was sent through it, each byte once and in order, and
\* as it was sent, but for the characters that a piece ended in: those are garbled whole.
THEOREM NothingTwice == Spec => []NothingTwiceOrAmiss
<1>1. IInv => NothingTwiceOrAmiss
  <2> SUFFICES ASSUME IInv, NEW e \in End PROVE IsPrefix(Received(e), Sent(e))
    BY DEF NothingTwiceOrAmiss, IInv, Clean
  <2>1. PICK r : r = Received(e)
    OBVIOUS
  <2>2. PICK w : w = Wire(e)
    OBVIOUS
  <2>3. PICK rest \in Seq(Part) : Sent(e) = (r \o w) \o rest
    BY <2>1, <2>2, Here DEF Flow, Leaves, Goes
  <2>4. r \in Seq(Part) /\ w \in Seq(Part)
    BY <2>1, <2>2, Here
  <2>5. PICK more : more = w \o rest
    OBVIOUS
  <2>6. more \in Seq(Part) /\ Sent(e) = r \o more
    <3>1. w \o rest \in Seq(Part)
      BY <2>4, ConcatProperties, Zenon
    <3>2. (r \o w) \o rest = r \o (w \o rest)
      BY <2>4, PartsRegroup, ZenonT(60)
    <3> QED BY <2>3, <2>5, <3>1, <3>2
  <2>7. IsPrefix(r, Sent(e))
    BY <2>4, <2>6, PrefixOf
  <2> QED BY <2>1, <2>7
<1> QED BY <1>1, IInvHolds, PTL

\* cablear: while the connection lives, each byte that was taken is shown, a U+FFFD is in
\* its place, or it is on the wire or in the queue of the writer, in its order.
THEOREM NothingLost == Spec => []NothingLostWhileOpen
<1>1. IInv => NothingLostWhileOpen
  <2> SUFFICES ASSUME IInv, NEW e \in End, e[2] \in abierto
               PROVE  Sent(e) = Received(e) \o OnTheWay(e)
    BY DEF NothingLostWhileOpen
  <2>1. PICK r : r = Received(e)
    OBVIOUS
  <2>2. PICK w : w = Wire(e)
    OBVIOUS
  <2>3. PICK q : q = PartsOf(cola[e])
    OBVIOUS
  <2>4. Sent(e) = (r \o w) \o q
    BY <2>1, <2>2, <2>3, Here DEF Flow, Goes
  <2>5. r \in Seq(Part) /\ w \in Seq(Part) /\ q \in Seq(Part)
    BY <2>1, <2>2, <2>3, Here
  <2>6. (r \o w) \o q = r \o (w \o q)
    BY <2>5, PartsRegroup, ZenonT(60)
  <2>7. OnTheWay(e) = w \o q
    BY <2>2, <2>3 DEF OnTheWay, Wire
  <2> QED BY <2>1, <2>4, <2>6, <2>7
<1> QED BY <1>1, IInvHolds, PTL
=============================================================================
