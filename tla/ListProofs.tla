----------------------------- MODULE ListProofs -----------------------------
(***************************************************************************)
(* What the lists and the lru caches of the models keep, for sequences of  *)
(* any length: the elements that a filter retains, the place of a key that *)
(* is moved to the front, what a full cache drops.                         *)
(***************************************************************************)
EXTENDS Integers, Lists, Lru, SequenceTheorems, FiniteSetTheorems, WellFoundedInduction, TLAPS

-----------------------------------------------------------------------------
(* Induction over the length of a sequence, by the least number at which a *)
(* claim fails: the claim is given as the set of the numbers it holds of.  *)

LEMMA LeastNumber ==
    ASSUME NEW T, T \subseteq Nat, T # {}
    PROVE  \E n \in T : \A m \in T : n <= m
<1> DEFINE R == {ss \in Nat \X Nat : ss[1] < ss[2]}
<1>1. IsWellFoundedOn(R, Nat)
  BY NatLessThanWellFounded DEF OpToRel
<1> HIDE DEF R
<1>2. PICK n \in T : \A m \in T : <<m, n>> \notin R
  BY <1>1, WFMin
<1>3. \A m \in T : ~(m < n)
  BY <1>2 DEF R
<1> QED BY <1>2, <1>3

LEMMA EveryNumber ==
    ASSUME NEW T, NEW n \in Nat, 0 \in T, \A m \in 0 .. n : m < n /\ m \in T => m + 1 \in T
    PROVE  n \in T
<1> DEFINE Fails == {m \in 0 .. n : m \notin T}
<1>1. CASE Fails = {}
  BY <1>1
<1>2. CASE Fails # {}
  <2>1. Fails \subseteq Nat
    OBVIOUS
  <2> HIDE DEF Fails
  <2>2. PICK m \in Fails : \A k \in Fails : m <= k
    BY <1>2, <2>1, LeastNumber
  <2>3. m \in 1 .. n /\ m \notin T
    BY <2>2 DEF Fails
  <2>4. m - 1 \in 0 .. n /\ m - 1 < n /\ (m - 1) + 1 = m
    BY <2>3
  <2>5. m - 1 \in T
    BY <2>2, <2>3, <2>4 DEF Fails
  <2> QED BY <2>3, <2>4, <2>5
<1> QED BY <1>1, <1>2

-----------------------------------------------------------------------------
(* What a filter retains.                                                  *)

Retains(kept, s, S, m) ==
    kept = [n \in 0 .. m |->
              IF n = 0 THEN <<>>
              ELSE IF s[n] \in S THEN Append(kept[n - 1], s[n]) ELSE kept[n - 1]]

\* A recursive function is there for sequences of any length.
LEMMA AmongFirstIs ==
    ASSUME NEW s, NEW S, Len(s) \in Nat
    PROVE  Retains(AmongFirst(s, S), s, S, Len(s))
<1> DEFINE T == {m \in Nat : \E kept : Retains(kept, s, S, m)}
<1>1. 0 \in T
  <2>1. Retains([n \in 0 .. 0 |-> <<>>], s, S, 0)
    BY DEF Retains
  <2> QED BY <2>1
<1>2. ASSUME NEW m \in 0 .. Len(s), m \in T PROVE m + 1 \in T
  <2>1. PICK kept : Retains(kept, s, S, m)
    BY <1>2
  <2> DEFINE more == [n \in 0 .. m + 1 |->
                        IF n <= m THEN kept[n]
                        ELSE IF s[n] \in S THEN Append(kept[n - 1], s[n]) ELSE kept[n - 1]]
  <2>2. ASSUME NEW n \in 0 .. m + 1
        PROVE  more[n] = IF n = 0 THEN <<>>
                         ELSE IF s[n] \in S THEN Append(more[n - 1], s[n]) ELSE more[n - 1]
    <3>1. CASE n = 0
      BY <2>1, <3>1 DEF Retains
    <3>2. CASE n # 0
      <4>1. n - 1 \in 0 .. m /\ more[n - 1] = kept[n - 1]
        BY <3>2
      <4>2. CASE n <= m
        <5>1. n \in 0 .. m
          BY <4>2
        <5>2. kept[n] = IF s[n] \in S THEN Append(kept[n - 1], s[n]) ELSE kept[n - 1]
          BY <2>1, <3>2, <5>1, Zenon DEF Retains
        <5>3. more[n] = kept[n]
          BY <4>2
        <5> QED BY <3>2, <4>1, <5>2, <5>3
      <4>3. CASE ~(n <= m)
        BY <3>2, <4>1, <4>3
      <4> QED BY <4>2, <4>3
    <3> QED BY <3>1, <3>2
  <2>3. more = [n \in 0 .. m + 1 |-> more[n]]
    OBVIOUS
  <2> HIDE DEF more
  <2>4. Retains(more, s, S, m + 1)
    BY <2>2, <2>3 DEF Retains
  <2> QED BY <2>4
<1> HIDE DEF T
<1>3. Len(s) \in T
  BY <1>1, <1>2, EveryNumber
<1>4. \E kept : Retains(kept, s, S, Len(s))
  BY <1>3 DEF T
<1> QED BY <1>4 DEF AmongFirst, Retains

\* t are the elements at the places p of the first n of s: all that are in S, in order.
Picked(p, t, s, S, n) ==
    /\ p \in [1 .. Len(t) -> 1 .. n]
    /\ \A i, j \in 1 .. Len(t) : i < j => p[i] < p[j]
    /\ \A i \in 1 .. Len(t) : t[i] = s[p[i]] /\ t[i] \in S
    /\ \A j \in 1 .. n : s[j] \in S => \E i \in 1 .. Len(t) : p[i] = j

LEMMA AmongIs ==
    ASSUME NEW K, NEW s \in Seq(K), NEW S
    PROVE  /\ Among(s, S) \in Seq(K) /\ Len(Among(s, S)) <= Len(s)
           /\ \E p : Picked(p, Among(s, S), s, S, Len(s))
<1> DEFINE f == AmongFirst(s, S)
           T == {n \in Nat : n <= Len(s) => /\ f[n] \in Seq(K) /\ Len(f[n]) <= n
                                            /\ \E p : Picked(p, f[n], s, S, n)}
<1>0. Len(s) \in Nat
  BY LenProperties
<1>1. /\ f[0] = <<>>
      /\ \A n \in 1 .. Len(s) :
           f[n] = IF s[n] \in S THEN Append(f[n - 1], s[n]) ELSE f[n - 1]
  <2>1. Retains(f, s, S, Len(s))
    BY <1>0, AmongFirstIs
  <2> HIDE DEF f
  <2> PICK l \in Nat : l = Len(s)
    BY <1>0
  <2>2. f = [n \in 0 .. l |-> IF n = 0 THEN <<>>
                             ELSE IF s[n] \in S THEN Append(f[n - 1], s[n]) ELSE f[n - 1]]
    BY <2>1 DEF Retains
  <2>3. f[0] = <<>>
    BY <2>2
  <2>4. ASSUME NEW n \in 1 .. l
        PROVE  f[n] = IF s[n] \in S THEN Append(f[n - 1], s[n]) ELSE f[n - 1]
    <3>1. n \in 0 .. l /\ n # 0
      OBVIOUS
    <3> QED BY <2>2, <3>1, Zenon
  <2> QED BY <2>3, <2>4
<1> HIDE DEF f
<1>2. 0 \in T
  <2>1. Len(<<>>) = 0 /\ <<>> \in Seq(K)
    BY EmptySeq
  <2>2. Picked([i \in 1 .. 0 |-> 0], <<>>, s, S, 0)
    BY <2>1 DEF Picked
  <2>3. f[0] \in Seq(K) /\ Len(f[0]) <= 0 /\ Picked([i \in 1 .. 0 |-> 0], f[0], s, S, 0)
    BY <1>1, <2>1, <2>2
  <2> QED BY <2>3
<1>3. ASSUME NEW m \in 0 .. Len(s), m < Len(s), m \in T PROVE m + 1 \in T
  <2>1. f[m] \in Seq(K) /\ Len(f[m]) <= m /\ Len(f[m]) \in Nat /\ m \in Nat
    BY <1>0, <1>3, LenProperties
  <2>2. PICK p : Picked(p, f[m], s, S, m)
    BY <1>3
  <2> PICK t : t = f[m]
    OBVIOUS
  <2> PICK u : u = f[m + 1]
    OBVIOUS
  <2> PICK l : l = Len(t)
    OBVIOUS
  <2>3. /\ p \in [1 .. l -> 1 .. m]
        /\ \A i, j \in 1 .. l : i < j => p[i] < p[j]
        /\ \A i \in 1 .. l : t[i] = s[p[i]] /\ t[i] \in S
        /\ \A j \in 1 .. m : s[j] \in S => \E i \in 1 .. l : p[i] = j
    BY <2>2 DEF Picked
  <2>4. m + 1 \in 1 .. Len(s) /\ s[m + 1] \in K /\ m \in Nat /\ (m + 1) - 1 = m
    BY <1>0, <1>3, ElementOfSeq
  <2>5. CASE s[m + 1] \notin S
    <3>1. u = t
      BY <1>1, <2>4, <2>5
    <3>2. /\ p \in [1 .. l -> 1 .. m + 1]
          /\ \A j \in 1 .. m + 1 : s[j] \in S => \E i \in 1 .. l : p[i] = j
      BY <2>3, <2>4, <2>5
    <3>3. Picked(p, u, s, S, m + 1)
      BY <2>3, <3>1, <3>2 DEF Picked
    <3>4. /\ f[m + 1] \in Seq(K) /\ Len(f[m + 1]) <= m + 1
          /\ Picked(p, f[m + 1], s, S, m + 1)
      BY <2>1, <3>1, <3>3
    <3> QED BY <2>4, <3>4
  <2>6. CASE s[m + 1] \in S
    <3> PICK q : q = [i \in 1 .. l + 1 |-> IF i <= l THEN p[i] ELSE m + 1]
      OBVIOUS
    <3>1. u = Append(t, s[m + 1])
      BY <1>1, <2>4, <2>6
    <3>2. /\ u \in Seq(K) /\ Len(u) = l + 1
          /\ \A i \in 1 .. l : u[i] = t[i]
          /\ u[l + 1] = s[m + 1]
      BY <2>1, <2>4, <3>1, AppendProperties
    <3>3. /\ q \in [1 .. l + 1 -> 1 .. m + 1] /\ q[l + 1] = m + 1 /\ l \in Nat
          /\ \A i \in 1 .. l : q[i] = p[i] /\ p[i] \in 1 .. m
      <4>1. l \in Nat
        BY <2>1
      <4>2. ASSUME NEW i \in 1 .. l PROVE q[i] = p[i] /\ p[i] \in 1 .. m
        <5>1. i \in 1 .. l + 1 /\ i <= l
          BY <4>1
        <5> QED BY <2>3, <5>1
      <4>3. q[l + 1] = m + 1 /\ m + 1 \in 1 .. m + 1
        BY <2>4, <4>1
      <4>4. ASSUME NEW i \in 1 .. l + 1 PROVE q[i] \in 1 .. m + 1
        <5>1. CASE i \in 1 .. l
          <6>1. q[i] \in 1 .. m /\ m \in Nat
            BY <2>4, <4>2, <5>1
          <6> QED BY <6>1
        <5>2. CASE i \notin 1 .. l
          <6>1. i = l + 1
            BY <4>1, <5>2
          <6> QED BY <4>3, <6>1
        <5> QED BY <5>1, <5>2
      <4>5. q = [i \in 1 .. l + 1 |-> q[i]]
        OBVIOUS
      <4> QED BY <4>1, <4>2, <4>3, <4>4, <4>5
    <3>4. ASSUME NEW i \in 1 .. l + 1, NEW j \in 1 .. l + 1, i < j PROVE q[i] < q[j]
      <4>1. i \in 1 .. l
        BY <3>3, <3>4
      <4>2. CASE j \in 1 .. l
        BY <2>3, <3>3, <3>4, <4>1, <4>2
      <4>3. CASE j = l + 1
        <5>1. q[i] \in 1 .. m /\ q[j] = m + 1 /\ m \in Nat
          BY <2>4, <3>3, <4>1, <4>3
        <5> QED BY <5>1
      <4> QED BY <3>3, <4>2, <4>3
    <3>5. ASSUME NEW i \in 1 .. l + 1 PROVE u[i] = s[q[i]] /\ u[i] \in S
      <4>1. CASE i \in 1 .. l
        BY <2>3, <3>2, <3>3, <4>1, ZenonT(60)
      <4>2. CASE i = l + 1
        BY <2>6, <3>2, <3>3, <4>2
      <4> QED BY <3>3, <4>1, <4>2
    <3>6. ASSUME NEW j \in 1 .. m + 1, s[j] \in S PROVE \E i \in 1 .. l + 1 : q[i] = j
      <4>1. CASE j \in 1 .. m
        <5>1. PICK i \in 1 .. l : p[i] = j
          BY <2>3, <3>6, <4>1
        <5>2. i \in 1 .. l + 1 /\ q[i] = j
          BY <3>3, <5>1
        <5> QED BY <5>2
      <4>2. CASE j = m + 1
        <5>1. l + 1 \in 1 .. l + 1
          BY <3>3
        <5> QED BY <3>3, <4>2, <5>1
      <4>3. j \in 1 .. m \/ j = m + 1
        BY <2>4
      <4> QED BY <4>1, <4>2, <4>3
    <3>7. Picked(q, u, s, S, m + 1)
      BY <3>2, <3>3, <3>4, <3>5, <3>6, ZenonT(60) DEF Picked
    <3>8. /\ f[m + 1] \in Seq(K) /\ Len(f[m + 1]) <= m + 1
          /\ Picked(q, f[m + 1], s, S, m + 1)
      BY <2>1, <3>2, <3>7
    <3> QED BY <2>4, <3>8
  <2> QED BY <2>5, <2>6
<1> HIDE DEF T
<1>4. Len(s) \in T
  BY <1>0, <1>2, <1>3, EveryNumber
<1> QED BY <1>4 DEF T, f, Among

\* What a filter retains are the elements that are in S, and none twice that s has once.
LEMMA AmongKeeps ==
    ASSUME NEW K, NEW s \in Seq(K), NEW S
    PROVE  /\ Among(s, S) \in Seq(K) /\ Len(Among(s, S)) <= Len(s)
           /\ ToSet(Among(s, S)) = ToSet(s) \cap S
           /\ IsInjective(s) => IsInjective(Among(s, S))
<1> PICK t : t = Among(s, S)
  OBVIOUS
<1>1. PICK p : Picked(p, t, s, S, Len(s))
  BY AmongIs
<1>2. /\ p \in [1 .. Len(t) -> 1 .. Len(s)]
      /\ \A i, j \in 1 .. Len(t) : i < j => p[i] < p[j]
      /\ \A i \in 1 .. Len(t) : t[i] = s[p[i]] /\ t[i] \in S
      /\ \A j \in 1 .. Len(s) : s[j] \in S => \E i \in 1 .. Len(t) : p[i] = j
  BY <1>1 DEF Picked
<1>3. /\ t \in Seq(K) /\ Len(t) <= Len(s) /\ Len(t) \in Nat /\ Len(s) \in Nat
      /\ DOMAIN t = 1 .. Len(t) /\ DOMAIN s = 1 .. Len(s)
  BY AmongIs, LenProperties
<1>4. ToSet(t) = ToSet(s) \cap S
  BY <1>2, <1>3, SMTT(60) DEF ToSet
<1>5. ASSUME IsInjective(s) PROVE IsInjective(t)
  <2> SUFFICES ASSUME NEW i \in 1 .. Len(t), NEW j \in 1 .. Len(t), t[i] = t[j]
               PROVE  i = j
    BY <1>3 DEF IsInjective
  <2>1. p[i] = p[j]
    <3>1. p[i] \in 1 .. Len(s) /\ p[j] \in 1 .. Len(s) /\ s[p[i]] = s[p[j]]
      BY <1>2
    <3> QED BY <1>3, <1>5, <3>1 DEF IsInjective
  <2>2. i < j => p[i] < p[j]
    BY <1>2
  <2>3. j < i => p[j] < p[i]
    BY <1>2
  <2>4. p[i] \in Int /\ i \in Int /\ j \in Int
    BY <1>2
  <2> QED BY <2>1, <2>2, <2>3, <2>4
<1> QED BY <1>3, <1>4, <1>5

-----------------------------------------------------------------------------
(* What a list keeps that grows at the end or loses its first.             *)

LEMMA AppendKeeps ==
    ASSUME NEW K, NEW s \in Seq(K), NEW e \in K
    PROVE  /\ Append(s, e) \in Seq(K) /\ Len(Append(s, e)) = Len(s) + 1
           /\ ToSet(Append(s, e)) = ToSet(s) \cup {e}
           /\ IsInjective(s) /\ e \notin ToSet(s) => IsInjective(Append(s, e))
<1> PICK t : t = Append(s, e)
  OBVIOUS
<1>1. /\ t \in Seq(K) /\ Len(t) = Len(s) + 1 /\ Len(s) \in Nat
      /\ \A i \in 1 .. Len(s) : t[i] = s[i]
      /\ t[Len(s) + 1] = e
  BY AppendProperties, LenProperties
<1>2. DOMAIN s = 1 .. Len(s) /\ DOMAIN t = 1 .. Len(s) + 1
  BY <1>1, LenProperties
<1>3. ToSet(t) = ToSet(s) \cup {e}
  BY <1>1, <1>2 DEF ToSet
<1>4. ASSUME IsInjective(s), e \notin ToSet(s) PROVE IsInjective(t)
  <2>1. \A i \in 1 .. Len(s) : s[i] # e
    BY <1>2, <1>4 DEF ToSet
  <2>2. \A i, j \in 1 .. Len(s) : s[i] = s[j] => i = j
    BY <1>2, <1>4 DEF IsInjective
  <2> SUFFICES ASSUME NEW i \in 1 .. Len(s) + 1, NEW j \in 1 .. Len(s) + 1, t[i] = t[j]
               PROVE  i = j
    BY <1>2 DEF IsInjective
  <2> QED BY <1>1, <2>1, <2>2
<1> QED BY <1>1, <1>3, <1>4

LEMMA TailKeeps ==
    ASSUME NEW K, NEW s \in Seq(K), s # <<>>
    PROVE  /\ Tail(s) \in Seq(K) /\ Len(Tail(s)) = Len(s) - 1 /\ Len(s) \in Nat \ {0}
           /\ \A i \in 1 .. Len(s) - 1 : i + 1 \in 1 .. Len(s) /\ Tail(s)[i] = s[i + 1]
           /\ ToSet(Tail(s)) \subseteq ToSet(s)
           /\ IsInjective(s) => IsInjective(Tail(s))
<1> PICK t : t = Tail(s)
  OBVIOUS
<1>1. /\ t \in Seq(K) /\ Len(t) = Len(s) - 1 /\ Len(s) \in Nat \ {0}
      /\ \A i \in 1 .. Len(s) - 1 : t[i] = s[i + 1]
  BY HeadTailProperties, EmptySeq, LenProperties
<1>2. DOMAIN s = 1 .. Len(s) /\ DOMAIN t = 1 .. Len(s) - 1
  BY <1>1, LenProperties
<1>3. \A i \in 1 .. Len(s) - 1 : i + 1 \in 1 .. Len(s)
  BY <1>1
<1>4. ToSet(t) \subseteq ToSet(s)
  BY <1>1, <1>2, <1>3 DEF ToSet
<1>5. ASSUME IsInjective(s) PROVE IsInjective(t)
  <2> SUFFICES ASSUME NEW i \in 1 .. Len(s) - 1, NEW j \in 1 .. Len(s) - 1, t[i] = t[j]
               PROVE  i = j
    BY <1>2 DEF IsInjective
  <2>1. i + 1 = j + 1
    BY <1>1, <1>2, <1>3, <1>5 DEF IsInjective
  <2> QED BY <2>1
<1> QED BY <1>1, <1>3, <1>4, <1>5

LEMMA ConcatKeeps ==
    ASSUME NEW K, NEW s \in Seq(K), NEW t \in Seq(K)
    PROVE  /\ s \o t \in Seq(K) /\ ToSet(s \o t) = ToSet(s) \cup ToSet(t)
           /\ IsInjective(s) /\ IsInjective(t) /\ ToSet(s) \cap ToSet(t) = {} =>
                IsInjective(s \o t)
<1> PICK u : u = s \o t
  OBVIOUS
<1> PICK n : n = Len(s)
  OBVIOUS
<1> PICK m : m = Len(t)
  OBVIOUS
<1>1. /\ u \in Seq(K) /\ Len(u) = n + m /\ n \in Nat /\ m \in Nat
      /\ \A i \in 1 .. n + m : u[i] = IF i <= n THEN s[i] ELSE t[i - n]
  BY ConcatProperties, LenProperties
<1>2. DOMAIN s = 1 .. n /\ DOMAIN t = 1 .. m /\ DOMAIN u = 1 .. n + m
  BY <1>1, LenProperties
<1>3. ASSUME NEW i \in 1 .. n PROVE i \in 1 .. n + m /\ u[i] = s[i]
  BY <1>1
<1>4. ASSUME NEW i \in 1 .. m PROVE n + i \in 1 .. n + m /\ u[n + i] = t[i]
  <2>1. n + i \in 1 .. n + m /\ ~(n + i <= n) /\ (n + i) - n = i
    BY <1>1
  <2> QED BY <1>1, <2>1
<1>5. ASSUME NEW i \in 1 .. n + m
      PROVE  \/ i \in 1 .. n /\ u[i] = s[i]
             \/ i - n \in 1 .. m /\ u[i] = t[i - n] /\ ~(i <= n)
  BY <1>1
<1>6. ToSet(u) = ToSet(s) \cup ToSet(t)
  <2>1. ToSet(u) \subseteq ToSet(s) \cup ToSet(t)
    BY <1>2, <1>5 DEF ToSet
  <2>2. ToSet(s) \subseteq ToSet(u)
    BY <1>2, <1>3 DEF ToSet
  <2>3. ToSet(t) \subseteq ToSet(u)
    BY <1>2, <1>4 DEF ToSet
  <2> QED BY <2>1, <2>2, <2>3
<1>7. ASSUME IsInjective(s), IsInjective(t), ToSet(s) \cap ToSet(t) = {}
      PROVE  IsInjective(u)
  <2>1. \A i \in 1 .. n, j \in 1 .. m : s[i] # t[j]
    BY <1>2, <1>7 DEF ToSet
  <2>2. \A i, j \in 1 .. n : s[i] = s[j] => i = j
    BY <1>2, <1>7 DEF IsInjective
  <2>3. \A i, j \in 1 .. m : t[i] = t[j] => i = j
    BY <1>2, <1>7 DEF IsInjective
  <2> SUFFICES ASSUME NEW i \in 1 .. n + m, NEW j \in 1 .. n + m, u[i] = u[j]
               PROVE  i = j
    BY <1>2 DEF IsInjective
  <2>4. CASE i \in 1 .. n /\ u[i] = s[i]
    BY <1>5, <2>1, <2>2, <2>4, ZenonT(60)
  <2>5. CASE i - n \in 1 .. m /\ u[i] = t[i - n] /\ ~(i <= n)
    <3>1. CASE j \in 1 .. n /\ u[j] = s[j]
      BY <2>1, <2>5, <3>1
    <3>2. CASE j - n \in 1 .. m /\ u[j] = t[j - n]
      <4>1. i - n = j - n
        BY <2>3, <2>5, <3>2
      <4> QED BY <1>1, <4>1
    <3> QED BY <1>5, <3>1, <3>2
  <2> QED BY <1>5, <2>4, <2>5
<1> QED BY <1>1, <1>6, <1>7

-----------------------------------------------------------------------------
(* The lru caches.                                                         *)

Distinct(order) ==
    \A i, j \in 1 .. Len(order) : order[i] = order[j] => i = j

\* What a list becomes when a key that is not in it, or is its kth, comes in front.
FrontAdded(order, key, new) ==
    /\ Len(new) = Len(order) + 1 /\ new[1] = key
    /\ \A i \in 1 .. Len(order) : new[i + 1] = order[i]

FrontMoved(order, key, k, new) ==
    /\ Len(new) = Len(order) /\ new[1] = key
    /\ \A i \in 1 .. Len(order) :
         /\ i < k => new[i + 1] = order[i]
         /\ k < i => new[i] = order[i]

\* u is s and then t.
Joined(s, t, u) ==
    /\ Len(u) = Len(s) + Len(t) /\ Len(s) \in Nat /\ Len(t) \in Nat
    /\ \A i \in 1 .. Len(s) : u[i] = s[i]
    /\ \A i \in 1 .. Len(t) : u[Len(s) + i] = t[i]

LEMMA Concat ==
    ASSUME NEW K, NEW s \in Seq(K), NEW t \in Seq(K)
    PROVE  (s \o t) \in Seq(K) /\ Joined(s, t, s \o t)
<1> PICK u : u = s \o t
  OBVIOUS
<1>1. Len(s) \in Nat /\ Len(t) \in Nat
  BY LenProperties
<1>2. /\ u \in Seq(K) /\ Len(u) = Len(s) + Len(t)
      /\ \A i \in 1 .. Len(s) + Len(t) : u[i] = IF i <= Len(s) THEN s[i] ELSE t[i - Len(s)]
  BY ConcatProperties
<1>3. ASSUME NEW i \in 1 .. Len(t) PROVE u[Len(s) + i] = t[i]
  <2>1. PICK j : j = Len(s) + i
    OBVIOUS
  <2>2. j \in 1 .. Len(s) + Len(t) /\ ~(j <= Len(s)) /\ j - Len(s) = i
    BY <1>1, <2>1
  <2> QED BY <1>2, <2>1, <2>2
<1>4. Joined(s, t, u)
  BY <1>1, <1>2, <1>3 DEF Joined
<1> QED BY <1>2, <1>4

\* A list without its kth element, and with one more in front.
Cut(order, n, k, rest) ==
    /\ Len(rest) = n - 1
    /\ \A i \in 1 .. k - 1 : rest[i] = order[i]
    /\ \A i \in k .. n - 1 : rest[i] = order[i + 1]

LEMMA Spliced ==
    ASSUME NEW K, NEW order, NEW n \in Nat, NEW k \in 1 .. n,
           NEW before \in Seq(K), Len(before) = k - 1,
           NEW after \in Seq(K), Len(after) = n - k,
           \A i \in 1 .. k - 1 : before[i] = order[i],
           \A i \in 1 .. n - k : after[i] = order[k + i],
           NEW rest, rest = before \o after
    PROVE  rest \in Seq(K) /\ Cut(order, n, k, rest)
<1>1. /\ rest \in Seq(K) /\ Len(rest) = Len(before) + Len(after)
      /\ \A i \in 1 .. Len(before) : rest[i] = before[i]
      /\ \A i \in 1 .. Len(after) : rest[Len(before) + i] = after[i]
  <2>1. rest \in Seq(K) /\ Joined(before, after, rest)
    BY Concat
  <2> QED BY <2>1, Zenon DEF Joined
<1>2. ASSUME NEW i \in k .. n - 1 PROVE rest[i] = order[i + 1]
  <2>1. PICK j : j = i - (k - 1)
    OBVIOUS
  <2>2. i \in Int /\ k \in Int /\ n \in Int /\ k <= i /\ i <= n - 1
    OBVIOUS
  <2>3. j \in 1 .. n - k /\ (k - 1) + j = i /\ k + j = i + 1
    BY <2>1, <2>2
  <2>4. rest[(k - 1) + j] = order[k + j]
    BY <1>1, <2>3
  <2> QED BY <2>3, <2>4
<1> QED BY <1>1, <1>2 DEF Cut

LEMMA Fronted ==
    ASSUME NEW K, NEW order, NEW n \in Nat, n = Len(order), NEW k \in 1 .. n, NEW key \in K,
           NEW rest \in Seq(K), Cut(order, n, k, rest),
           NEW new, new = <<key>> \o rest
    PROVE  new \in Seq(K) /\ FrontMoved(order, key, k, new)
<1> PICK one : one = <<key>>
  OBVIOUS
<1>1. one \in Seq(K) /\ Len(one) = 1 /\ one[1] = key
  OBVIOUS
<1>2. /\ new \in Seq(K) /\ Len(new) = Len(one) + Len(rest)
      /\ \A i \in 1 .. Len(one) : new[i] = one[i]
      /\ \A i \in 1 .. Len(rest) : new[Len(one) + i] = rest[i]
  <2>1. new \in Seq(K) /\ Joined(one, rest, new)
    BY <1>1, Concat
  <2> QED BY <2>1, Zenon DEF Joined
<1>3. /\ Len(new) = n /\ new[1] = key
      /\ \A i \in 1 .. n - 1 : new[1 + i] = rest[i]
  BY <1>1, <1>2 DEF Cut
<1>4. ASSUME NEW i \in 1 .. n
      PROVE  /\ i < k => new[i + 1] = order[i]
             /\ k < i => new[i] = order[i]
  <2>1. CASE i < k
    <3>1. i \in 1 .. k - 1 /\ i \in 1 .. n - 1 /\ i + 1 = 1 + i /\ ~(k < i)
      BY <2>1
    <3>2. new[1 + i] = rest[i] /\ rest[i] = order[i]
      BY <1>3, <3>1 DEF Cut
    <3> QED BY <2>1, <3>1, <3>2
  <2>2. CASE k < i
    <3>1. PICK j : j = i - 1
      OBVIOUS
    <3>2. j \in k .. n - 1 /\ j \in 1 .. n - 1 /\ 1 + j = i /\ j + 1 = i /\ ~(i < k)
      BY <2>2, <3>1
    <3>3. new[1 + j] = rest[j] /\ rest[j] = order[j + 1]
      BY <1>3, <3>2 DEF Cut
    <3> QED BY <2>2, <3>2, <3>3
  <2>3. CASE i = k
    BY <2>3
  <2> QED BY <2>1, <2>2, <2>3
<1>5. FrontMoved(order, key, k, new)
  <2>1. /\ Len(new) = Len(order)
        /\ \A i \in 1 .. Len(order) :
             /\ i < k => new[i + 1] = order[i]
             /\ k < i => new[i] = order[i]
    BY <1>3, <1>4
  <2> QED BY <1>3, <2>1, Zenon DEF FrontMoved
<1> QED BY <1>2, <1>5

LEMMA ToFrontIs ==
    ASSUME NEW K, NEW order \in Seq(K), Distinct(order), NEW key \in K,
           NEW new, new = ToFront(order, key)
    PROVE  /\ new \in Seq(K)
           /\ \/ /\ \A i \in 1 .. Len(order) : order[i] # key
                 /\ FrontAdded(order, key, new)
              \/ \E k \in 1 .. Len(order) : order[k] = key /\ FrontMoved(order, key, k, new)
<1>1. Len(order) \in Nat /\ \A i \in 1 .. Len(order) : order[i] \in K
  BY LenProperties, ElementOfSeq
<1>2. CASE \A i \in 1 .. Len(order) : order[i] # key
  <2>1. RemoveFirst(order, key) = order
    BY <1>2 DEF RemoveFirst
  <2>2. new = <<key>> \o order
    BY <2>1 DEF ToFront
  <2>3. <<key>> \in Seq(K) /\ Len(<<key>>) = 1 /\ <<key>>[1] = key
    OBVIOUS
  <2>4. new \in Seq(K) /\ Len(new) = Len(order) + 1
    BY <1>1, <2>2, <2>3, ConcatProperties
  <2>5. \A i \in 1 .. Len(order) : new[i + 1] = order[i]
    BY <1>1, <2>2, <2>3, ConcatProperties
  <2>6. new[1] = key
    BY <1>1, <2>2, <2>3, ConcatProperties
  <2> QED BY <1>1, <1>2, <2>4, <2>5, <2>6 DEF FrontAdded
<1>3. CASE \E i \in 1 .. Len(order) : order[i] = key
  <2>1. PICK k \in 1 .. Len(order) : order[k] = key
    BY <1>3
  <2> DEFINE I == {i \in 1 .. Len(order) : order[i] = key}
  <2>2. I = {k}
    BY <2>1 DEF Distinct
  <2>3. Min(I) = k
    <3>1. \E x \in I : \A y \in I : x <= y
      BY <2>2, SMTT(60)
    <3>2. Min(I) \in I
      <4> HIDE DEF I
      <4> QED BY <3>1, Zenon DEF Min
    <3> QED BY <2>2, <3>2
  <2>4. RemoveFirst(order, key) = SubSeq(order, 1, k - 1) \o SubSeq(order, k + 1, Len(order))
    BY <1>3, <2>2, <2>3 DEF RemoveFirst, RemoveAt, SelectInSeq
  <2> PICK before, after : before = SubSeq(order, 1, k - 1) /\ after = SubSeq(order, k + 1, Len(order))
    OBVIOUS
  <2>5. /\ before \in Seq(K) /\ Len(before) = k - 1
        /\ \A i \in 1 .. k - 1 : before[i] = order[i]
    BY <1>1, SubSeqProperties
  <2>6. /\ after \in Seq(K) /\ Len(after) = Len(order) - k
        /\ \A i \in 1 .. Len(order) - k : after[i] = order[k + i]
    BY <1>1, SubSeqProperties
  <2> PICK rest : rest = before \o after
    OBVIOUS
  <2>7. rest \in Seq(K) /\ Cut(order, Len(order), k, rest)
    BY <1>1, <2>5, <2>6, Spliced
  <2>8. new = <<key>> \o rest
    BY <2>4 DEF ToFront
  <2>9. new \in Seq(K) /\ FrontMoved(order, key, k, new)
    BY <1>1, <2>7, <2>8, Fronted
  <2> QED BY <2>1, <2>9
<1> QED BY <1>2, <1>3

\* The place in order of what is at place j when its kth comes in front.
Origin(k, j) == IF j <= k THEN j - 1 ELSE j

FromPlace(order, key, k, new) ==
    /\ new[1] = key /\ Len(new) \in Nat \ {0} /\ k \in 1 .. Len(order) + 1
    /\ k <= Len(order) => order[k] = key /\ Len(new) = Len(order)
    /\ k = Len(order) + 1 => /\ \A i \in 1 .. Len(order) : order[i] # key
                             /\ Len(new) = Len(order) + 1
    /\ \A j \in 2 .. Len(new) : /\ Origin(k, j) \in 1 .. Len(order) /\ Origin(k, j) # k
                                /\ new[j] = order[Origin(k, j)]

LEMMA OriginOf ==
    ASSUME NEW K, NEW order \in Seq(K), Distinct(order), NEW key \in K,
           NEW new, new = ToFront(order, key)
    PROVE  /\ new \in Seq(K) /\ Len(order) \in Nat
           /\ \E k : FromPlace(order, key, k, new)
<1>1. Len(order) \in Nat /\ new \in Seq(K)
  BY LenProperties, ToFrontIs
<1>2. CASE /\ \A i \in 1 .. Len(order) : order[i] # key
           /\ FrontAdded(order, key, new)
  <2> PICK k : k = Len(order) + 1
    OBVIOUS
  <2>1. /\ Len(new) = Len(order) + 1 /\ new[1] = key /\ Len(new) \in Nat \ {0}
        /\ k \in 1 .. Len(order) + 1 /\ ~(k <= Len(order))
    BY <1>1, <1>2 DEF FrontAdded
  <2>2. ASSUME NEW j \in 2 .. Len(new)
        PROVE  /\ Origin(k, j) \in 1 .. Len(order) /\ Origin(k, j) # k
               /\ new[j] = order[Origin(k, j)]
    <3>1. PICK i : i = j - 1
      OBVIOUS
    <3>2. i \in 1 .. Len(order) /\ Origin(k, j) = i /\ i + 1 = j /\ i # k
      BY <1>1, <2>1, <3>1 DEF Origin
    <3>3. new[i + 1] = order[i]
      BY <1>2, <3>2 DEF FrontAdded
    <3> QED BY <3>2, <3>3, Zenon
  <2>3. FromPlace(order, key, k, new)
    BY <1>2, <2>1, <2>2, Zenon DEF FromPlace
  <2> QED BY <1>1, <2>3
<1>3. ASSUME NEW k \in 1 .. Len(order), order[k] = key, FrontMoved(order, key, k, new)
      PROVE  FromPlace(order, key, k, new)
  <2>1. Len(new) = Len(order) /\ new[1] = key
    BY <1>3 DEF FrontMoved
  <2>2. ASSUME NEW j \in 2 .. Len(new)
        PROVE  /\ Origin(k, j) \in 1 .. Len(order) /\ Origin(k, j) # k
               /\ new[j] = order[Origin(k, j)]
    <3>1. CASE j <= k
      <4>1. PICK i : i = j - 1
        OBVIOUS
      <4>2. i \in 1 .. Len(order) /\ i < k /\ Origin(k, j) = i /\ i + 1 = j /\ i # k
        BY <1>1, <2>1, <3>1, <4>1 DEF Origin
      <4>3. new[i + 1] = order[i]
        BY <1>3, <4>2 DEF FrontMoved
      <4>4. new[j] = order[i]
        BY <4>2, <4>3
      <4> QED BY <4>2, <4>4, Zenon
    <3>2. CASE ~(j <= k)
      <4>1. Origin(k, j) = j
        BY <3>2 DEF Origin
      <4>2. j \in 1 .. Len(order) /\ k < j /\ Origin(k, j) = j
        BY <1>1, <2>1, <3>2, <4>1
      <4>3. new[j] = order[j]
        BY <1>3, <4>2 DEF FrontMoved
      <4> QED BY <1>1, <4>2, <4>3
    <3> QED BY <3>1, <3>2
  <2>3. k \in 1 .. Len(order) + 1 /\ k # Len(order) + 1 /\ Len(new) \in Nat \ {0}
    BY <1>1, <2>1
  <2> QED BY <1>3, <2>1, <2>2, <2>3, Zenon DEF FromPlace
<1> QED BY <1>1, <1>2, <1>3, ToFrontIs

\* Those in front of another are the key, or were in front of it before.
KeyInFront(order, key, new) ==
    /\ Distinct(new) /\ Len(new) \in Nat \ {0} /\ new[1] = key
    /\ ToSet(new) = ToSet(order) \cup {key}
    /\ Len(order) \in Nat /\ Len(new) <= Len(order) + 1
    /\ key \in ToSet(order) => Len(new) = Len(order)
    /\ \A i, j \in 2 .. Len(new) : i < j =>
         \E h, k \in 1 .. Len(order) : h < k /\ new[i] = order[h] /\ new[j] = order[k]

LEMMA ToFrontKeeps ==
    ASSUME NEW K, NEW order \in Seq(K), Distinct(order), NEW key \in K,
           NEW new, new = ToFront(order, key)
    PROVE  new \in Seq(K) /\ KeyInFront(order, key, new)
<1>0. PICK k : FromPlace(order, key, k, new)
  BY OriginOf
<1>1. new \in Seq(K) /\ Len(new) \in Nat \ {0} /\ new[1] = key /\ Len(order) \in Nat
  BY <1>0, OriginOf DEF FromPlace
<1>2. /\ k \in 1 .. Len(order) + 1
      /\ k <= Len(order) => order[k] = key /\ Len(new) = Len(order)
      /\ k = Len(order) + 1 => /\ \A i \in 1 .. Len(order) : order[i] # key
                               /\ Len(new) = Len(order) + 1
      /\ \A j \in 2 .. Len(new) :
           /\ Origin(k, j) \in 1 .. Len(order) /\ Origin(k, j) # k
           /\ new[j] = order[Origin(k, j)]
  BY <1>0 DEF FromPlace
<1>3. \A i \in 1 .. Len(order) : i # k => order[i] # key
  BY <1>1, <1>2 DEF Distinct
<1>4. \A i, j \in 2 .. Len(new) : /\ i < j => Origin(k, i) < Origin(k, j)
                                  /\ Origin(k, i) = Origin(k, j) => i = j
  <2> SUFFICES ASSUME NEW i \in 2 .. Len(new), NEW j \in 2 .. Len(new)
               PROVE  /\ i < j => Origin(k, i) < Origin(k, j)
                      /\ Origin(k, i) = Origin(k, j) => i = j
    OBVIOUS
  <2>1. i \in Int /\ j \in Int /\ k \in Int /\ Origin(k, i) # k /\ Origin(k, j) # k
    BY <1>1, <1>2
  <2> QED BY <2>1 DEF Origin
<1>5. \A j \in 2 .. Len(new) : new[j] # key
  BY <1>2, <1>3
<1>6. Distinct(new)
  <2> SUFFICES ASSUME NEW i \in 1 .. Len(new), NEW j \in 1 .. Len(new), new[i] = new[j]
               PROVE  i = j
    BY DEF Distinct
  <2>1. CASE i = 1 \/ j = 1
    BY <1>1, <1>5, <2>1
  <2>2. CASE i # 1 /\ j # 1
    <3>1. i \in 2 .. Len(new) /\ j \in 2 .. Len(new)
      BY <1>1, <2>2
    <3>2. Origin(k, i) = Origin(k, j)
      BY <1>2, <3>1 DEF Distinct
    <3> QED BY <1>4, <3>1, <3>2
  <2> QED BY <2>1, <2>2
<1>7. ToSet(new) = ToSet(order) \cup {key}
  <2>1. DOMAIN new = 1 .. Len(new) /\ DOMAIN order = 1 .. Len(order)
    BY <1>1, LenProperties
  <2>2. ASSUME NEW i \in 1 .. Len(new) PROVE new[i] \in ToSet(order) \cup {key}
    <3>1. CASE i = 1
      BY <1>1, <3>1
    <3>2. CASE i # 1
      <4>1. i \in 2 .. Len(new)
        BY <1>1, <3>2
      <4> QED BY <1>2, <2>1, <4>1 DEF ToSet
    <3> QED BY <3>1, <3>2
  <2>3. ASSUME NEW h \in 1 .. Len(order) PROVE order[h] \in ToSet(new)
    <3>1. CASE h = k
      <4>1. order[h] = key /\ 1 \in 1 .. Len(new)
        BY <1>1, <1>2, <3>1
      <4> QED BY <1>1, <2>1, <4>1 DEF ToSet
    <3>2. CASE h # k
      <4>1. PICK j : j = IF h < k THEN h + 1 ELSE h
        OBVIOUS
      <4>2. j \in 2 .. Len(new) /\ Origin(k, j) = h /\ j \in 1 .. Len(new)
        <5>1. k \in Int /\ h \in Int /\ Len(new) \in Int /\ Len(order) \in Int
          BY <1>1, <1>2
        <5>2. Len(new) = IF k <= Len(order) THEN Len(order) ELSE Len(order) + 1
          BY <1>1, <1>2
        <5>3. j \in 2 .. Len(new) /\ j \in 1 .. Len(new)
          <6>1. k \in 1 .. Len(order) + 1
            BY <1>2
          <6> QED BY <3>2, <4>1, <5>1, <5>2, <6>1
        <5>4. Origin(k, j) = h
          BY <3>2, <4>1, <5>1 DEF Origin
        <5> QED BY <5>3, <5>4
      <4>3. new[j] = order[h]
        BY <1>2, <4>2
      <4> QED BY <2>1, <4>2, <4>3 DEF ToSet
    <3> QED BY <3>1, <3>2
  <2>4. key \in ToSet(new)
    <3>1. 1 \in 1 .. Len(new)
      BY <1>1
    <3> QED BY <1>1, <2>1, <3>1 DEF ToSet
  <2> QED BY <2>1, <2>2, <2>3, <2>4 DEF ToSet
<1>8. Len(new) <= Len(order) + 1
  BY <1>1, <1>2
<1>9. key \in ToSet(order) => Len(new) = Len(order)
  <2>1. DOMAIN order = 1 .. Len(order)
    BY <1>1, LenProperties
  <2> QED BY <1>1, <1>2, <2>1 DEF ToSet
<1>10. ASSUME NEW i \in 2 .. Len(new), NEW j \in 2 .. Len(new), i < j
       PROVE  \E h, l \in 1 .. Len(order) : h < l /\ new[i] = order[h] /\ new[j] = order[l]
  <2>1. /\ Origin(k, i) \in 1 .. Len(order) /\ new[i] = order[Origin(k, i)]
        /\ Origin(k, j) \in 1 .. Len(order) /\ new[j] = order[Origin(k, j)]
    BY <1>2
  <2>2. Origin(k, i) < Origin(k, j)
    BY <1>4, <1>10
  <2> QED BY <2>1, <2>2
<1> QED BY <1>1, <1>6, <1>7, <1>8, <1>9, <1>10, Zenon DEF KeyInFront

LruOK(lru, K, cap) ==
    /\ lru = [of |-> lru.of, order |-> lru.order]
    /\ lru.order \in Seq(K) /\ Distinct(lru.order)
    /\ Keys(lru) = ToSet(lru.order) /\ Len(lru.order) <= cap

LEMMA SizeOfDistinct ==
    ASSUME NEW K, NEW order \in Seq(K), Distinct(order)
    PROVE  IsFiniteSet(ToSet(order)) /\ Cardinality(ToSet(order)) = Len(order)
<1>1. Len(order) \in Nat /\ DOMAIN order = 1 .. Len(order) /\ order \in [1 .. Len(order) -> K]
  BY LenProperties
<1> DEFINE n == Len(order)
           S == ToSet(order)
<1>2. S = {order[i] : i \in 1 .. n}
  BY <1>1 DEF ToSet
<1>3. order \in [1 .. n -> S]
  BY <1>1, <1>2
<1>4. order \in Bijection(1 .. n, S)
  BY <1>2, <1>3 DEF Distinct, Bijection, Injection, Surjection, IsInjective
<1>5. ExistsBijection(1 .. n, S)
  BY <1>4 DEF ExistsBijection
<1> HIDE DEF n, S
<1>6. n \in Nat
  BY <1>1 DEF n
<1>7. Cardinality(S) = n /\ IsFiniteSet(S)
  BY <1>5, <1>6, FS_CountingElements, FS_NatBijection
<1> QED BY <1>7 DEF n, S

LEMMA EmptyIsOK ==
    ASSUME NEW K, NEW cap \in Nat
    PROVE  LruOK(EmptyLru, K, cap) /\ Keys(EmptyLru) = {}
<1>1. EmptyLru.order = <<>> /\ EmptyLru.of = <<>> /\ Keys(EmptyLru) = {}
  BY DEF EmptyLru, Keys
<1>2. <<>> \in Seq(K) /\ Len(<<>>) = 0 /\ ToSet(<<>>) = {} /\ Distinct(<<>>)
  BY DEF ToSet, Distinct
<1>3. EmptyLru = [of |-> EmptyLru.of, order |-> EmptyLru.order]
  BY DEF EmptyLru
<1> QED BY <1>1, <1>2, <1>3 DEF LruOK

\* Who is in front of key in the list of a cache.
AheadOf(lru, key) ==
    {lru.order[i] : i \in {i \in 1 .. Len(lru.order) :
        \E j \in 1 .. Len(lru.order) : i < j /\ lru.order[j] = key}}

\* What a use leaves: the same values, and the key in front if it is there.
UsesKey(lru, key, after) ==
    /\ Keys(after) = Keys(lru) /\ \A k : Peek(after, k) = Peek(lru, k)
    /\ Holds(lru, key) =>
         /\ AheadOf(after, key) = {}
         /\ \A k : AheadOf(after, k) \subseteq AheadOf(lru, k) \cup {key}

LEMMA UsedOK ==
    ASSUME NEW K, NEW cap \in Nat, NEW lru, LruOK(lru, K, cap), NEW key \in K
    PROVE  LruOK(Used(lru, key), K, cap) /\ UsesKey(lru, key, Used(lru, key))
<1>1. CASE ~Holds(lru, key)
  BY <1>1 DEF Used, UsesKey
<1>2. CASE Holds(lru, key)
  <2> PICK order : order = lru.order
    OBVIOUS
  <2> PICK new : new = ToFront(order, key)
    OBVIOUS
  <2>1. order \in Seq(K) /\ Distinct(order) /\ Keys(lru) = ToSet(order) /\ Len(order) <= cap
    BY DEF LruOK
  <2>2. Used(lru, key) = [of |-> lru.of, order |-> new]
    BY <1>2 DEF Used
  <2>3. key \in ToSet(order)
    BY <1>2, <2>1 DEF Holds
  <2>0. new \in Seq(K) /\ KeyInFront(order, key, new)
    BY <2>1, ToFrontKeeps
  <2>4. /\ new \in Seq(K) /\ Distinct(new) /\ Len(new) \in Nat \ {0} /\ new[1] = key
        /\ ToSet(new) = ToSet(order) \cup {key} /\ Len(new) = Len(order)
    BY <2>0, <2>3, Zenon DEF KeyInFront
  <2>5. \A i, j \in 2 .. Len(new) : i < j =>
          \E h, k \in 1 .. Len(order) : h < k /\ new[i] = order[h] /\ new[j] = order[k]
    BY <2>0, Zenon DEF KeyInFront
  <2>6. LruOK(Used(lru, key), K, cap) /\ Keys(Used(lru, key)) = Keys(lru)
    <3>1. PICK after : after = Used(lru, key)
      OBVIOUS
    <3>2. /\ after = [of |-> after.of, order |-> after.order] /\ after.order = new
          /\ after.of = lru.of /\ Keys(after) = Keys(lru)
      BY <2>2, <3>1 DEF Keys
    <3>3. Keys(after) = ToSet(new) /\ Len(new) <= cap
      BY <2>1, <2>3, <2>4, <3>2
    <3>4. LruOK(after, K, cap)
      BY <2>4, <3>2, <3>3 DEF LruOK
    <3> QED BY <3>1, <3>2, <3>4
  <2>7. \A k : Peek(Used(lru, key), k) = Peek(lru, k)
    BY <2>2 DEF Peek
  <2> PICK after : after = Used(lru, key)
    OBVIOUS
  <2>8. after.order = new
    BY <2>2
  <2>9. AheadOf(after, key) = {}
    <3>1. \A j \in 1 .. Len(new) : new[j] = key => j = 1
      BY <2>4 DEF Distinct
    <3>2. 1 \in 1 .. Len(new)
      BY <2>4
    <3> QED BY <2>8, <3>1, <3>2 DEF AheadOf
  <2>10. ASSUME NEW k, NEW a \in AheadOf(after, k) PROVE a \in AheadOf(lru, k) \cup {key}
    <3>1. PICK i \in 1 .. Len(new), j \in 1 .. Len(new) : i < j /\ new[i] = a /\ new[j] = k
      BY <2>8 DEF AheadOf
    <3>2. CASE i = 1
      BY <2>4, <3>1, <3>2
    <3>3. CASE i # 1
      <4>1. i \in 2 .. Len(new) /\ j \in 2 .. Len(new)
        BY <2>4, <3>1, <3>3
      <4> PICK h \in 1 .. Len(order), l \in 1 .. Len(order) :
            h < l /\ new[i] = order[h] /\ new[j] = order[l]
        BY <2>5, <3>1, <4>1
      <4>2. order[h] = a /\ order[l] = k /\ h < l
        BY <3>1
      <4>3. a \in AheadOf(lru, k)
        BY <4>2 DEF AheadOf
      <4> QED BY <4>3
    <3> QED BY <3>2, <3>3
  <2>11. \A k : AheadOf(after, k) \subseteq AheadOf(lru, k) \cup {key}
    BY <2>10
  <2> QED BY <2>6, <2>7, <2>9, <2>11 DEF UsesKey
<1> QED BY <1>1, <1>2

\* What a put leaves: the key in front, and of the others at most the one used longest
\* ago gone, which all the others that stay were then in front of.
PutsKey(lru, key, value, cap, after) ==
    /\ Holds(after, key) /\ Peek(after, key) = value /\ AheadOf(after, key) = {}
    /\ Keys(after) \subseteq Keys(lru) \cup {key}
    /\ \A k \in Keys(after) : k # key => Peek(after, k) = Peek(lru, k)
    /\ \A k : AheadOf(after, k) \subseteq AheadOf(lru, k) \cup {key}
    /\ \A k \in Keys(lru) \ Keys(after) :
         /\ Keys(after) \subseteq AheadOf(lru, k) \cup {key}
         /\ IsFiniteSet(Keys(after)) /\ Cardinality(Keys(after)) = cap

\* The list of a cache after a put: as much of what ToFront makes of it as there is room for.
FittedIn(new, cap, kept) ==
    /\ Distinct(kept) /\ Len(kept) \in Nat \ {0}
    /\ Len(kept) = IF Len(new) > cap THEN cap ELSE Len(new)
    /\ \A i \in 1 .. Len(kept) : i \in 1 .. Len(new) /\ kept[i] = new[i]
    /\ ToSet(kept) \subseteq ToSet(new) /\ ToSet(kept) = {kept[i] : i \in 1 .. Len(kept)}

LEMMA KeptIs ==
    ASSUME NEW K, NEW new \in Seq(K), Distinct(new), Len(new) \in Nat \ {0},
           NEW cap \in Nat \ {0},
           NEW kept, kept = IF Len(new) > cap THEN Front(new) ELSE new,
           Len(new) <= cap + 1
    PROVE  kept \in Seq(K) /\ FittedIn(new, cap, kept)
<1>1. CASE ~(Len(new) > cap)
  <2>1. kept = new /\ DOMAIN kept = 1 .. Len(kept)
    BY <1>1, LenProperties
  <2> QED BY <1>1, <2>1 DEF ToSet, FittedIn
<1>2. CASE Len(new) > cap
  <2>1. kept = SubSeq(new, 1, cap) /\ Len(new) = cap + 1
    BY <1>2 DEF Front
  <2>2. /\ kept \in Seq(K) /\ Len(kept) = cap
        /\ \A i \in 1 .. cap : kept[i] = new[i]
    BY <1>2, <2>1, SubSeqProperties
  <2>3. Distinct(kept)
    BY <2>1, <2>2 DEF Distinct
  <2>4. DOMAIN kept = 1 .. cap /\ DOMAIN new = 1 .. cap + 1
    BY <2>1, <2>2, LenProperties
  <2>5. ToSet(kept) \subseteq ToSet(new) /\ ToSet(kept) = {kept[i] : i \in 1 .. cap}
    BY <2>2, <2>4 DEF ToSet
  <2> QED BY <1>2, <2>1, <2>2, <2>3, <2>5 DEF FittedIn
<1> QED BY <1>1, <1>2

LEMMA StoredOK ==
    ASSUME NEW K, NEW cap \in Nat \ {0}, NEW lru, LruOK(lru, K, cap), NEW key \in K,
           NEW value, NEW after, after = Stored(lru, key, value, cap)
    PROVE  LruOK(after, K, cap) /\ PutsKey(lru, key, value, cap, after)
<1> PICK order : order = lru.order
  OBVIOUS
<1> PICK new : new = ToFront(order, key)
  OBVIOUS
<1> PICK kept : kept = IF Len(new) > cap THEN Front(new) ELSE new
  OBVIOUS
<1>1. order \in Seq(K) /\ Distinct(order) /\ Keys(lru) = ToSet(order) /\ Len(order) <= cap
  BY DEF LruOK
<1>2. new \in Seq(K) /\ KeyInFront(order, key, new)
  BY <1>1, ToFrontKeeps
<1>3. /\ Distinct(new) /\ Len(new) \in Nat \ {0} /\ new[1] = key
      /\ ToSet(new) = ToSet(order) \cup {key}
      /\ Len(order) \in Nat /\ Len(new) <= Len(order) + 1
      /\ key \in ToSet(order) => Len(new) = Len(order)
  BY <1>2, Zenon DEF KeyInFront
<1>4. \A i, j \in 2 .. Len(new) : i < j =>
        \E h, k \in 1 .. Len(order) : h < k /\ new[i] = order[h] /\ new[j] = order[k]
  BY <1>2, Zenon DEF KeyInFront
<1>5. /\ kept \in Seq(K) /\ Distinct(kept) /\ Len(kept) \in Nat \ {0}
      /\ Len(kept) = IF Len(new) > cap THEN cap ELSE Len(new)
      /\ \A i \in 1 .. Len(kept) : i \in 1 .. Len(new) /\ kept[i] = new[i]
      /\ ToSet(kept) \subseteq ToSet(new) /\ ToSet(kept) = {kept[i] : i \in 1 .. Len(kept)}
  <2>1. Len(new) <= cap + 1
    BY <1>1, <1>3
  <2>2. kept \in Seq(K) /\ FittedIn(new, cap, kept)
    BY <1>2, <1>3, <2>1, KeptIs
  <2> QED BY <2>2, Zenon DEF FittedIn
<1>6. after = [of |-> [k \in (Keys(lru) \cup {key}) \cap ToSet(kept) |->
                        IF k = key THEN value ELSE lru.of[k]], order |-> kept]
  BY DEF Stored
<1>7. Keys(after) = ToSet(kept) /\ after.order = kept
  <2>1. Keys(after) = (Keys(lru) \cup {key}) \cap ToSet(kept)
    BY <1>6 DEF Keys
  <2>2. ToSet(kept) \subseteq Keys(lru) \cup {key}
    BY <1>1, <1>3, <1>5
  <2>3. Keys(after) = ToSet(kept)
    BY <2>1, <2>2
  <2> QED BY <1>6, <2>3
<1>8. LruOK(after, K, cap)
  <2>1. after = [of |-> after.of, order |-> after.order]
    BY <1>6
  <2>2. Len(kept) <= cap
    BY <1>5
  <2> QED BY <1>5, <1>7, <2>1, <2>2 DEF LruOK
<1>9. Holds(after, key) /\ Peek(after, key) = value
  <2>1. 1 \in 1 .. Len(kept) /\ kept[1] = key
    BY <1>3, <1>5
  <2>2. key \in ToSet(kept)
    BY <1>5, <2>1
  <2> QED BY <1>6, <1>7, <2>2 DEF Holds, Peek
<1>10. /\ Keys(after) \subseteq Keys(lru) \cup {key}
       /\ \A k \in Keys(after) : k # key => Peek(after, k) = Peek(lru, k)
  <2>1. Keys(after) \subseteq Keys(lru) \cup {key}
    BY <1>1, <1>3, <1>5, <1>7
  <2>2. ASSUME NEW k \in Keys(after), k # key PROVE Peek(after, k) = Peek(lru, k)
    <3>1. k \in (Keys(lru) \cup {key}) \cap ToSet(kept)
      BY <1>7, <2>1
    <3> QED BY <1>6, <2>2, <3>1 DEF Peek
  <2> QED BY <2>1, <2>2
<1>11. AheadOf(after, key) = {}
  <2>1. \A j \in 1 .. Len(kept) : kept[j] = key => j = 1
    BY <1>3, <1>5 DEF Distinct
  <2> QED BY <1>5, <1>7, <2>1 DEF AheadOf
<1>12. ASSUME NEW k, NEW a \in AheadOf(after, k) PROVE a \in AheadOf(lru, k) \cup {key}
  <2>1. PICK i \in 1 .. Len(kept), j \in 1 .. Len(kept) : i < j /\ kept[i] = a /\ kept[j] = k
    BY <1>7 DEF AheadOf
  <2>2. i \in 1 .. Len(new) /\ j \in 1 .. Len(new) /\ new[i] = a /\ new[j] = k
    BY <1>5, <2>1
  <2>3. CASE i = 1
    BY <1>3, <2>2, <2>3
  <2>4. CASE i # 1
    <3>1. i \in 2 .. Len(new) /\ j \in 2 .. Len(new)
      BY <1>3, <2>1, <2>2, <2>4
    <3> PICK h \in 1 .. Len(order), l \in 1 .. Len(order) :
          h < l /\ new[i] = order[h] /\ new[j] = order[l]
      BY <1>4, <2>1, <3>1, ZenonT(60)
    <3>2. order[h] = a /\ order[l] = k /\ h < l
      BY <2>2
    <3>3. a \in AheadOf(lru, k)
      BY <3>2 DEF AheadOf
    <3> QED BY <3>3
  <2> QED BY <2>3, <2>4
<1>13. ASSUME NEW k \in Keys(lru) \ Keys(after)
       PROVE  /\ Keys(after) \subseteq AheadOf(lru, k) \cup {key}
              /\ IsFiniteSet(Keys(after)) /\ Cardinality(Keys(after)) = cap
  <2>1. DOMAIN new = 1 .. Len(new)
    BY <1>2, LenProperties
  <2>2. PICK j \in 1 .. Len(new) : new[j] = k
    <3>1. k \in ToSet(new)
      BY <1>1, <1>3, <1>13
    <3> QED BY <2>1, <3>1 DEF ToSet
  <2>3. j \notin 1 .. Len(kept)
    BY <1>5, <1>7, <1>13, <2>2
  <2>4. Len(new) > cap /\ Len(kept) = cap
    BY <1>5, <2>3
  <2>5. ASSUME NEW a \in Keys(after) PROVE a \in AheadOf(lru, k) \cup {key}
    <3>1. PICK i \in 1 .. Len(kept) : kept[i] = a
      BY <1>5, <1>7
    <3>2. i \in 1 .. Len(new) /\ new[i] = a /\ i < j
      BY <1>5, <2>3, <3>1
    <3>3. CASE i = 1
      BY <1>3, <3>2, <3>3
    <3>4. CASE i # 1
      <4>1. i \in 2 .. Len(new) /\ j \in 2 .. Len(new)
        BY <1>3, <3>2, <3>4
      <4> PICK h \in 1 .. Len(order), l \in 1 .. Len(order) :
            h < l /\ new[i] = order[h] /\ new[j] = order[l]
        BY <1>4, <3>2, <4>1
      <4>2. order[h] = a /\ order[l] = k /\ h < l
        BY <2>2, <3>2
      <4>3. a \in AheadOf(lru, k)
        BY <4>2 DEF AheadOf
      <4> QED BY <4>3
    <3> QED BY <3>3, <3>4
  <2>6. IsFiniteSet(Keys(after)) /\ Cardinality(Keys(after)) = cap
    BY <1>5, <1>7, <2>4, SizeOfDistinct
  <2> QED BY <2>5, <2>6
<1>14. \A k : AheadOf(after, k) \subseteq AheadOf(lru, k) \cup {key}
  BY <1>12
<1> QED BY <1>8, <1>9, <1>10, <1>11, <1>13, <1>14 DEF PutsKey
-----------------------------------------------------------------------------
(* What is left of a list without some of its places.                      *)

\* t has its elements from different places of s, none of them from k.
PartWithout(t, s, k) ==
    \E p \in [1 .. Len(t) -> 1 .. Len(s)] :
        \A i, j \in 1 .. Len(t) :
            t[i] = s[p[i]] /\ p[i] # k /\ (p[i] = p[j] => i = j)

LEMMA AmongIsPart ==
    ASSUME NEW K, NEW s \in Seq(K), NEW S
    PROVE  PartWithout(Among(s, S), s, 0)
<1> PICK t : t = Among(s, S)
  OBVIOUS
<1>1. PICK p : Picked(p, t, s, S, Len(s))
  BY AmongIs
<1>2. /\ p \in [1 .. Len(t) -> 1 .. Len(s)]
      /\ \A i, j \in 1 .. Len(t) : i < j => p[i] < p[j]
      /\ \A i \in 1 .. Len(t) : t[i] = s[p[i]]
  BY <1>1 DEF Picked
<1>3. ASSUME NEW i \in 1 .. Len(t), NEW j \in 1 .. Len(t)
      PROVE  t[i] = s[p[i]] /\ p[i] # 0 /\ (p[i] = p[j] => i = j)
  <2>1. p[i] \in 1 .. Len(s) /\ p[j] \in 1 .. Len(s) /\ t[i] = s[p[i]]
    BY <1>2
  <2>2. (i < j => p[i] < p[j]) /\ (j < i => p[j] < p[i])
    BY <1>2
  <2> QED BY <2>1, <2>2
<1> QED BY <1>2, <1>3 DEF PartWithout

LEMMA TailIsPart ==
    ASSUME NEW K, NEW s \in Seq(K), s # <<>>
    PROVE  /\ Tail(s) \in Seq(K) /\ Len(Tail(s)) = Len(s) - 1 /\ PartWithout(Tail(s), s, 1)
           /\ s[1] \in K /\ Len(s) \in Nat \ {0}
<1>1. /\ Tail(s) \in Seq(K) /\ Len(Tail(s)) = Len(s) - 1 /\ Len(s) \in Nat \ {0}
      /\ \A i \in 1 .. Len(s) - 1 : i + 1 \in 1 .. Len(s) /\ Tail(s)[i] = s[i + 1]
  BY TailKeeps
<1> PICK t : t = Tail(s)
  OBVIOUS
<1> PICK p : p = [i \in 1 .. Len(t) |-> i + 1]
  OBVIOUS
<1>2. p \in [1 .. Len(t) -> 1 .. Len(s)]
  BY <1>1
<1>3. ASSUME NEW i \in 1 .. Len(t), NEW j \in 1 .. Len(t)
      PROVE  t[i] = s[p[i]] /\ p[i] # 1 /\ (p[i] = p[j] => i = j)
  BY <1>1
<1>4. PartWithout(t, s, 1)
  BY <1>2, <1>3 DEF PartWithout
<1>5. s[1] \in K
  BY <1>1, ElementOfSeq
<1> QED BY <1>1, <1>4, <1>5

LEMMA RemovedIsPart ==
    ASSUME NEW K, NEW s \in Seq(K), NEW k \in 1 .. Len(s)
    PROVE  /\ RemoveAt(s, k) \in Seq(K) /\ Len(RemoveAt(s, k)) = Len(s) - 1
           /\ PartWithout(RemoveAt(s, k), s, k)
<1>1. Len(s) \in Nat /\ \A i \in 1 .. Len(s) : s[i] \in K
  BY LenProperties, ElementOfSeq
<1> PICK before : before = SubSeq(s, 1, k - 1)
  OBVIOUS
<1> PICK after : after = SubSeq(s, k + 1, Len(s))
  OBVIOUS
<1>2. /\ before \in Seq(K) /\ Len(before) = k - 1
      /\ \A i \in 1 .. k - 1 : before[i] = s[i]
  BY <1>1, SubSeqProperties
<1>3. /\ after \in Seq(K) /\ Len(after) = Len(s) - k
      /\ \A i \in 1 .. Len(s) - k : after[i] = s[k + i]
  BY <1>1, SubSeqProperties
<1> PICK t : t = RemoveAt(s, k)
  OBVIOUS
<1>4. t = before \o after
  BY DEF RemoveAt
<1>5. t \in Seq(K) /\ Cut(s, Len(s), k, t)
  BY <1>1, <1>2, <1>3, <1>4, Spliced, ZenonT(60)
<1>6. /\ Len(t) = Len(s) - 1
      /\ \A i \in 1 .. k - 1 : t[i] = s[i]
      /\ \A i \in k .. Len(s) - 1 : t[i] = s[i + 1]
  BY <1>5 DEF Cut
<1> PICK p : p = [i \in 1 .. Len(t) |-> IF i < k THEN i ELSE i + 1]
  OBVIOUS
<1>7. p \in [1 .. Len(t) -> 1 .. Len(s)]
  BY <1>1, <1>6
<1>8. ASSUME NEW i \in 1 .. Len(t), NEW j \in 1 .. Len(t)
      PROVE  t[i] = s[p[i]] /\ p[i] # k /\ (p[i] = p[j] => i = j)
  <2>1. p[i] = (IF i < k THEN i ELSE i + 1) /\ p[j] = (IF j < k THEN j ELSE j + 1)
    OBVIOUS
  <2>2. p[i] # k /\ (p[i] = p[j] => i = j)
    BY <1>1, <1>6, <2>1
  <2>3. CASE i < k
    <3>1. i \in 1 .. k - 1
      BY <2>3
    <3> QED BY <1>6, <2>1, <2>2, <2>3, <3>1
  <2>4. CASE ~(i < k)
    <3>1. i \in k .. Len(s) - 1
      BY <1>1, <1>6, <2>4
    <3> QED BY <1>6, <2>1, <2>2, <2>4, <3>1
  <2> QED BY <2>3, <2>4
<1>9. PartWithout(t, s, k)
  BY <1>7, <1>8 DEF PartWithout
<1> QED BY <1>5, <1>6, <1>9

\* What is left without place k is all that stands elsewhere.
LEMMA RemovedRest ==
    ASSUME NEW K, NEW s \in Seq(K), NEW k \in 1 .. Len(s), NEW i \in 1 .. Len(s), i # k
    PROVE  s[i] \in ToSet(RemoveAt(s, k))
<1>1. Len(s) \in Nat /\ \A j \in 1 .. Len(s) : s[j] \in K
  BY LenProperties, ElementOfSeq
<1> PICK before : before = SubSeq(s, 1, k - 1)
  OBVIOUS
<1> PICK after : after = SubSeq(s, k + 1, Len(s))
  OBVIOUS
<1>2. /\ before \in Seq(K) /\ Len(before) = k - 1
      /\ \A j \in 1 .. k - 1 : before[j] = s[j]
  BY <1>1, SubSeqProperties
<1>3. /\ after \in Seq(K) /\ Len(after) = Len(s) - k
      /\ \A j \in 1 .. Len(s) - k : after[j] = s[k + j]
  BY <1>1, SubSeqProperties
<1> PICK t : t = RemoveAt(s, k)
  OBVIOUS
<1>4. t = before \o after
  BY DEF RemoveAt
<1>5. t \in Seq(K) /\ Cut(s, Len(s), k, t)
  BY <1>1, <1>2, <1>3, <1>4, Spliced, ZenonT(60)
<1>6. /\ Len(t) = Len(s) - 1 /\ DOMAIN t = 1 .. Len(t)
      /\ \A j \in 1 .. k - 1 : t[j] = s[j]
      /\ \A j \in k .. Len(s) - 1 : t[j] = s[j + 1]
  BY <1>5, LenProperties DEF Cut
<1>7. CASE i < k
  <2>1. i \in 1 .. k - 1 /\ i \in 1 .. Len(t)
    BY <1>1, <1>6, <1>7
  <2>2. t[i] = s[i]
    BY <1>6, <2>1
  <2> QED BY <1>6, <2>1, <2>2 DEF ToSet
<1>8. CASE ~(i < k)
  <2>1. i - 1 \in k .. Len(s) - 1 /\ i - 1 \in 1 .. Len(t) /\ (i - 1) + 1 = i
    BY <1>1, <1>6, <1>8
  <2>2. t[i - 1] = s[i]
    BY <1>6, <2>1
  <2> QED BY <1>6, <2>1, <2>2 DEF ToSet
<1> QED BY <1>7, <1>8

-----------------------------------------------------------------------------
(* Sums over finite sets (SumFunctionOnSet): what a fold that takes the    *)
(* elements one by one, each time another one, adds up to.                 *)

First(s) == CHOOSE x \in s : TRUE

Total(f, S) == SumFunctionOnSet(f, S)

\* total gives the sum of f over each set of the family S.
SumsUp(total, f, S) ==
    total = [s \in S |-> IF s = {} THEN 0 ELSE f[First(s)] + total[s \ {First(s)}]]

UpTo(S, n) == {s \in SUBSET S : Cardinality(s) <= n}

LEMMA FirstIn == \A s : s # {} => First(s) \in s
BY DEF First

LEMMA SmallerWithout ==
    ASSUME NEW S, IsFiniteSet(S), NEW s \in SUBSET S, NEW x \in s
    PROVE  /\ s \ {x} \in SUBSET S /\ Cardinality(s) \in Nat \ {0}
           /\ Cardinality(s \ {x}) = Cardinality(s) - 1 /\ IsFiniteSet(s)
<1>1. IsFiniteSet(s)
  BY FS_Subset
<1>2. Cardinality(s) \in Nat /\ Cardinality(s) # 0
  BY <1>1, FS_CardinalityType, FS_EmptySet
<1>3. Cardinality(s \ {x}) = Cardinality(s) - 1
  BY <1>1, FS_RemoveElement
<1> QED BY <1>1, <1>2, <1>3

LEMMA SumsExist ==
    ASSUME NEW S, IsFiniteSet(S), NEW f
    PROVE  \E total : SumsUp(total, f, SUBSET S) /\ Total(f, S) = total[S]
<1> DEFINE T == {n \in Nat : \E total : SumsUp(total, f, UpTo(S, n))}
<1>1. 0 \in T
  <2> DEFINE total == [s \in UpTo(S, 0) |-> 0]
  <2>1. ASSUME NEW s \in UpTo(S, 0) PROVE s = {}
    <3>1. IsFiniteSet(s) /\ Cardinality(s) \in Nat
      BY FS_Subset, FS_CardinalityType DEF UpTo
    <3>2. Cardinality(s) = 0
      BY <3>1 DEF UpTo
    <3> QED BY <3>1, <3>2, FS_EmptySet
  <2>2. SumsUp(total, f, UpTo(S, 0))
    BY <2>1 DEF SumsUp
  <2> QED BY <2>2
<1>2. ASSUME NEW n \in 0 .. Cardinality(S), n \in T PROVE n + 1 \in T
  <2>1. PICK total : SumsUp(total, f, UpTo(S, n))
    BY <1>2
  <2> DEFINE more == [s \in UpTo(S, n + 1) |->
                        IF s = {} THEN 0 ELSE f[First(s)] + total[s \ {First(s)}]]
  <2>2. ASSUME NEW s \in UpTo(S, n) PROVE s \in UpTo(S, n + 1) /\ more[s] = total[s]
    <3>1. s \in UpTo(S, n + 1)
      <4>1. Cardinality(s) \in Nat /\ n \in Nat
        BY FS_Subset, FS_CardinalityType DEF UpTo
      <4> QED BY <4>1 DEF UpTo
    <3>2. more[s] = IF s = {} THEN 0 ELSE f[First(s)] + total[s \ {First(s)}]
      BY <3>1
    <3>3. total[s] = IF s = {} THEN 0 ELSE f[First(s)] + total[s \ {First(s)}]
      BY <2>1 DEF SumsUp
    <3> QED BY <3>1, <3>2, <3>3
  <2>3. ASSUME NEW s \in UpTo(S, n + 1), s # {} PROVE s \ {First(s)} \in UpTo(S, n)
    <3>1. First(s) \in s /\ s \in SUBSET S /\ Cardinality(s) <= n + 1 /\ n \in Nat
      BY <2>3, FirstIn DEF UpTo
    <3>2. /\ s \ {First(s)} \in SUBSET S /\ Cardinality(s) \in Nat
          /\ Cardinality(s \ {First(s)}) = Cardinality(s) - 1
      BY <3>1, SmallerWithout
    <3> QED BY <3>1, <3>2 DEF UpTo
  <2>4. more = [s \in UpTo(S, n + 1) |-> more[s]]
    OBVIOUS
  <2>5. ASSUME NEW s \in UpTo(S, n + 1)
        PROVE  more[s] = IF s = {} THEN 0 ELSE f[First(s)] + more[s \ {First(s)}]
    BY <2>2, <2>3
  <2> HIDE DEF more
  <2>6. SumsUp(more, f, UpTo(S, n + 1))
    BY <2>4, <2>5 DEF SumsUp
  <2> QED BY <2>6
<1> HIDE DEF T
<1>3. Cardinality(S) \in Nat
  BY FS_CardinalityType
<1>4. Cardinality(S) \in T
  BY <1>1, <1>2, <1>3, EveryNumber
<1>5. UpTo(S, Cardinality(S)) = SUBSET S
  BY FS_Subset DEF UpTo
<1>6. \E total : SumsUp(total, f, SUBSET S)
  BY <1>4, <1>5 DEF T
<1> QED BY <1>6, Zenon DEF SumsUp, First, Total, SumFunctionOnSet, FoldFunctionOnSet, MapThenFoldSet

\* Two sums agree on the sets on which what they add agrees.
AgreeOn(f, g, V) == \A x \in V : f[x] = g[x]

LEMMA SumsAgree ==
    ASSUME NEW S, IsFiniteSet(S), NEW R, NEW f, NEW g, NEW sum, NEW total,
           SumsUp(sum, f, SUBSET S), SumsUp(total, g, SUBSET R),
           NEW V, V \in SUBSET S, V \in SUBSET R, AgreeOn(f, g, V)
    PROVE  sum[V] = total[V]
<1> DEFINE T == {n \in Nat : \A s \in SUBSET V : Cardinality(s) <= n => sum[s] = total[s]}
<1>0. IsFiniteSet(V) /\ Cardinality(V) \in Nat
  BY FS_Subset, FS_CardinalityType
<1>1. ASSUME NEW s \in SUBSET V
      PROVE  /\ sum[s] = IF s = {} THEN 0 ELSE f[First(s)] + sum[s \ {First(s)}]
             /\ total[s] = IF s = {} THEN 0 ELSE g[First(s)] + total[s \ {First(s)}]
  <2>1. s \in SUBSET S /\ s \in SUBSET R
    OBVIOUS
  <2> QED BY <2>1 DEF SumsUp
<1>2. 0 \in T
  <2> SUFFICES ASSUME NEW s \in SUBSET V, Cardinality(s) <= 0 PROVE sum[s] = total[s]
    OBVIOUS
  <2>1. IsFiniteSet(s) /\ Cardinality(s) \in Nat
    BY <1>0, FS_Subset, FS_CardinalityType
  <2>2. s = {}
    BY <2>1, FS_EmptySet
  <2> QED BY <1>1, <2>2
<1>3. ASSUME NEW n \in 0 .. Cardinality(V), n \in T PROVE n + 1 \in T
  <2> SUFFICES ASSUME NEW s \in SUBSET V, Cardinality(s) <= n + 1 PROVE sum[s] = total[s]
    BY <1>0
  <2>1. CASE s = {}
    BY <1>1, <2>1
  <2>2. CASE s # {}
    <3> PICK x : x = First(s)
      OBVIOUS
    <3>1. x \in s /\ x \in V
      BY <2>2, FirstIn
    <3>2. /\ s \ {x} \in SUBSET V /\ Cardinality(s) \in Nat
          /\ Cardinality(s \ {x}) = Cardinality(s) - 1
      BY <1>0, <3>1, SmallerWithout
    <3>3. n \in Nat
      BY <1>0
    <3>4. sum[s \ {x}] = total[s \ {x}]
      BY <1>3, <3>2, <3>3
    <3>5. sum[s] = f[x] + sum[s \ {x}] /\ total[s] = g[x] + total[s \ {x}]
      BY <1>1, <2>2
    <3>6. f[x] = g[x]
      BY <3>1 DEF AgreeOn
    <3> QED BY <3>4, <3>5, <3>6
  <2> QED BY <2>1, <2>2
<1> HIDE DEF T
<1>4. Cardinality(V) \in T
  BY <1>0, <1>2, <1>3, EveryNumber
<1> QED BY <1>0, <1>4 DEF T

\* A sum of elements of D is in D, if D has zero and the sums of its elements.
LEMMA SumsStay ==
    ASSUME NEW S, IsFiniteSet(S), NEW f, NEW sum, SumsUp(sum, f, SUBSET S),
           NEW D, 0 \in D, \A a, b \in D : a + b \in D, \A x \in S : f[x] \in D,
           NEW V \in SUBSET S
    PROVE  sum[V] \in D
<1> DEFINE T == {n \in Nat : \A s \in SUBSET S : Cardinality(s) <= n => sum[s] \in D}
<1>0. Cardinality(S) \in Nat
  BY FS_CardinalityType
<1>1. ASSUME NEW s \in SUBSET S
      PROVE  sum[s] = IF s = {} THEN 0 ELSE f[First(s)] + sum[s \ {First(s)}]
  BY DEF SumsUp
<1>2. 0 \in T
  <2> SUFFICES ASSUME NEW s \in SUBSET S, Cardinality(s) <= 0 PROVE sum[s] \in D
    OBVIOUS
  <2>1. IsFiniteSet(s) /\ Cardinality(s) \in Nat
    BY FS_Subset, FS_CardinalityType
  <2>2. s = {}
    BY <2>1, FS_EmptySet
  <2> QED BY <1>1, <2>2
<1>3. ASSUME NEW n \in 0 .. Cardinality(S), n \in T PROVE n + 1 \in T
  <2> SUFFICES ASSUME NEW s \in SUBSET S, Cardinality(s) <= n + 1 PROVE sum[s] \in D
    BY <1>0
  <2>1. CASE s = {}
    BY <1>1, <2>1
  <2>2. CASE s # {}
    <3> PICK x : x = First(s)
      OBVIOUS
    <3>1. x \in s /\ x \in S
      BY <2>2, FirstIn
    <3>2. /\ s \ {x} \in SUBSET S /\ Cardinality(s) \in Nat
          /\ Cardinality(s \ {x}) = Cardinality(s) - 1
      BY <3>1, SmallerWithout
    <3>3. n \in Nat
      BY <1>0
    <3>4. sum[s \ {x}] \in D /\ f[x] \in D
      BY <1>3, <3>1, <3>2, <3>3
    <3>5. sum[s] = f[x] + sum[s \ {x}]
      BY <1>1, <2>2
    <3> QED BY <3>4, <3>5
  <2> QED BY <2>1, <2>2
<1> HIDE DEF T
<1>4. Cardinality(S) \in T
  BY <1>0, <1>2, <1>3, EveryNumber
<1> QED BY <1>4, FS_Subset DEF T

\* It does not matter which element is taken first.
LEMMA AnyFirst ==
    ASSUME NEW S, IsFiniteSet(S), NEW f, NEW sum, SumsUp(sum, f, SUBSET S),
           \A x \in S : f[x] \in Int, NEW V \in SUBSET S, NEW z \in V
    PROVE  sum[V] = f[z] + sum[V \ {z}]
<1> DEFINE T == {n \in Nat : \A s \in SUBSET S : Cardinality(s) <= n =>
                                \A x \in s : sum[s] = f[x] + sum[s \ {x}]}
<1>0. Cardinality(S) \in Nat
  BY FS_CardinalityType
<1>1. ASSUME NEW s \in SUBSET S
      PROVE  sum[s] = IF s = {} THEN 0 ELSE f[First(s)] + sum[s \ {First(s)}]
  BY DEF SumsUp
<1>2. ASSUME NEW s \in SUBSET S PROVE sum[s] \in Int
  <2>1. 0 \in Int /\ \A a, b \in Int : a + b \in Int
    OBVIOUS
  <2> QED BY <2>1, SumsStay
<1>3. 0 \in T
  <2> SUFFICES ASSUME NEW s \in SUBSET S, Cardinality(s) <= 0, NEW x \in s
               PROVE  sum[s] = f[x] + sum[s \ {x}]
    OBVIOUS
  <2>1. IsFiniteSet(s) /\ Cardinality(s) \in Nat
    BY FS_Subset, FS_CardinalityType
  <2>2. s = {}
    BY <2>1, FS_EmptySet
  <2> QED BY <2>2
<1>4. ASSUME NEW n \in 0 .. Cardinality(S), n \in T PROVE n + 1 \in T
  <2> SUFFICES ASSUME NEW s \in SUBSET S, Cardinality(s) <= n + 1, NEW x \in s
               PROVE  sum[s] = f[x] + sum[s \ {x}]
    BY <1>0
  <2> PICK y : y = First(s)
    OBVIOUS
  <2>1. y \in s /\ sum[s] = f[y] + sum[s \ {y}]
    BY <1>1, FirstIn
  <2>2. CASE x = y
    BY <2>1, <2>2
  <2>3. CASE x # y
    <3> PICK u : u = s \ {y}
      OBVIOUS
    <3> PICK v : v = s \ {x}
      OBVIOUS
    <3>1. /\ u \in SUBSET S /\ Cardinality(u) = Cardinality(s) - 1
          /\ v \in SUBSET S /\ Cardinality(v) = Cardinality(s) - 1
          /\ Cardinality(s) \in Nat /\ n \in Nat
      BY <1>0, <2>1, SmallerWithout, SMTT(60)
    <3>2. Cardinality(u) <= n /\ Cardinality(v) <= n
      BY <3>1
    <3>3. x \in u /\ y \in v /\ u \ {x} = v \ {y} /\ u \ {x} \in SUBSET S
      BY <2>1, <2>3, <3>1
    <3>4. sum[u] = f[x] + sum[u \ {x}] /\ sum[v] = f[y] + sum[v \ {y}]
      BY <1>4, <3>1, <3>2, <3>3
    <3>5. f[x] \in Int /\ f[y] \in Int /\ sum[u \ {x}] \in Int
      BY <1>2, <2>1, <3>3
    <3>6. sum[s] = f[y] + sum[u]
      BY <2>1
    <3>7. sum[v \ {y}] = sum[u \ {x}]
      BY <3>3
    <3>8. sum[s] = f[x] + sum[v]
      BY <3>4, <3>5, <3>6, <3>7
    <3> QED BY <3>8
  <2> QED BY <2>2, <2>3
<1> HIDE DEF T
<1>5. Cardinality(S) \in T
  BY <1>0, <1>3, <1>4, EveryNumber
<1> QED BY <1>5, FS_Subset DEF T

LEMMA TotalOfNone == \A f : Total(f, {}) = 0
<1> TAKE f
<1>1. IsFiniteSet({})
  BY FS_EmptySet
<1>2. PICK total : SumsUp(total, f, SUBSET {}) /\ Total(f, {}) = total[{}]
  BY <1>1, SumsExist
<1> QED BY <1>2 DEF SumsUp

LEMMA TotalsAgree ==
    ASSUME NEW S, IsFiniteSet(S), NEW f, NEW g, AgreeOn(f, g, S)
    PROVE  Total(f, S) = Total(g, S)
<1>1. PICK sum : SumsUp(sum, f, SUBSET S) /\ Total(f, S) = sum[S]
  BY SumsExist
<1>2. PICK total : SumsUp(total, g, SUBSET S) /\ Total(g, S) = total[S]
  BY SumsExist
<1>3. sum[S] = total[S]
  BY <1>1, <1>2, SumsAgree
<1> QED BY <1>1, <1>2, <1>3

LEMMA TotalIn ==
    ASSUME NEW S, IsFiniteSet(S), NEW f, NEW D, 0 \in D, \A a, b \in D : a + b \in D,
           \A x \in S : f[x] \in D
    PROVE  Total(f, S) \in D
<1>1. PICK sum : SumsUp(sum, f, SUBSET S) /\ Total(f, S) = sum[S]
  BY SumsExist
<1>2. sum[S] \in D
  BY <1>1, SumsStay
<1> QED BY <1>1, <1>2

LEMMA TotalWith ==
    ASSUME NEW S, IsFiniteSet(S), NEW f, \A x \in S : f[x] \in Int, NEW z \in S
    PROVE  Total(f, S) = f[z] + Total(f, S \ {z})
<1>5. PICK R : R = S \ {z}
  OBVIOUS
<1>0. IsFiniteSet(R) /\ R \in SUBSET S
  BY <1>5, FS_RemoveElement
<1>1. PICK sum : SumsUp(sum, f, SUBSET S) /\ Total(f, S) = sum[S]
  BY SumsExist
<1>2. PICK total : SumsUp(total, f, SUBSET R) /\ Total(f, R) = total[R]
  BY <1>0, SumsExist
<1>3. sum[S] = f[z] + sum[R]
  BY <1>1, <1>5, AnyFirst
<1>4. sum[R] = total[R]
  <2>1. SumsUp(sum, f, SUBSET S) /\ SumsUp(total, f, SUBSET R)
    BY <1>1, <1>2
  <2>2. R \in SUBSET R /\ AgreeOn(f, f, R)
    BY DEF AgreeOn
  <2> QED BY <1>0, <2>1, <2>2, SumsAgree, SMTT(60)
<1> QED BY <1>1, <1>2, <1>3, <1>4, <1>5


-----------------------------------------------------------------------------
(* Sequences built element by element.                                     *)

LEMMA AppendIsLast ==
    ASSUME NEW K, NEW s \in Seq(K), NEW n \in 0 .. Len(s) - 1
    PROVE  SubSeq(s, 1, n + 1) = Append(SubSeq(s, 1, n), s[n + 1])
<1>1. Len(s) \in Nat /\ n \in Nat /\ n + 1 \in 1 .. Len(s) /\ s[n + 1] \in K
  BY LenProperties, ElementOfSeq
<1> PICK t : t = SubSeq(s, 1, n)
  OBVIOUS
<1> PICK u : u = SubSeq(s, 1, n + 1)
  OBVIOUS
<1>2. t \in Seq(K) /\ Len(t) = n /\ \A i \in 1 .. n : t[i] = s[i]
  BY <1>1, SubSeqProperties
<1>3. u \in Seq(K) /\ Len(u) = n + 1 /\ \A i \in 1 .. n + 1 : u[i] = s[i]
  BY <1>1, SubSeqProperties
<1>4. PICK v : v = Append(t, s[n + 1])
  OBVIOUS
<1>5. /\ v \in Seq(K) /\ Len(v) = n + 1 /\ v[n + 1] = s[n + 1]
      /\ \A i \in 1 .. n : v[i] = t[i]
  BY <1>1, <1>2, <1>4, AppendProperties
<1>6. \A i \in 1 .. n + 1 : u[i] = v[i]
  BY <1>1, <1>2, <1>3, <1>5
<1>7. u = v
  BY <1>3, <1>5, <1>6, SeqEqual
<1> QED BY <1>4, <1>7

\* What holds of the empty sequence, and goes on holding when one is appended to.
LEMMA EverySequence ==
    ASSUME NEW K, NEW T, <<>> \in T, \A s \in Seq(K), x \in K : s \in T => Append(s, x) \in T
    PROVE  \A s \in Seq(K) : s \in T
<1> SUFFICES ASSUME NEW s \in Seq(K) PROVE s \in T
  OBVIOUS
<1> DEFINE U == {n \in Nat : n <= Len(s) => SubSeq(s, 1, n) \in T}
<1>1. Len(s) \in Nat
  BY LenProperties
<1>2. 0 \in U
  <2>1. SubSeq(s, 1, 0) = <<>>
    OBVIOUS
  <2> QED BY <2>1
<1>3. ASSUME NEW m \in 0 .. Len(s), m < Len(s), m \in U PROVE m + 1 \in U
  <2>1. m \in 0 .. Len(s) - 1 /\ m \in Nat /\ m <= Len(s)
    BY <1>1, <1>3
  <2>2. SubSeq(s, 1, m) \in T /\ SubSeq(s, 1, m) \in Seq(K) /\ s[m + 1] \in K
    BY <1>1, <1>3, <2>1, SubSeqProperties, ElementOfSeq
  <2>3. SubSeq(s, 1, m + 1) \in T
    BY <2>1, <2>2, AppendIsLast
  <2> QED BY <2>1, <2>3
<1> HIDE DEF U
<1>4. Len(s) \in U
  BY <1>1, <1>2, <1>3, EveryNumber
<1>5. SubSeq(s, 1, Len(s)) = s
  OBVIOUS
<1>6. SubSeq(s, 1, Len(s)) \in T
  BY <1>1, <1>4 DEF U
<1> QED BY <1>5, <1>6

LEMMA ConcatAppended ==
    ASSUME NEW K, NEW s \in Seq(K), NEW t \in Seq(K), NEW x \in K
    PROVE  s \o Append(t, x) = Append(s \o t, x)
<1>1. PICK one : one = <<x>>
  OBVIOUS
<1>2. one \in Seq(K)
  BY <1>1
<1>3. Append(t, x) = t \o one
  BY <1>1, AppendIsConcat
<1>4. s \o t \in Seq(K)
  BY ConcatProperties
<1>5. Append(s \o t, x) = (s \o t) \o one
  BY <1>1, <1>4, AppendIsConcat
<1>6. (s \o t) \o one = s \o (t \o one)
  BY <1>2, ConcatAssociative, SMTT(60)
<1> QED BY <1>3, <1>5, <1>6

-----------------------------------------------------------------------------
(* Filters, of sequences put together.                                     *)

KeptSoFar(f, s, S) ==
    /\ f[0] = <<>>
    /\ \A n \in 1 .. Len(s) :
         f[n] = IF s[n] \in S THEN Append(f[n - 1], s[n]) ELSE f[n - 1]

LEMMA AmongSteps ==
    ASSUME NEW s, NEW S, Len(s) \in Nat
    PROVE  KeptSoFar(AmongFirst(s, S), s, S)
<1>1. PICK f : f = AmongFirst(s, S)
  OBVIOUS
<1>2. PICK l \in Nat : l = Len(s)
  OBVIOUS
<1>3. f = [n \in 0 .. l |-> IF n = 0 THEN <<>>
                           ELSE IF s[n] \in S THEN Append(f[n - 1], s[n]) ELSE f[n - 1]]
  BY <1>1, <1>2, AmongFirstIs DEF Retains
<1>4. f[0] = <<>>
  BY <1>3
<1>5. ASSUME NEW n \in 1 .. l
      PROVE  f[n] = IF s[n] \in S THEN Append(f[n - 1], s[n]) ELSE f[n - 1]
  <2>1. n \in 0 .. l /\ n # 0
    OBVIOUS
  <2> QED BY <1>3, <2>1, Zenon
<1> QED BY <1>1, <1>2, <1>4, <1>5 DEF KeptSoFar

LEMMA AmongOfNone == \A S : Among(<<>>, S) = <<>>
<1> SUFFICES ASSUME NEW S PROVE Among(<<>>, S) = <<>>
  OBVIOUS
<1>1. Len(<<>>) = 0
  OBVIOUS
<1>2. KeptSoFar(AmongFirst(<<>>, S), <<>>, S)
  BY <1>1, AmongSteps
<1> QED BY <1>1, <1>2 DEF KeptSoFar, Among

LEMMA AmongOfAppend ==
    ASSUME NEW K, NEW s \in Seq(K), NEW x \in K, NEW S
    PROVE  Among(Append(s, x), S) = IF x \in S THEN Append(Among(s, S), x) ELSE Among(s, S)
<1>1. PICK u : u = Append(s, x)
  OBVIOUS
<1>2. /\ u \in Seq(K) /\ Len(u) = Len(s) + 1 /\ Len(s) \in Nat /\ u[Len(s) + 1] = x
      /\ \A i \in 1 .. Len(s) : u[i] = s[i]
  BY <1>1, AppendProperties, LenProperties
<1>3. PICK l \in Nat : l = Len(s)
  BY <1>2
<1>4. PICK f : f = AmongFirst(s, S)
  OBVIOUS
<1>5. PICK g : g = AmongFirst(u, S)
  OBVIOUS
<1>6. /\ f[0] = <<>>
      /\ \A n \in 1 .. l : f[n] = IF s[n] \in S THEN Append(f[n - 1], s[n]) ELSE f[n - 1]
  BY <1>2, <1>3, <1>4, AmongSteps DEF KeptSoFar
<1>7. /\ g[0] = <<>>
      /\ \A n \in 1 .. l + 1 : g[n] = IF u[n] \in S THEN Append(g[n - 1], u[n]) ELSE g[n - 1]
  BY <1>2, <1>3, <1>5, AmongSteps DEF KeptSoFar
<1> DEFINE T == {n \in Nat : n <= l => g[n] = f[n]}
<1>8. l \in T
  <2>1. 0 \in T
    BY <1>6, <1>7
  <2>2. ASSUME NEW m \in 0 .. l, m < l, m \in T PROVE m + 1 \in T
    <3>1. m + 1 \in 1 .. l /\ m + 1 \in 1 .. l + 1 /\ (m + 1) - 1 = m /\ g[m] = f[m]
      BY <2>2
    <3>2. u[m + 1] = s[m + 1]
      BY <1>2, <1>3, <3>1
    <3>3. g[m + 1] = f[m + 1]
      BY <1>6, <1>7, <3>1, <3>2
    <3> QED BY <3>1, <3>3
  <2> HIDE DEF T
  <2> QED BY <2>1, <2>2, EveryNumber
<1>9. g[l] = f[l]
  BY <1>8
<1>10. l + 1 \in 1 .. l + 1 /\ (l + 1) - 1 = l /\ u[l + 1] = x
  BY <1>2, <1>3
<1>11. g[l + 1] = IF x \in S THEN Append(f[l], x) ELSE f[l]
  BY <1>7, <1>9, <1>10
<1>12. Among(s, S) = f[l] /\ Among(u, S) = g[l + 1]
  BY <1>2, <1>3, <1>4, <1>5 DEF Among
<1> QED BY <1>1, <1>11, <1>12

LEMMA AmongOfConcat ==
    ASSUME NEW K, NEW s \in Seq(K), NEW S
    PROVE  \A t \in Seq(K) : Among(s \o t, S) = Among(s, S) \o Among(t, S)
<1> DEFINE T == {t \in Seq(K) : Among(s \o t, S) = Among(s, S) \o Among(t, S)}
<1>0. Among(s, S) \in Seq(K)
  BY AmongKeeps
<1>1. <<>> \in T
  <2>1. <<>> \in Seq(K) /\ s \o <<>> = s /\ Among(s, S) \o <<>> = Among(s, S)
    BY <1>0, EmptySeq, ConcatEmptySeq
  <2> QED BY <2>1, AmongOfNone
<1>2. ASSUME NEW t \in Seq(K), NEW x \in K, t \in T PROVE Append(t, x) \in T
  <2>1. PICK a : a = Among(s, S)
    OBVIOUS
  <2>2. PICK b : b = Among(t, S)
    OBVIOUS
  <2>3. PICK st : st = s \o t
    OBVIOUS
  <2>4. Among(st, S) = a \o b
    BY <1>2, <2>1, <2>2, <2>3
  <2>5. st \in Seq(K) /\ Append(t, x) \in Seq(K) /\ s \o Append(t, x) = Append(st, x)
    BY <2>3, ConcatProperties, AppendProperties, ConcatAppended
  <2>6. a \in Seq(K) /\ b \in Seq(K)
    BY <2>1, <2>2, AmongKeeps
  <2>7. Among(Append(st, x), S) = IF x \in S THEN Append(Among(st, S), x) ELSE Among(st, S)
    BY <2>5, AmongOfAppend
  <2>8. Among(Append(t, x), S) = IF x \in S THEN Append(b, x) ELSE b
    BY <2>2, AmongOfAppend
  <2>9. Append(a \o b, x) = a \o Append(b, x)
    <3>1. PICK ab : ab = a \o b
      OBVIOUS
    <3>2. a \o Append(b, x) = Append(ab, x)
      BY <2>6, <3>1, ConcatAppended
    <3> QED BY <3>1, <3>2
  <2>10. Among(s \o Append(t, x), S) = a \o Among(Append(t, x), S)
    BY <2>4, <2>5, <2>7, <2>8, <2>9
  <2> QED BY <2>1, <2>5, <2>10
<1> HIDE DEF T
<1>3. \A t \in Seq(K) : t \in T
  BY <1>1, <1>2, EverySequence
<1> QED BY <1>3 DEF T

LEMMA AmongTwice ==
    ASSUME NEW K, NEW A, NEW B
    PROVE  \A s \in Seq(K) : Among(Among(s, A), B) = Among(s, A \cap B)
<1> DEFINE T == {s \in Seq(K) : Among(Among(s, A), B) = Among(s, A \cap B)}
<1>1. <<>> \in T
  BY AmongOfNone, EmptySeq
<1>2. ASSUME NEW s \in Seq(K), NEW x \in K, s \in T PROVE Append(s, x) \in T
  <2>1. Among(Among(s, A), B) = Among(s, A \cap B) /\ Among(s, A) \in Seq(K)
    BY <1>2, AmongKeeps
  <2>2. Among(Append(s, x), A) = IF x \in A THEN Append(Among(s, A), x) ELSE Among(s, A)
    BY AmongOfAppend
  <2>3. Among(Append(Among(s, A), x), B)
          = IF x \in B THEN Append(Among(Among(s, A), B), x) ELSE Among(Among(s, A), B)
    BY <2>1, AmongOfAppend, ZenonT(60)
  <2>4. Among(Append(s, x), A \cap B)
          = IF x \in A \cap B THEN Append(Among(s, A \cap B), x) ELSE Among(s, A \cap B)
    BY AmongOfAppend
  <2>5. Among(Among(Append(s, x), A), B) = Among(Append(s, x), A \cap B)
    <3>1. CASE x \in A /\ x \in B
      BY <2>1, <2>2, <2>3, <2>4, <3>1
    <3>2. CASE x \in A /\ x \notin B
      BY <2>1, <2>2, <2>3, <2>4, <3>2
    <3>3. CASE x \notin A
      BY <2>1, <2>2, <2>4, <3>3
    <3> QED BY <3>1, <3>2, <3>3
  <2> QED BY <2>5, AppendProperties
<1> HIDE DEF T
<1>3. \A s \in Seq(K) : s \in T
  BY <1>1, <1>2, EverySequence
<1> QED BY <1>3 DEF T

\* A filter depends on nothing but the elements there are.
LEMMA AmongAgrees ==
    ASSUME NEW K, NEW A, NEW B
    PROVE  \A s \in Seq(K) : ToSet(s) \cap A = ToSet(s) \cap B => Among(s, A) = Among(s, B)
<1> DEFINE T == {s \in Seq(K) : ToSet(s) \cap A = ToSet(s) \cap B => Among(s, A) = Among(s, B)}
<1>1. <<>> \in T
  BY AmongOfNone, EmptySeq
<1>2. ASSUME NEW s \in Seq(K), NEW x \in K, s \in T PROVE Append(s, x) \in T
  <2>1. ToSet(s) \cap A = ToSet(s) \cap B => Among(s, A) = Among(s, B)
    BY <1>2
  <2>2. Append(s, x) \in Seq(K) /\ ToSet(Append(s, x)) = ToSet(s) \cup {x}
    BY AppendKeeps
  <2>3. ASSUME ToSet(Append(s, x)) \cap A = ToSet(Append(s, x)) \cap B
        PROVE  Among(Append(s, x), A) = Among(Append(s, x), B)
    <3>1. ToSet(s) \cap A = ToSet(s) \cap B /\ (x \in A <=> x \in B)
      BY <2>2, <2>3
    <3>2. Among(Append(s, x), A) = IF x \in A THEN Append(Among(s, A), x) ELSE Among(s, A)
      BY AmongOfAppend
    <3>3. Among(Append(s, x), B) = IF x \in B THEN Append(Among(s, B), x) ELSE Among(s, B)
      BY AmongOfAppend
    <3> QED BY <2>1, <3>1, <3>2, <3>3
  <2> QED BY <2>2, <2>3
<1> HIDE DEF T
<1>3. \A s \in Seq(K) : s \in T
  BY <1>1, <1>2, EverySequence
<1> QED BY <1>3 DEF T

LEMMA AmongItsOwn ==
    ASSUME NEW K
    PROVE  \A s \in Seq(K) : Among(s, K) = s
<1> DEFINE T == {s \in Seq(K) : Among(s, K) = s}
<1>1. <<>> \in T
  BY AmongOfNone, EmptySeq
<1>2. ASSUME NEW s \in Seq(K), NEW x \in K, s \in T PROVE Append(s, x) \in T
  <2>1. Among(Append(s, x), K) = Append(s, x)
    BY <1>2, AmongOfAppend
  <2> QED BY <2>1, AppendProperties
<1> HIDE DEF T
<1>3. \A s \in Seq(K) : s \in T
  BY <1>1, <1>2, EverySequence
<1> QED BY <1>3 DEF T

LEMMA AmongOthers ==
    ASSUME NEW K, NEW S, K \cap S = {}
    PROVE  \A s \in Seq(K) : Among(s, S) = <<>>
<1> DEFINE T == {s \in Seq(K) : Among(s, S) = <<>>}
<1>1. <<>> \in T
  BY AmongOfNone, EmptySeq
<1>2. ASSUME NEW s \in Seq(K), NEW x \in K, s \in T PROVE Append(s, x) \in T
  <2>1. x \notin S
    OBVIOUS
  <2>2. Among(Append(s, x), S) = <<>>
    BY <1>2, <2>1, AmongOfAppend
  <2> QED BY <2>2, AppendProperties
<1> HIDE DEF T
<1>3. \A s \in Seq(K) : s \in T
  BY <1>1, <1>2, EverySequence
<1> QED BY <1>3 DEF T

-----------------------------------------------------------------------------
(* Sequences of sequences, put together.                                   *)

Flattens(flat, ss, m) ==
    flat = [i \in 1 .. m |-> IF i = 1 THEN ss[i] ELSE flat[i - 1] \o ss[i]]

FlatFirst(ss) == CHOOSE flat : Flattens(flat, ss, Len(ss))

LEMMA FlatFirstIs ==
    ASSUME NEW ss, Len(ss) \in Nat
    PROVE  Flattens(FlatFirst(ss), ss, Len(ss))
<1> DEFINE T == {m \in Nat : \E flat : Flattens(flat, ss, m)}
<1>1. 0 \in T
  <2>1. Flattens([i \in 1 .. 0 |-> 0], ss, 0)
    BY DEF Flattens
  <2> QED BY <2>1
<1>2. ASSUME NEW m \in 0 .. Len(ss), m \in T PROVE m + 1 \in T
  <2>1. PICK flat : Flattens(flat, ss, m)
    BY <1>2
  <2> DEFINE more == [i \in 1 .. m + 1 |->
                        IF i <= m THEN flat[i] ELSE IF i = 1 THEN ss[i] ELSE flat[i - 1] \o ss[i]]
  <2>2. ASSUME NEW i \in 1 .. m + 1
        PROVE  more[i] = IF i = 1 THEN ss[i] ELSE more[i - 1] \o ss[i]
    <3>1. i <= m => flat[i] = IF i = 1 THEN ss[i] ELSE flat[i - 1] \o ss[i]
      <4>1. ASSUME NEW j \in 1 .. m
            PROVE  flat[j] = IF j = 1 THEN ss[j] ELSE flat[j - 1] \o ss[j]
        BY <2>1, Zenon DEF Flattens
      <4> QED BY <4>1
    <3>2. i # 1 => more[i - 1] = flat[i - 1]
      <4>1. i # 1 => i - 1 \in 1 .. m + 1 /\ i - 1 <= m
        OBVIOUS
      <4> QED BY <4>1
    <3>3. more[i] = IF i <= m THEN flat[i] ELSE IF i = 1 THEN ss[i] ELSE flat[i - 1] \o ss[i]
      OBVIOUS
    <3> HIDE DEF more
    <3>4. more[i] = IF i = 1 THEN ss[i] ELSE flat[i - 1] \o ss[i]
      BY <3>1, <3>3
    <3> QED BY <3>2, <3>4
  <2>3. more = [i \in 1 .. m + 1 |-> more[i]]
    OBVIOUS
  <2> HIDE DEF more
  <2>4. Flattens(more, ss, m + 1)
    BY <2>2, <2>3 DEF Flattens
  <2> QED BY <2>4
<1> HIDE DEF T
<1>3. Len(ss) \in T
  BY <1>1, <1>2, EveryNumber
<1>4. \E flat : Flattens(flat, ss, Len(ss))
  BY <1>3 DEF T
<1> QED BY <1>4 DEF FlatFirst

LEMMA FlatIs ==
    ASSUME NEW ss, Len(ss) \in Nat
    PROVE  FlattenSeq(ss) = IF Len(ss) = 0 THEN ss ELSE FlatFirst(ss)[Len(ss)]
BY DEF FlattenSeq, FlatFirst, Flattens

FlatSoFar(f, ss) ==
    \A i \in 1 .. Len(ss) : f[i] = IF i = 1 THEN ss[i] ELSE f[i - 1] \o ss[i]

LEMMA FlatSteps ==
    ASSUME NEW ss, Len(ss) \in Nat
    PROVE  FlatSoFar(FlatFirst(ss), ss)
<1>1. PICK f : f = FlatFirst(ss)
  OBVIOUS
<1>2. f = [i \in 1 .. Len(ss) |-> IF i = 1 THEN ss[i] ELSE f[i - 1] \o ss[i]]
  BY <1>1, FlatFirstIs DEF Flattens
<1>3. ASSUME NEW i \in 1 .. Len(ss)
      PROVE  f[i] = IF i = 1 THEN ss[i] ELSE f[i - 1] \o ss[i]
  BY <1>2, Zenon
<1> QED BY <1>1, <1>3 DEF FlatSoFar

LEMMA FlatOfNone == FlattenSeq(<<>>) = <<>>
BY FlatIs

\* FlattenSeq takes a sequence of sequences apart at its end ...
LEMMA FlatOfLast ==
    ASSUME NEW J, NEW ss \in Seq(J), NEW s \in J, ss # <<>>
    PROVE  FlattenSeq(Append(ss, s)) = FlattenSeq(ss) \o s
<1>1. PICK uu : uu = Append(ss, s)
  OBVIOUS
<1>2. PICK l \in Nat : l = Len(ss)
  BY LenProperties
<1>3. /\ uu \in Seq(J) /\ Len(uu) = l + 1 /\ uu[l + 1] = s /\ l # 0
      /\ \A i \in 1 .. l : uu[i] = ss[i]
  BY <1>1, <1>2, AppendProperties, EmptySeq
<1>4. PICK f : f = FlatFirst(ss)
  OBVIOUS
<1>5. PICK g : g = FlatFirst(uu)
  OBVIOUS
<1>6. \A i \in 1 .. l : f[i] = IF i = 1 THEN ss[i] ELSE f[i - 1] \o ss[i]
  BY <1>2, <1>4, FlatSteps DEF FlatSoFar
<1>7. \A i \in 1 .. l + 1 : g[i] = IF i = 1 THEN uu[i] ELSE g[i - 1] \o uu[i]
  BY <1>3, <1>5, FlatSteps DEF FlatSoFar
<1> DEFINE T == {n \in Nat : n \in 1 .. l => g[n] = f[n]}
<1>8. l \in T
  <2>1. 0 \in T
    OBVIOUS
  <2>2. ASSUME NEW m \in 0 .. l, m < l, m \in T PROVE m + 1 \in T
    <3>1. m + 1 \in 1 .. l /\ m + 1 \in 1 .. l + 1 /\ uu[m + 1] = ss[m + 1]
      BY <1>3, <2>2
    <3>2. CASE m = 0
      BY <1>6, <1>7, <3>1, <3>2
    <3>3. CASE m # 0
      <4>1. g[m] = f[m] /\ m + 1 # 1 /\ (m + 1) - 1 = m
        BY <2>2, <3>3
      <4> QED BY <1>6, <1>7, <3>1, <4>1
    <3> QED BY <3>2, <3>3
  <2> HIDE DEF T
  <2> QED BY <2>1, <2>2, EveryNumber
<1>9. g[l] = f[l] /\ l + 1 \in 1 .. l + 1 /\ l + 1 # 1 /\ (l + 1) - 1 = l
  BY <1>3, <1>8
<1>10. g[l + 1] = f[l] \o s
  BY <1>3, <1>7, <1>9
<1>11. FlattenSeq(uu) = g[l + 1] /\ FlattenSeq(ss) = f[l]
  BY <1>2, <1>3, <1>4, <1>5, FlatIs
<1> QED BY <1>1, <1>10, <1>11

LEMMA FlatOfOne ==
    ASSUME NEW s
    PROVE  FlattenSeq(<<s>>) = s
<1>1. PICK uu : uu = <<s>>
  OBVIOUS
<1>2. Len(uu) = 1 /\ uu[1] = s
  BY <1>1
<1>5. Len(uu) \in Nat /\ Len(uu) # 0
  BY <1>2
<1>3. FlatFirst(uu)[1] = s
  BY <1>2, FlatSteps DEF FlatSoFar
<1>4. FlattenSeq(uu) = FlatFirst(uu)[1]
  <2>1. FlattenSeq(uu) = IF Len(uu) = 0 THEN uu ELSE FlatFirst(uu)[Len(uu)]
    BY <1>5, FlatIs, Zenon
  <2> QED BY <1>2, <2>1
<1> QED BY <1>1, <1>3, <1>4

\* ... and keeps what was in it.
LEMMA FlatOfAppend ==
    ASSUME NEW K
    PROVE  \A ss \in Seq(Seq(K)) :
             /\ FlattenSeq(ss) \in Seq(K)
             /\ \A s \in Seq(K) : FlattenSeq(Append(ss, s)) = FlattenSeq(ss) \o s
<1> DEFINE T == {ss \in Seq(Seq(K)) : FlattenSeq(ss) \in Seq(K)}
<1>1. ASSUME NEW ss \in Seq(Seq(K)), NEW s \in Seq(K), FlattenSeq(ss) \in Seq(K)
      PROVE  FlattenSeq(Append(ss, s)) = FlattenSeq(ss) \o s
  <2>1. CASE ss = <<>>
    <3>1. Append(ss, s) = <<s>>
      BY <2>1
    <3> QED BY <2>1, <3>1, FlatOfOne, FlatOfNone, ConcatEmptySeq
  <2>2. CASE ss # <<>>
    BY <2>2, FlatOfLast
  <2> QED BY <2>1, <2>2
<1>2. <<>> \in T
  BY FlatOfNone, EmptySeq
<1>3. ASSUME NEW ss \in Seq(Seq(K)), NEW s \in Seq(K), ss \in T PROVE Append(ss, s) \in T
  <2>1. FlattenSeq(Append(ss, s)) = FlattenSeq(ss) \o s /\ FlattenSeq(ss) \in Seq(K)
    BY <1>1, <1>3
  <2>2. FlattenSeq(ss) \o s \in Seq(K)
    BY <2>1, ConcatProperties
  <2> QED BY <2>1, <2>2, AppendProperties
<1> HIDE DEF T
<1>4. \A ss \in Seq(Seq(K)) : ss \in T
  BY <1>2, <1>3, EverySequence
<1> QED BY <1>1, <1>4 DEF T

LEMMA FlatOfConcat ==
    ASSUME NEW K, NEW ss \in Seq(Seq(K))
    PROVE  \A tt \in Seq(Seq(K)) : FlattenSeq(ss \o tt) = FlattenSeq(ss) \o FlattenSeq(tt)
<1> DEFINE T == {tt \in Seq(Seq(K)) : FlattenSeq(ss \o tt) = FlattenSeq(ss) \o FlattenSeq(tt)}
<1>0. PICK a : a = FlattenSeq(ss)
  OBVIOUS
<1>a. a \in Seq(K)
  BY <1>0, FlatOfAppend
<1>1. <<>> \in T
  <2>1. a \o <<>> = a /\ ss \o <<>> = ss /\ <<>> \in Seq(Seq(K))
    BY <1>a, ConcatEmptySeq, EmptySeq
  <2> QED BY <1>0, <2>1, FlatOfNone
<1>2. ASSUME NEW tt \in Seq(Seq(K)), NEW s \in Seq(K), tt \in T PROVE Append(tt, s) \in T
  <2>1. PICK b : b = FlattenSeq(tt)
    OBVIOUS
  <2>2. b \in Seq(K) /\ FlattenSeq(Append(tt, s)) = b \o s
    BY <2>1, FlatOfAppend
  <2>3. PICK st : st = ss \o tt
    OBVIOUS
  <2>4. st \in Seq(Seq(K)) /\ FlattenSeq(st) = a \o b
    BY <1>0, <1>2, <2>1, <2>3, ConcatProperties
  <2>5. FlattenSeq(Append(st, s)) = (a \o b) \o s
    BY <2>4, FlatOfAppend
  <2>6. (a \o b) \o s = a \o (b \o s)
    BY <1>a, <2>2, ConcatAssociative, SMTT(60)
  <2>7. ss \o Append(tt, s) = Append(st, s) /\ Append(tt, s) \in Seq(Seq(K))
    BY <2>3, ConcatAppended, AppendProperties, SMTT(60)
  <2>8. FlattenSeq(ss \o Append(tt, s)) = a \o FlattenSeq(Append(tt, s))
    BY <2>2, <2>5, <2>6, <2>7
  <2> QED BY <1>0, <2>7, <2>8
<1> HIDE DEF T
<1>3. \A tt \in Seq(Seq(K)) : tt \in T
  BY <1>1, <1>2, EverySequence
<1> QED BY <1>3 DEF T
=============================================================================
