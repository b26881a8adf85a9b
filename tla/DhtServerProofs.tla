-------------------------- MODULE DhtServerProofs ---------------------------
(***************************************************************************)
(* What holds of a server for all caps, clients, targets and clocks.       *)
(***************************************************************************)
EXTENDS DhtServer, ListProofs

USE DEF SeqNo

\* The secrets are numbered as drawn, and a token given before the last rotation
\* but one is older than the interval between two rotations.
TokensInv ==
    /\ now \in Nat
    /\ tokens \in [prev : Int, curr : Int, at : Nat]
    /\ tokens.prev = tokens.curr - 1 /\ tokens.curr >= 1 /\ tokens.at <= now
    /\ held \in [Client -> [secret : Int, at : Nat]]
    /\ \A c \in Client :
         held[c] # NoToken =>
            /\ held[c].at <= now /\ held[c].secret <= tokens.curr
            /\ \/ held[c].secret = tokens.curr
               \/ held[c].secret = tokens.prev /\ held[c].at <= tokens.at
               \/ tokens.at - held[c].at > Rotate

\* What a request may do to tokens: nothing, or one rotation.
LEMMA RotatedOnce ==
    ASSUME TokensInv
    PROVE  /\ Rotated \in [prev : Int, curr : Int, at : Nat]
           /\ \/ Rotated = tokens
              \/ /\ Rotated.prev = tokens.curr /\ Rotated.curr = tokens.curr + 1
                 /\ Rotated.at = now /\ now - tokens.at > Rotate
           /\ Rotated.prev = Rotated.curr - 1 /\ Rotated.curr >= 1 /\ Rotated.at <= now
BY ServerAssumption DEF TokensInv, Rotated, ShouldUpdate

\* The actions as tokens see them: every request is handled with the secrets of
\* Rotated, and it may give its address a token signed with the current one.
TokenStep ==
    \/ /\ tokens' = Rotated /\ now' = now
       /\ \/ UNCHANGED held
          \/ \E c \in Client : Gives(c)
    \/ now' = now + 1 /\ UNCHANGED <<tokens, held>>
    \/ UNCHANGED <<now, tokens, held>>

LEMMA StepsOfTokens == [Next]_vars => TokenStep
<1> SUFFICES ASSUME [Next]_vars PROVE TokenStep OBVIOUS
<1>1. CASE Tick BY <1>1 DEF Tick, TokenStep
<1>2. ASSUME NEW c \in Client, Reads(c) PROVE TokenStep
  BY <1>2 DEF Reads, Ping, FindNode, GetPeers, GetImmutable, GetMutable, Handles,
              TokenStep
<1>3. ASSUME NEW c \in Client, Puts(c) PROVE TokenStep
  BY <1>3 DEF Puts, AnnouncePeer, PutImmutable, PutMutable, Handles, TokenStep
<1>4. CASE UNCHANGED vars BY <1>4 DEF vars, TokenStep
<1> QED BY <1>1, <1>2, <1>3, <1>4 DEF Next

LEMMA TokensInvStep == TokensInv /\ TokenStep => TokensInv'
<1> SUFFICES ASSUME TokensInv, TokenStep PROVE TokensInv' OBVIOUS
<1> USE ServerAssumption
<1>1. CASE tokens' = Rotated /\ now' = now /\ UNCHANGED held
  BY <1>1, RotatedOnce DEF TokensInv
<1>2. ASSUME tokens' = Rotated, now' = now, NEW c \in Client, Gives(c)
      PROVE  TokensInv'
  <2>1. held' \in [Client -> [secret : Int, at : Nat]]
    BY <1>2, RotatedOnce DEF TokensInv, Gives
  <2>2. ASSUME NEW d \in Client, held'[d] # NoToken
        PROVE  /\ held'[d].at <= now /\ held'[d].secret <= tokens'.curr
               /\ \/ held'[d].secret = tokens'.curr
                  \/ held'[d].secret = tokens'.prev /\ held'[d].at <= tokens'.at
                  \/ tokens'.at - held'[d].at > Rotate
    <3>1. CASE d = c
      <4>1. held'[d] = [secret |-> Rotated.curr, at |-> now]
        BY <1>2, <3>1 DEF TokensInv, Gives
      <4> QED BY <1>2, <4>1, RotatedOnce DEF TokensInv
    <3>2. CASE d # c
      <4>1. held'[d] = held[d] BY <1>2, <3>2 DEF TokensInv, Gives
      <4> QED BY <1>2, <2>2, <4>1, RotatedOnce DEF TokensInv
    <3> QED BY <3>1, <3>2
  <2> QED BY <1>2, <2>1, <2>2, RotatedOnce DEF TokensInv
<1>3. CASE now' = now + 1 /\ UNCHANGED <<tokens, held>>
  BY <1>3 DEF TokensInv
<1>4. CASE UNCHANGED <<now, tokens, held>>
  BY <1>4 DEF TokensInv
<1> QED BY <1>1, <1>2, <1>3, <1>4 DEF TokenStep

LEMMA TokensInvariant == Spec => []TokensInv
<1>1. Init => TokensInv BY DEF Init, TokensInv, NoToken
<1> QED BY <1>1, TokensInvStep, StepsOfTokens, PTL DEF Spec

\* A token is honoured for a rotation interval after it was given, whatever the
\* requests in between and however far apart they are.
THEOREM TokensHonoured == Spec => []FreshTokensHonoured
<1>1. TokensInv => FreshTokensHonoured
  BY RotatedOnce, ServerAssumption DEF TokensInv, FreshTokensHonoured, Validates
<1> QED BY <1>1, TokensInvariant, PTL

\* A token that is refused once is refused for ever.
THEOREM TokensDie == Spec => OldTokensDie
<1>1. TokensInv /\ TokensInv' /\ [Next]_vars =>
        [\A c \in Client :
           held[c] # NoToken /\ held'[c] = held[c] /\ ~Validates(held[c])
              => (~Validates(held[c]))']_vars
  <2> SUFFICES ASSUME TokensInv, TokensInv', TokenStep, NEW c \in Client,
                      held[c] # NoToken, held'[c] = held[c], ~Validates(held[c])
               PROVE  (~Validates(held[c]))'
    BY StepsOfTokens
  <2>1. held[c].secret < Rotated.prev
    <3>1. held[c].secret \in Int /\ held[c].secret <= tokens.curr BY DEF TokensInv
    <3>2. held[c].secret # Rotated.prev /\ held[c].secret # Rotated.curr
      BY DEF Validates
    <3>3. /\ Rotated.prev \in Int /\ Rotated.curr \in Int /\ tokens.curr \in Int
          /\ Rotated.prev = Rotated.curr - 1 /\ Rotated.curr >= tokens.curr
      BY RotatedOnce DEF TokensInv
    <3> QED BY <3>1, <3>2, <3>3
  <2>2. Rotated.prev <= Rotated'.prev /\ Rotated'.prev = Rotated'.curr - 1
    <3>1. CASE tokens' = Rotated /\ now' = now
      BY <3>1, RotatedOnce DEF TokensInv, Rotated, ShouldUpdate
    <3>2. CASE UNCHANGED tokens /\ now' \in {now, now + 1}
      BY <3>2, ServerAssumption DEF TokensInv, Rotated, ShouldUpdate
    <3> QED BY <3>1, <3>2 DEF TokenStep
  <2>3. Rotated'.prev \in Int /\ Rotated'.curr \in Int /\ Rotated.prev \in Int
    BY RotatedOnce DEF TokensInv, Rotated, ShouldUpdate
  <2> QED BY <2>1, <2>2, <2>3 DEF Validates, TokensInv
<1> QED BY <1>1, TokensInvariant, PTL DEF Spec, OldTokensDie

-----------------------------------------------------------------------------
\* The sequence numbers kept are numbers: what the comparison of two needs.
MutableInv ==
    /\ mutable = [of |-> mutable.of, order |-> mutable.order]
    /\ \A t \in Keys(mutable) : Peek(mutable, t) \in SeqNo

\* The actions as the mutable store sees them.
MutableStep ==
    \/ UNCHANGED <<mutable, raises>>
    \/ \E t \in Target : mutable' = Used(mutable, t) /\ UNCHANGED raises
    \/ \E t \in Target, seq \in SeqNo, cas \in SeqNo \cup {NoSeq} :
         /\ Conflict(t, seq, cas) = "no"
         /\ mutable' = Stored(mutable, t, seq, MaxMutable)
         /\ raises' = Raised(t, seq, cas, mutable')

LEMMA StepsOfMutable == [Next]_vars => MutableStep
<1> SUFFICES ASSUME [Next]_vars PROVE MutableStep OBVIOUS
<1>1. CASE Tick BY <1>1 DEF Tick, storeVars, history, MutableStep
<1>2. ASSUME NEW c \in Client, Reads(c) PROVE MutableStep
  BY <1>2 DEF Reads, Ping, FindNode, GetPeers, GetImmutable, GetMutable, ReadMutable,
              storeVars, history, MutableStep
<1>3. ASSUME NEW c \in Client, NEW t \in Target, NEW seq \in SeqNo,
             NEW cas \in SeqNo \cup {NoSeq}, NEW flaw, PutMutable(c, t, seq, cas, flaw)
      PROVE  MutableStep
  BY <1>3 DEF PutMutable, MutableStep
<1>4. ASSUME NEW c \in Client, NEW t, NEW p, NEW a, AnnouncePeer(c, t, p, a)
      PROVE  MutableStep
  BY <1>4 DEF AnnouncePeer, Refuses, storeVars, history, MutableStep
<1>5. ASSUME NEW c \in Client, NEW v, NEW flaw, PutImmutable(c, v, flaw)
      PROVE  MutableStep
  BY <1>5 DEF PutImmutable, Refuses, storeVars, history, MutableStep
<1>6. CASE UNCHANGED vars BY <1>6 DEF vars, storeVars, history, MutableStep
<1> QED BY <1>1, <1>2, <1>3, <1>4, <1>5, <1>6 DEF Next, Puts

LEMMA MutableInvStep == MutableInv /\ MutableStep => MutableInv'
<1> SUFFICES ASSUME MutableInv, MutableStep PROVE MutableInv' OBVIOUS
<1>1. CASE UNCHANGED mutable BY <1>1 DEF MutableInv, Keys, Peek
<1>2. ASSUME NEW t \in Target, mutable' = Used(mutable, t) PROVE MutableInv'
  BY <1>2 DEF MutableInv, Used, Keys, Peek
<1>3. ASSUME NEW t \in Target, NEW seq \in SeqNo,
             mutable' = Stored(mutable, t, seq, MaxMutable)
      PROVE  MutableInv'
  BY <1>3 DEF MutableInv, Stored, Keys, Peek
<1> QED BY <1>1, <1>2, <1>3 DEF MutableStep

\* While an item stays in the store its sequence number never falls.
THEOREM MutableSeqNeverFalls == Spec => SeqNeverFalls
<1>1. Init => MutableInv
  BY DEF Init, MutableInv, EmptyLru, Keys, Peek
<1>2. MutableInv /\ [Next]_vars => MutableInv'
  BY MutableInvStep, StepsOfMutable
<1>3. MutableInv /\ [Next]_vars =>
        [\A t \in Target :
           Holds(mutable, t) /\ Holds(mutable', t)
              => Peek(mutable', t) >= Peek(mutable, t)]_vars
  <2> SUFFICES ASSUME MutableInv, MutableStep, NEW t \in Target,
                      Holds(mutable, t), Holds(mutable', t)
               PROVE  Peek(mutable', t) >= Peek(mutable, t)
    BY StepsOfMutable
  <2> USE ServerAssumption
  <2>1. Peek(mutable, t) \in SeqNo BY DEF MutableInv, Holds
  <2>2. CASE UNCHANGED mutable BY <2>1, <2>2
  <2>3. ASSUME NEW u \in Target, mutable' = Used(mutable, u)
        PROVE  Peek(mutable', t) >= Peek(mutable, t)
    BY <2>1, <2>3 DEF Used, Peek
  <2>4. ASSUME NEW u \in Target, NEW seq \in SeqNo, NEW cas \in SeqNo \cup {NoSeq},
               Conflict(u, seq, cas) = "no",
               mutable' = Stored(mutable, u, seq, MaxMutable)
        PROVE  Peek(mutable', t) >= Peek(mutable, t)
    <3>1. CASE u = t
      <4>1. Peek(mutable', t) = seq
        BY <2>4, <3>1 DEF Stored, Peek, Holds, Keys
      <4>2. ~(seq < Peek(mutable, t))
        BY <2>4, <3>1 DEF Conflict
      <4> QED BY <2>1, <4>1, <4>2
    <3>2. CASE u # t
      <4>1. Peek(mutable', t) = Peek(mutable, t)
        BY <2>4, <3>2 DEF Stored, Peek, Holds, Keys
      <4> QED BY <2>1, <4>1
    <3> QED BY <3>1, <3>2
  <2> QED BY <2>2, <2>3, <2>4 DEF MutableStep
<1> QED BY <1>1, <1>2, <1>3, PTL DEF Spec, SeqNeverFalls

-----------------------------------------------------------------------------
\* A sequence number that a conditional put replaced is behind the item kept.
WinnersInv ==
    /\ raises \in [Target -> [SeqNo -> {0, 1}]]
    /\ \A t \in Target, s \in SeqNo :
         raises[t][s] = 1 => Holds(mutable, t) /\ Peek(mutable, t) > s

LEMMA WinnersInvStep == MutableInv /\ WinnersInv /\ MutableStep => WinnersInv'
<1> SUFFICES ASSUME MutableInv, WinnersInv, MutableStep PROVE WinnersInv' OBVIOUS
<1> USE ServerAssumption
<1>1. CASE UNCHANGED <<mutable, raises>>
  BY <1>1 DEF WinnersInv, Holds, Keys, Peek
<1>2. ASSUME NEW t \in Target, mutable' = Used(mutable, t), UNCHANGED raises
      PROVE  WinnersInv'
  BY <1>2 DEF WinnersInv, Used, Holds, Keys, Peek
<1>3. ASSUME NEW t \in Target, NEW seq \in SeqNo, NEW cas \in SeqNo \cup {NoSeq},
             Conflict(t, seq, cas) = "no",
             mutable' = Stored(mutable, t, seq, MaxMutable),
             raises' = Raised(t, seq, cas, mutable')
      PROVE  WinnersInv'
  <2>1. ASSUME NEW u \in Target, NEW s \in SeqNo
        PROVE  /\ raises'[u][s] \in {0, 1}
               /\ raises'[u][s] = 1 => Holds(mutable', u) /\ Peek(mutable', u) > s
    <3>1. CASE ~Holds(mutable', u)
      BY <1>3, <3>1 DEF Raised
    <3>2. CASE Holds(mutable', u) /\ u # t
      <4>1. Peek(mutable', u) = Peek(mutable, u)
        BY <1>3, <3>2 DEF Stored, Peek, Holds, Keys
      <4>2. raises'[u][s] = raises[u][s]
        BY <1>3, <3>2 DEF Raised
      <4> QED BY <3>2, <4>1, <4>2 DEF WinnersInv
    <3>3. CASE Holds(mutable', u) /\ u = t
      <4>1. Peek(mutable', t) = seq
        BY <1>3, <3>3 DEF Stored, Peek, Holds, Keys
      <4>2. CASE Holds(mutable, t) /\ s = cas /\ seq > cas
        <5>1. Peek(mutable, t) = cas
          BY <1>3, <4>2 DEF Conflict, NoSeq
        <5>2. raises[t][s] = 0
          BY <4>2, <5>1 DEF WinnersInv
        <5>3. raises'[t][s] = 1
          BY <1>3, <3>3, <4>2, <5>2 DEF Raised
        <5> QED BY <3>3, <4>1, <4>2, <5>3
      <4>3. CASE ~(Holds(mutable, t) /\ s = cas /\ seq > cas)
        <5>1. raises'[t][s] = raises[t][s]
          BY <1>3, <3>3, <4>3 DEF Raised
        <5>2. Holds(mutable, t) => Peek(mutable, t) \in SeqNo /\ seq >= Peek(mutable, t)
          BY <1>3 DEF Conflict, MutableInv, Holds
        <5>3. raises[t][s] \in {0, 1} /\ (raises[t][s] = 1 => Holds(mutable, t) /\ Peek(mutable, t) > s)
          BY DEF WinnersInv
        <5> QED BY <3>3, <4>1, <5>1, <5>2, <5>3
      <4> QED BY <4>2, <4>3
    <3> QED BY <3>1, <3>2, <3>3
  <2>2. raises' \in [Target -> [SeqNo -> {0, 1}]]
    <3>1. raises' = [u \in Target |-> [s \in SeqNo |-> raises'[u][s]]]
      BY <1>3 DEF Raised
    <3> QED BY <2>1, <3>1
  <2> QED BY <2>1, <2>2 DEF WinnersInv
<1> QED BY <1>1, <1>2, <1>3 DEF MutableStep

\* Of the conditional puts that raise one version of an item, one succeeds.
THEOREM ConditionalPutsExclude == Spec => []OneConditionalWinner
<1>1. Init => MutableInv /\ WinnersInv
  BY DEF Init, MutableInv, WinnersInv, EmptyLru, Keys, Peek
<1>2. MutableInv /\ WinnersInv /\ [Next]_vars => MutableInv' /\ WinnersInv'
  BY MutableInvStep, WinnersInvStep, StepsOfMutable
<1>3. WinnersInv => OneConditionalWinner
  <2> SUFFICES ASSUME WinnersInv, NEW t \in Target, NEW s \in SeqNo
               PROVE  raises[t][s] <= 1
    BY DEF OneConditionalWinner
  <2>1. raises[t][s] \in {0, 1} BY DEF WinnersInv
  <2> QED BY <2>1
<1> QED BY <1>1, <1>2, <1>3, PTL DEF Spec

LEMMA BoundedIs ==
    ASSUME NEW lru, NEW K, NEW cap, LruOK(lru, K, cap)
    PROVE  Bounded(lru, K, cap)
<1>1. /\ lru.order \in Seq(K) /\ Distinct(lru.order) /\ Keys(lru) = ToSet(lru.order)
      /\ Len(lru.order) <= cap
  BY DEF LruOK
<1>2. Len(lru.order) = Cardinality(Keys(lru))
  BY <1>1, SizeOfDistinct
<1>3. Keys(lru) \subseteq K
  BY <1>1, LenProperties DEF ToSet
<1> QED BY <1>1, <1>2, <1>3 DEF Bounded

-----------------------------------------------------------------------------
(* The immutable values.                                                   *)

\* The values in front of another in the list were used since it was: so when the list
\* is full and drops its last, as many others as it holds have been used since.
ImmutableInv ==
    /\ LruOK(immutable, Value, MaxImmutable)
    /\ DOMAIN since \subseteq Value /\ Keys(immutable) \subseteq DOMAIN since
    /\ \A v \in DOMAIN since : IsFiniteSet(since[v]) /\ since[v] \subseteq Value
    /\ \A v \in Keys(immutable) : AheadOf(immutable, v) \subseteq since[v]
    /\ \A v \in DOMAIN since \ Keys(immutable) : Cardinality(since[v]) >= MaxImmutable

ImmutableStep ==
    \/ UNCHANGED <<immutable, since>>
    \/ \E v \in Value : Holds(immutable, v) /\ immutable' = Used(immutable, v) /\ UsesValue(v)
    \/ \E v \in Value : immutable' = Stored(immutable, v, v, MaxImmutable) /\ UsesValue(v)

LEMMA StepsOfImmutable == [Next]_vars => ImmutableStep
<1> SUFFICES ASSUME [Next]_vars PROVE ImmutableStep OBVIOUS
<1>1. CASE Tick BY <1>1 DEF Tick, ImmutableStep, storeVars, history
<1>2. ASSUME NEW c \in Client, Reads(c) PROVE ImmutableStep
  <2>1. ASSUME NEW v \in Value, GetImmutable(c, v) PROVE ImmutableStep
    BY <2>1 DEF GetImmutable, ImmutableStep, Used
  <2> QED BY <1>2, <2>1 DEF Reads, Ping, FindNode, GetPeers, GetMutable, ImmutableStep,
                            storeVars, history
<1>3. ASSUME NEW c \in Client, Puts(c) PROVE ImmutableStep
  <2>1. ASSUME NEW v \in Value, NEW flaw, PutImmutable(c, v, flaw) PROVE ImmutableStep
    BY <2>1 DEF PutImmutable, Refuses, ImmutableStep, storeVars, history
  <2>2. ASSUME NEW t, NEW p, NEW a, AnnouncePeer(c, t, p, a) PROVE ImmutableStep
    BY <2>2 DEF AnnouncePeer, Refuses, ImmutableStep, storeVars, history
  <2>3. ASSUME NEW t, NEW seq, NEW cas, NEW flaw, PutMutable(c, t, seq, cas, flaw)
        PROVE  ImmutableStep
    BY <2>3 DEF PutMutable, ImmutableStep
  <2> QED BY <1>3, <2>1, <2>2, <2>3 DEF Puts
<1>4. CASE UNCHANGED vars BY <1>4 DEF vars, ImmutableStep, storeVars, history
<1> QED BY <1>1, <1>2, <1>3, <1>4 DEF Next

\* The history of a step that uses v.
LEMMA SinceUsed ==
    ASSUME ImmutableInv, NEW v \in Value, UsesValue(v)
    PROVE  /\ DOMAIN since' = DOMAIN since \cup {v} /\ since'[v] = {}
           /\ \A w \in DOMAIN since : w # v => since'[w] = since[w] \cup {v}
           /\ DOMAIN since' \subseteq Value
           /\ \A w \in DOMAIN since' : IsFiniteSet(since'[w]) /\ since'[w] \subseteq Value
<1>1. /\ DOMAIN since' = DOMAIN since \cup {v} /\ since'[v] = {}
      /\ \A w \in DOMAIN since : w # v => since'[w] = since[w] \cup {v}
  BY DEF UsesValue
<1>2. ASSUME NEW w \in DOMAIN since' PROVE IsFiniteSet(since'[w]) /\ since'[w] \subseteq Value
  <2>1. CASE w = v
    BY <1>1, <2>1, FS_EmptySet
  <2>2. CASE w # v
    <3>1. IsFiniteSet(since[w]) /\ since[w] \subseteq Value /\ since'[w] = since[w] \cup {v}
      BY <1>1, <2>2 DEF ImmutableInv
    <3> QED BY <3>1, FS_AddElement
  <2> QED BY <2>1, <2>2
<1> QED BY <1>1, <1>2 DEF ImmutableInv

LEMMA ImmutableInvStep == ImmutableInv /\ ImmutableStep => ImmutableInv'
<1> SUFFICES ASSUME ImmutableInv, ImmutableStep PROVE ImmutableInv' OBVIOUS
<1>0. MaxImmutable \in Nat \ {0} /\ LruOK(immutable, Value, MaxImmutable)
  BY ServerAssumption DEF ImmutableInv
<1>1. CASE UNCHANGED <<immutable, since>>
  BY <1>1 DEF ImmutableInv, LruOK, AheadOf, Keys
<1> PICK cache : cache = immutable'
  OBVIOUS
<1>2. ASSUME NEW v \in Value, Holds(immutable, v), cache = Used(immutable, v), UsesValue(v)
      PROVE  ImmutableInv'
  <2>0. LruOK(cache, Value, MaxImmutable) /\ UsesKey(immutable, v, cache)
    BY <1>0, <1>2, UsedOK
  <2>1. LruOK(cache, Value, MaxImmutable) /\ Keys(cache) = Keys(immutable)
    BY <2>0 DEF UsesKey
  <2>2. /\ AheadOf(cache, v) = {}
        /\ \A k : AheadOf(cache, k) \subseteq AheadOf(immutable, k) \cup {v}
    BY <1>2, <2>0 DEF UsesKey
  <2>3. v \in DOMAIN since
    BY <1>2 DEF ImmutableInv, Holds
  <2>4. ASSUME NEW w \in Keys(cache) PROVE AheadOf(cache, w) \subseteq since'[w]
    <3>1. CASE w = v
      BY <2>2, <3>1
    <3>2. CASE w # v
      <4>1. AheadOf(immutable, w) \subseteq since[w] /\ w \in DOMAIN since
        BY <2>1 DEF ImmutableInv
      <4>2. since'[w] = since[w] \cup {v}
        BY <1>2, <3>2, <4>1, SinceUsed
      <4>3. AheadOf(cache, w) \subseteq AheadOf(immutable, w) \cup {v}
        BY <2>2
      <4> QED BY <4>1, <4>2, <4>3
    <3> QED BY <3>1, <3>2
  <2>5. ASSUME NEW w \in DOMAIN since' \ Keys(cache)
        PROVE  Cardinality(since'[w]) >= MaxImmutable
    <3>1. w # v /\ w \in DOMAIN since /\ w \notin Keys(immutable)
      BY <1>2, <2>1, <2>5, SinceUsed DEF Holds
    <3>2. since'[w] = since[w] \cup {v} /\ IsFiniteSet(since'[w])
      BY <1>2, <2>5, <3>1, SinceUsed
    <3>3. Cardinality(since[w]) >= MaxImmutable /\ IsFiniteSet(since[w])
      BY <3>1 DEF ImmutableInv
    <3>4. /\ Cardinality(since[w]) <= Cardinality(since'[w])
          /\ Cardinality(since[w]) \in Nat /\ Cardinality(since'[w]) \in Nat
      BY <3>2, <3>3, FS_Subset, FS_CardinalityType
    <3> QED BY <1>0, <3>3, <3>4
  <2>6. /\ DOMAIN since' \subseteq Value
        /\ \A w \in DOMAIN since' : IsFiniteSet(since'[w]) /\ since'[w] \subseteq Value
        /\ Keys(cache) \subseteq DOMAIN since'
    <3>1. Keys(immutable) \subseteq DOMAIN since
      BY DEF ImmutableInv
    <3> QED BY <1>2, <2>1, <3>1, SinceUsed
  <2> QED BY <2>1, <2>4, <2>5, <2>6 DEF ImmutableInv
<1>3. ASSUME NEW v \in Value, cache = Stored(immutable, v, v, MaxImmutable), UsesValue(v)
      PROVE  ImmutableInv'
  <2>1. LruOK(cache, Value, MaxImmutable) /\ PutsKey(immutable, v, v, MaxImmutable, cache)
    BY <1>0, <1>3, StoredOK
  <2>2. /\ Holds(cache, v) /\ AheadOf(cache, v) = {}
        /\ Keys(cache) \subseteq Keys(immutable) \cup {v}
        /\ \A k : AheadOf(cache, k) \subseteq AheadOf(immutable, k) \cup {v}
        /\ \A k \in Keys(immutable) \ Keys(cache) :
             /\ Keys(cache) \subseteq AheadOf(immutable, k) \cup {v}
             /\ IsFiniteSet(Keys(cache)) /\ Cardinality(Keys(cache)) = MaxImmutable
    BY <2>1 DEF PutsKey
  <2>3. Keys(immutable) \subseteq DOMAIN since
    BY DEF ImmutableInv
  <2>4. ASSUME NEW w \in Keys(cache) PROVE AheadOf(cache, w) \subseteq since'[w]
    <3>1. CASE w = v
      BY <2>2, <3>1
    <3>2. CASE w # v
      <4>1. AheadOf(immutable, w) \subseteq since[w] /\ w \in DOMAIN since
        BY <2>2, <2>3, <3>2 DEF ImmutableInv
      <4>2. since'[w] = since[w] \cup {v}
        BY <1>3, <3>2, <4>1, SinceUsed
      <4>3. AheadOf(cache, w) \subseteq AheadOf(immutable, w) \cup {v}
        BY <2>2
      <4> QED BY <4>1, <4>2, <4>3
    <3> QED BY <3>1, <3>2
  <2>5. ASSUME NEW w \in DOMAIN since' \ Keys(cache)
        PROVE  Cardinality(since'[w]) >= MaxImmutable
    <3>1. w # v /\ w \in DOMAIN since
      <4>1. v \in Keys(cache) /\ DOMAIN since' = DOMAIN since \cup {v}
        BY <1>3, <2>2, SinceUsed DEF Holds
      <4> QED BY <2>5, <4>1
    <3>2. since'[w] = since[w] \cup {v} /\ IsFiniteSet(since'[w])
      BY <1>3, <2>5, <3>1, SinceUsed
    <3>3. CASE w \notin Keys(immutable)
      <4>1. Cardinality(since[w]) >= MaxImmutable /\ IsFiniteSet(since[w])
        BY <3>1, <3>3 DEF ImmutableInv
      <4>2. /\ Cardinality(since[w]) <= Cardinality(since'[w])
            /\ Cardinality(since[w]) \in Nat /\ Cardinality(since'[w]) \in Nat
        BY <3>2, <4>1, FS_Subset, FS_CardinalityType
      <4> QED BY <1>0, <4>1, <4>2
    <3>4. CASE w \in Keys(immutable)
      <4>1. AheadOf(immutable, w) \subseteq since[w]
        BY <3>4 DEF ImmutableInv
      <4>2. Keys(cache) \subseteq since'[w] /\ Cardinality(Keys(cache)) = MaxImmutable
        BY <2>2, <2>5, <3>2, <3>4, <4>1
      <4>3. Cardinality(Keys(cache)) <= Cardinality(since'[w])
        BY <3>2, <4>2, FS_Subset
      <4> QED BY <4>2, <4>3
    <3> QED BY <3>3, <3>4
  <2>6. /\ DOMAIN since' \subseteq Value
        /\ \A w \in DOMAIN since' : IsFiniteSet(since'[w]) /\ since'[w] \subseteq Value
        /\ Keys(cache) \subseteq DOMAIN since'
    BY <1>3, <2>2, <2>3, SinceUsed
  <2> QED BY <2>1, <2>4, <2>5, <2>6 DEF ImmutableInv
<1> QED BY <1>1, <1>2, <1>3 DEF ImmutableStep

\* A cold start keeps nothing.
LEMMA ImmutableInvariant == Spec => []ImmutableInv
<1>1. Init => ImmutableInv
  <2> SUFFICES ASSUME Init PROVE ImmutableInv OBVIOUS
  <2>1. immutable = EmptyLru /\ since = [v \in {} |-> {}] /\ MaxImmutable \in Nat
    BY ServerAssumption DEF Init
  <2>2. LruOK(immutable, Value, MaxImmutable) /\ Keys(immutable) = {} /\ DOMAIN since = {}
    BY <2>1, EmptyIsOK
  <2> QED BY <2>2 DEF ImmutableInv
<1> QED BY <1>1, ImmutableInvStep, StepsOfImmutable, PTL DEF Spec

\* A value that was put or read stays in the store until as many others as it holds have
\* been put or read, however the uses interleave.
THEOREM UsedStay == Spec => []UsedValuesStay
<1>1. ImmutableInv => UsedValuesStay
  BY DEF ImmutableInv, UsedValuesStay, Holds
<1> QED BY <1>1, ImmutableInvariant, PTL

-----------------------------------------------------------------------------
(* The types.                                                              *)

LEMMA MutableInvariant == Spec => [](MutableInv /\ WinnersInv)
<1>1. Init => MutableInv /\ WinnersInv
  BY DEF Init, MutableInv, WinnersInv, EmptyLru, Keys, Peek
<1>2. MutableInv /\ WinnersInv /\ [Next]_vars => MutableInv' /\ WinnersInv'
  BY MutableInvStep, WinnersInvStep, StepsOfMutable
<1> QED BY <1>1, <1>2, PTL DEF Spec

\* The two stores of the other kinds keep to their caps, and so does each info hash;
\* what is announced is there.
StoresInv ==
    /\ LruOK(mutable, Target, MaxMutable)
    /\ LruOK(peers, Target, MaxInfoHashes)
    /\ \A t \in Keys(peers) :
         LruOK(Peek(peers, t), Peer, MaxPeers) /\ Keys(Peek(peers, t)) # {}

PeersStep ==
    \/ UNCHANGED peers
    \/ \E t \in Target : peers' = Used(peers, t)
    \/ \E t \in Target, p \in Peer, a \in Address : peers' = Announced(t, p, a)

LEMMA StepsOfPeers == [Next]_vars => PeersStep
<1> SUFFICES ASSUME [Next]_vars PROVE PeersStep OBVIOUS
<1>1. CASE Tick BY <1>1 DEF Tick, PeersStep, storeVars
<1>2. ASSUME NEW c \in Client, Reads(c) PROVE PeersStep
  BY <1>2 DEF Reads, Ping, FindNode, GetPeers, GetImmutable, GetMutable, PeersStep, storeVars
<1>3. ASSUME NEW c \in Client, NEW t \in Target, NEW p \in Peer, NEW a \in Address,
             AnnouncePeer(c, t, p, a)
      PROVE  PeersStep
  BY <1>3 DEF AnnouncePeer, Refuses, PeersStep, storeVars
<1>4. ASSUME NEW c \in Client, NEW v, NEW flaw, PutImmutable(c, v, flaw) PROVE PeersStep
  BY <1>4 DEF PutImmutable, Refuses, PeersStep, storeVars
<1>5. ASSUME NEW c \in Client, NEW t, NEW seq, NEW cas, NEW flaw,
             PutMutable(c, t, seq, cas, flaw)
      PROVE  PeersStep
  BY <1>5 DEF PutMutable, PeersStep
<1>6. CASE UNCHANGED vars BY <1>6 DEF vars, PeersStep, storeVars
<1> QED BY <1>1, <1>2, <1>3, <1>4, <1>5, <1>6 DEF Next, Puts

LEMMA PeersKeep ==
    ASSUME StoresInv, PeersStep
    PROVE  /\ LruOK(peers', Target, MaxInfoHashes)
           /\ \A t \in Keys(peers') :
                LruOK(Peek(peers', t), Peer, MaxPeers) /\ Keys(Peek(peers', t)) # {}
<1>0. /\ MaxInfoHashes \in Nat \ {0} /\ MaxPeers \in Nat \ {0}
      /\ LruOK(peers, Target, MaxInfoHashes)
  BY ServerAssumption DEF StoresInv
<1>1. \A t \in Keys(peers) :
        LruOK(Peek(peers, t), Peer, MaxPeers) /\ Keys(Peek(peers, t)) # {}
  BY DEF StoresInv
<1> PICK after : after = peers'
  OBVIOUS
<1>2. CASE after = peers
  BY <1>0, <1>1, <1>2
<1>3. ASSUME NEW t \in Target, after = Used(peers, t)
      PROVE  /\ LruOK(after, Target, MaxInfoHashes)
             /\ \A u \in Keys(after) :
                  LruOK(Peek(after, u), Peer, MaxPeers) /\ Keys(Peek(after, u)) # {}
  <2>1. LruOK(after, Target, MaxInfoHashes) /\ UsesKey(peers, t, after)
    BY <1>0, <1>3, UsedOK
  <2>2. Keys(after) = Keys(peers) /\ \A u : Peek(after, u) = Peek(peers, u)
    BY <2>1 DEF UsesKey
  <2> QED BY <1>1, <2>1, <2>2
<1>4. ASSUME NEW t \in Target, NEW p \in Peer, NEW a \in Address, after = Announced(t, p, a)
      PROVE  /\ LruOK(after, Target, MaxInfoHashes)
             /\ \A u \in Keys(after) :
                  LruOK(Peek(after, u), Peer, MaxPeers) /\ Keys(Peek(after, u)) # {}
  <2> PICK known : known = IF Holds(peers, t) THEN Peek(peers, t) ELSE EmptyLru
    OBVIOUS
  <2> PICK grown : grown = Stored(known, p, a, MaxPeers)
    OBVIOUS
  <2>1. LruOK(known, Peer, MaxPeers)
    BY <1>0, <1>1, EmptyIsOK DEF Holds
  <2>2. LruOK(grown, Peer, MaxPeers) /\ PutsKey(known, p, a, MaxPeers, grown)
    BY <1>0, <2>1, StoredOK
  <2>3. LruOK(grown, Peer, MaxPeers) /\ Keys(grown) # {}
    BY <2>2 DEF PutsKey, Holds
  <2>4. after = Stored(peers, t, grown, MaxInfoHashes)
    BY <1>4 DEF Announced
  <2>5. LruOK(after, Target, MaxInfoHashes) /\ PutsKey(peers, t, grown, MaxInfoHashes, after)
    BY <1>0, <2>4, StoredOK
  <2>6. /\ Peek(after, t) = grown /\ Keys(after) \subseteq Keys(peers) \cup {t}
        /\ \A u \in Keys(after) : u # t => Peek(after, u) = Peek(peers, u)
    BY <2>5 DEF PutsKey
  <2>7. ASSUME NEW u \in Keys(after)
        PROVE  LruOK(Peek(after, u), Peer, MaxPeers) /\ Keys(Peek(after, u)) # {}
    <3>1. CASE u = t
      BY <2>3, <2>6, <3>1
    <3>2. CASE u # t
      <4>1. u \in Keys(peers) /\ Peek(after, u) = Peek(peers, u)
        BY <2>6, <3>2
      <4> QED BY <1>1, <4>1
    <3> QED BY <3>1, <3>2
  <2> QED BY <2>5, <2>7
<1> QED BY <1>2, <1>3, <1>4 DEF PeersStep

LEMMA StoresInvStep == StoresInv /\ PeersStep /\ MutableStep => StoresInv'
<1> SUFFICES ASSUME StoresInv, PeersStep, MutableStep PROVE StoresInv' OBVIOUS
<1>0. MaxMutable \in Nat \ {0} /\ LruOK(mutable, Target, MaxMutable)
  BY ServerAssumption DEF StoresInv
<1>1. LruOK(mutable', Target, MaxMutable)
  <2>1. CASE UNCHANGED mutable
    BY <1>0, <2>1
  <2>2. ASSUME NEW t \in Target, mutable' = Used(mutable, t)
        PROVE  LruOK(mutable', Target, MaxMutable)
    BY <1>0, <2>2, UsedOK
  <2>3. ASSUME NEW t \in Target, NEW seq \in SeqNo,
               mutable' = Stored(mutable, t, seq, MaxMutable)
        PROVE  LruOK(mutable', Target, MaxMutable)
    BY <1>0, <2>3, StoredOK
  <2> QED BY <2>1, <2>2, <2>3 DEF MutableStep
<1> QED BY <1>1, PeersKeep DEF StoresInv

\* An answer carries what is stored, and no more peers than a sample has.
ReplyInv ==
    /\ now \in 0 .. MaxNow
    /\ reply \in [what : Bodies, seq : SeqNo \cup {NoSeq}, found : SUBSET Peer]
    /\ Cardinality(reply.found) <= SampleSize

ReplyStep ==
    \/ UNCHANGED reply
    \/ \E what \in Bodies : reply' = Plainly(what)
    \/ \E t \in Keys(mutable), what \in Bodies : reply' = Answer(what, Peek(mutable, t), {})
    \/ \E t \in Keys(peers) : \E found \in Samples(Keys(Peek(peers, t))) :
         reply' = Answer("peers", NoSeq, found)

LEMMA StepsOfReply == [Next]_vars => ReplyStep
<1> SUFFICES ASSUME [Next]_vars PROVE ReplyStep OBVIOUS
<1> USE DEF Bodies
<1>1. CASE Tick BY <1>1 DEF Tick, ReplyStep
<1>2. ASSUME NEW c \in Client, NEW t \in Target, GetPeers(c, t) PROVE ReplyStep
  BY <1>2 DEF GetPeers, ReplyStep, Holds
<1>3. ASSUME NEW c \in Client, NEW t \in Target, NEW asked, GetMutable(c, t, asked)
      PROVE  ReplyStep
  BY <1>3 DEF GetMutable, ReadMutable, ReplyStep, Holds
<1>4. ASSUME NEW c \in Client, NEW v \in Value, GetImmutable(c, v) PROVE ReplyStep
  BY <1>4 DEF GetImmutable, ReplyStep
<1>5. ASSUME NEW c \in Client, Ping(c) \/ FindNode(c) PROVE ReplyStep
  BY <1>5 DEF Ping, FindNode, ReplyStep
<1>6. ASSUME NEW c \in Client, NEW t, NEW p, NEW a, AnnouncePeer(c, t, p, a)
      PROVE  ReplyStep
  BY <1>6 DEF AnnouncePeer, Refuses, ReplyStep
<1>7. ASSUME NEW c \in Client, NEW v, NEW flaw, PutImmutable(c, v, flaw) PROVE ReplyStep
  BY <1>7 DEF PutImmutable, Refuses, ReplyStep
<1>8. ASSUME NEW c \in Client, NEW t, NEW seq, NEW cas, NEW flaw,
             PutMutable(c, t, seq, cas, flaw)
      PROVE  ReplyStep
  <2>1. Conflict(t, seq, cas) \in {"no", "301", "302"}
    BY DEF Conflict
  <2> QED BY <1>8, <2>1 DEF PutMutable, ReplyStep
<1>9. CASE UNCHANGED vars BY <1>9 DEF vars, ReplyStep
<1> QED BY <1>1, <1>2, <1>3, <1>4, <1>5, <1>6, <1>7, <1>8, <1>9 DEF Next, Reads, Puts

LEMMA ReplyInvStep ==
    StoresInv /\ MutableInv /\ ReplyInv /\ ReplyStep /\ [Next]_vars => ReplyInv'
<1> SUFFICES ASSUME StoresInv, MutableInv, ReplyInv, ReplyStep, [Next]_vars PROVE ReplyInv'
  OBVIOUS
<1>0. SampleSize \in Nat \ {0} /\ MaxNow \in Nat
  BY ServerAssumption
<1>1. now' \in 0 .. MaxNow
  <2>1. now \in 0 .. MaxNow
    BY DEF ReplyInv
  <2>2. now' = now \/ (now < MaxNow /\ now' = now + 1)
    BY DEF Next, Tick, Reads, Puts, Ping, FindNode, GetPeers, GetMutable, GetImmutable,
           AnnouncePeer, PutImmutable, PutMutable, Handles, vars
  <2> QED BY <1>0, <2>1, <2>2
<1>2. ASSUME NEW what \in Bodies, NEW seq \in SeqNo \cup {NoSeq}, NEW found \in SUBSET Peer,
             reply' = Answer(what, seq, found), Cardinality(found) <= SampleSize
      PROVE  ReplyInv'
  BY <1>1, <1>2 DEF Answer, ReplyInv
<1>3. Cardinality({}) <= SampleSize
  BY <1>0, FS_EmptySet
<1>4. CASE UNCHANGED reply
  BY <1>1, <1>4 DEF ReplyInv
<1>5. ASSUME NEW what \in Bodies, reply' = Plainly(what) PROVE ReplyInv'
  BY <1>2, <1>3, <1>5 DEF Plainly
<1>6. ASSUME NEW t \in Keys(mutable), NEW what \in Bodies,
             reply' = Answer(what, Peek(mutable, t), {})
      PROVE  ReplyInv'
  <2>1. Peek(mutable, t) \in SeqNo
    BY DEF MutableInv
  <2> QED BY <1>2, <1>3, <1>6, <2>1
<1>7. ASSUME NEW t \in Keys(peers), NEW found \in Samples(Keys(Peek(peers, t))),
             reply' = Answer("peers", NoSeq, found)
      PROVE  ReplyInv'
  <2> PICK known : known = Keys(Peek(peers, t))
    OBVIOUS
  <2> PICK store : store = Peek(peers, t)
    OBVIOUS
  <2>1. LruOK(store, Peer, MaxPeers)
    BY DEF StoresInv
  <2>2. known \subseteq Peer /\ IsFiniteSet(known)
    <3>1. store.order \in Seq(Peer) /\ Distinct(store.order) /\ known = ToSet(store.order)
      BY <2>1 DEF LruOK
    <3> QED BY <3>1, SizeOfDistinct, LenProperties DEF ToSet
  <2>3. found \subseteq known /\ Cardinality(found) <= SampleSize
    <3>1. Cardinality(known) \in Nat
      BY <2>2, FS_CardinalityType
    <3> QED BY <1>0, <3>1 DEF Samples
  <2>4. found \in SUBSET Peer /\ "peers" \in Bodies
    BY <2>2, <2>3 DEF Bodies
  <2> QED BY <1>2, <1>7, <2>3, <2>4
<1> QED BY <1>4, <1>5, <1>6, <1>7 DEF ReplyStep

\* Every variable has its type: tokens and answers, and the stores within their caps, no
\* info hash without a peer and no sequence number that was not put.
THEOREM ServerTypeCorrect == Spec => []TypeOK
<1>1. Init => StoresInv /\ ReplyInv
  <2> SUFFICES ASSUME Init PROVE StoresInv /\ ReplyInv OBVIOUS
  <2>1. MaxMutable \in Nat /\ MaxInfoHashes \in Nat /\ SampleSize \in Nat /\ MaxNow \in Nat
    BY ServerAssumption
  <2>2. StoresInv
    BY <2>1, EmptyIsOK DEF Init, StoresInv
  <2>3. ReplyInv
    BY <2>1, FS_EmptySet DEF Init, ReplyInv, Plainly, Answer, Bodies, NoSeq
  <2> QED BY <2>2, <2>3
<1>2. StoresInv /\ MutableInv /\ ReplyInv /\ [Next]_vars => StoresInv' /\ ReplyInv'
  BY StoresInvStep, ReplyInvStep, StepsOfPeers, StepsOfMutable, StepsOfReply
<1>3. TokensInv /\ ImmutableInv /\ MutableInv /\ WinnersInv /\ StoresInv /\ ReplyInv => TypeOK
  <2> SUFFICES ASSUME TokensInv, ImmutableInv, MutableInv, WinnersInv, StoresInv, ReplyInv
               PROVE  TypeOK
    OBVIOUS
  <2>1. /\ Bounded(immutable, Value, MaxImmutable) /\ Bounded(mutable, Target, MaxMutable)
        /\ Bounded(peers, Target, MaxInfoHashes)
    BY BoundedIs DEF ImmutableInv, StoresInv
  <2>2. \A t \in Keys(peers) :
          Bounded(Peek(peers, t), Peer, MaxPeers) /\ Keys(Peek(peers, t)) # {}
    BY BoundedIs DEF StoresInv
  <2>3. now \in 0 .. MaxNow /\ now \in Nat
    BY DEF ReplyInv, TokensInv
  <2>4. tokens \in [prev : Nat, curr : Nat \ {0}, at : 0 .. now]
    BY <2>3 DEF TokensInv
  <2>5. held \in [Client -> [secret : Int, at : 0 .. now]]
    <3>1. ASSUME NEW c \in Client PROVE held[c] \in [secret : Int, at : 0 .. now]
      <4>1. held[c] \in [secret : Int, at : Nat]
        BY DEF TokensInv
      <4>2. CASE held[c] = NoToken
        BY <2>3, <4>2 DEF NoToken
      <4>3. CASE held[c] # NoToken
        <5>1. held[c].at <= now
          BY <4>3 DEF TokensInv
        <5> QED BY <2>3, <4>1, <5>1
      <4> QED BY <4>2, <4>3
    <3>2. held = [c \in Client |-> held[c]]
      BY DEF TokensInv
    <3> QED BY <3>1, <3>2
  <2>6. raises \in [Target -> [SeqNo -> Nat]]
    BY DEF WinnersInv
  <2>7. /\ DOMAIN since \subseteq Value /\ \A v \in DOMAIN since : since[v] \subseteq Value
    BY DEF ImmutableInv
  <2>8. \A t \in Keys(mutable) : Peek(mutable, t) \in SeqNo
    BY DEF MutableInv
  <2> QED BY <2>1, <2>2, <2>3, <2>4, <2>5, <2>6, <2>7, <2>8 DEF TypeOK, ReplyInv
<1> QED BY <1>1, <1>2, <1>3, TokensInvariant, ImmutableInvariant, MutableInvariant, PTL
       DEF Spec

-----------------------------------------------------------------------------
(* Who may change what is stored.                                          *)

\* What the stores hold, whatever the order of its last uses.
Contents == <<peers.of, immutable.of, mutable.of>>

\* server.rs, handle_request: what a node keeps for others is entered, replaced or
\* evicted only for an address the filter lets through that holds a token the node gave
\* it: signed with the secret of now, or with the one before while no rotation is due.
\* A get changes no more than the order of the uses, however requests interleave.
OnlyHoldersWrite ==
    [][Contents' # Contents =>
         \E c \in Client \ Banned :
            /\ held[c] # NoToken
            /\ \/ held[c].secret = tokens.curr
               \/ /\ held[c].secret = tokens.prev
                  /\ now - tokens.at <= Rotate]_vars

LEMMA UseKeepsContents ==
    ASSUME NEW lru, NEW key
    PROVE  Used(lru, key).of = lru.of
BY DEF Used

\* A token that validates was given: nobody holds a secret that is yet to be drawn, and
\* what no token was given is no secret at all.
LEMMA ValidWasGiven ==
    ASSUME TokensInv, NEW c \in Client, Validates(held[c])
    PROVE  /\ held[c] # NoToken
           /\ \/ held[c].secret = tokens.curr
              \/ held[c].secret = tokens.prev /\ now - tokens.at <= Rotate
<1>1. held[c].secret \in {Rotated.prev, Rotated.curr}
  BY DEF Validates
<1>2. /\ Rotated.prev \in Int /\ Rotated.curr \in Int
      /\ Rotated.prev = Rotated.curr - 1 /\ Rotated.curr >= 1
  BY RotatedOnce
<1>3. held[c] # NoToken
  BY <1>1, <1>2 DEF NoToken
<1>4. held[c].secret \in Int /\ held[c].secret <= tokens.curr /\ tokens.curr \in Int
  BY <1>3 DEF TokensInv
<1>5. CASE ShouldUpdate
  <2>1. Rotated.prev = tokens.curr /\ Rotated.curr = tokens.curr + 1
    BY <1>5 DEF Rotated
  <2> QED BY <1>1, <1>3, <1>4, <2>1
<1>6. CASE ~ShouldUpdate
  <2>1. Rotated = tokens
    BY <1>6 DEF Rotated
  <2>2. now - tokens.at <= Rotate
    BY <1>6, ServerAssumption DEF ShouldUpdate, TokensInv
  <2> QED BY <1>1, <1>3, <2>1, <2>2
<1> QED BY <1>5, <1>6

\* What the handlers do to the contents, and for whom.
LEMMA StepsOfContents ==
    [Next]_vars =>
       \/ UNCHANGED Contents
       \/ \E c \in Client \ Banned : Validates(held[c])
<1> SUFFICES ASSUME [Next]_vars
             PROVE  \/ UNCHANGED Contents
                    \/ \E c \in Client \ Banned : Validates(held[c])
  OBVIOUS
<1>1. CASE Tick
  BY <1>1 DEF Tick, storeVars, Contents
<1>2. ASSUME NEW c \in Client, Reads(c)
      PROVE  UNCHANGED Contents
  <2>1. CASE Ping(c) \/ FindNode(c)
    BY <2>1 DEF Ping, FindNode, storeVars, Contents
  <2>2. ASSUME NEW t \in Target, GetPeers(c, t)
        PROVE  UNCHANGED Contents
    BY <2>2, UseKeepsContents DEF GetPeers, Contents
  <2>3. ASSUME NEW v \in Value, GetImmutable(c, v)
        PROVE  UNCHANGED Contents
    BY <2>3, UseKeepsContents DEF GetImmutable, Contents
  <2>4. ASSUME NEW t \in Target, NEW asked \in SeqNo \cup {NoSeq}, GetMutable(c, t, asked)
        PROVE  UNCHANGED Contents
    BY <2>4, UseKeepsContents DEF GetMutable, ReadMutable, Contents
  <2> QED BY <1>2, <2>1, <2>2, <2>3, <2>4 DEF Reads
<1>3. ASSUME NEW c \in Client, Puts(c)
      PROVE  UNCHANGED Contents \/ (c \notin Banned /\ Validates(held[c]))
  <2>1. ASSUME NEW t, NEW p, NEW a, AnnouncePeer(c, t, p, a)
        PROVE  UNCHANGED Contents \/ (c \notin Banned /\ Validates(held[c]))
    BY <2>1 DEF AnnouncePeer, Handles, Refuses, storeVars, Contents
  <2>2. ASSUME NEW v, NEW flaw, PutImmutable(c, v, flaw)
        PROVE  UNCHANGED Contents \/ (c \notin Banned /\ Validates(held[c]))
    BY <2>2 DEF PutImmutable, Handles, Refuses, storeVars, Contents
  <2>3. ASSUME NEW t, NEW seq, NEW cas, NEW flaw, PutMutable(c, t, seq, cas, flaw)
        PROVE  UNCHANGED Contents \/ (c \notin Banned /\ Validates(held[c]))
    BY <2>3 DEF PutMutable, Handles, Contents
  <2> QED BY <1>3, <2>1, <2>2, <2>3 DEF Puts
<1>4. CASE UNCHANGED vars
  BY <1>4 DEF vars, storeVars, Contents
<1> QED BY <1>1, <1>2, <1>3, <1>4 DEF Next

\* What a node stores changes only for those it gave a token that still counts.
THEOREM HoldersWrite == Spec => OnlyHoldersWrite
<1>1. TokensInv /\ [Next]_vars =>
        [Contents' # Contents =>
           \E c \in Client \ Banned :
              /\ held[c] # NoToken
              /\ \/ held[c].secret = tokens.curr
                 \/ /\ held[c].secret = tokens.prev
                    /\ now - tokens.at <= Rotate]_vars
  <2> SUFFICES ASSUME TokensInv, [Next]_vars, Contents' # Contents
               PROVE  \E c \in Client \ Banned :
                         /\ held[c] # NoToken
                         /\ \/ held[c].secret = tokens.curr
                            \/ held[c].secret = tokens.prev /\ now - tokens.at <= Rotate
    OBVIOUS
  <2>1. PICK c \in Client \ Banned : Validates(held[c])
    BY StepsOfContents
  <2> QED BY <2>1, ValidWasGiven
<1> QED BY <1>1, TokensInvariant, PTL DEF Spec, OnlyHoldersWrite
=============================================================================
