----------------------------- MODULE DhtServer ------------------------------
(***************************************************************************)
(* A DHT node in server mode (rust/mainline/src/rpc/server.rs and below):  *)
(* the tokens it hands out and takes back, and the three bounded stores it *)
(* keeps for others: the peers of an info hash, immutable and mutable      *)
(* values.  Every action is one call of Server::handle_request: the filter,*)
(* the lazy rotation of the secrets, the handler and the answer.           *)
(*                                                                         *)
(* Requests arrive in any order, late or twice: an action takes any        *)
(* arguments a requester may send, at any time, with the last token the    *)
(* server gave its address.  The routing table that answers carry is left  *)
(* out.                                                                    *)
(***************************************************************************)
EXTENDS Integers, FiniteSets, Lru

CONSTANTS
    Client,         \* addresses that send requests
    Banned,         \* those the request filter turns away
    Target,         \* targets of mutable values, and info hashes
    Value,          \* immutable values; each stands for its own hash as well
    Peer,           \* ids under which peers announce themselves
    Address,        \* where they can be reached: whence the request came (implied_port),
                    \* or there at the port it names
    MaxSeq,         \* bound: sequence numbers 1 .. MaxSeq
    MaxNow,         \* bound: the clock
    Rotate,         \* TOKEN_ROTATE_INTERVAL
    MaxInfoHashes, MaxPeers, MaxImmutable, MaxMutable,  \* the caps of the stores
    SampleSize      \* how many peers an answer carries at most

ASSUME ServerAssumption ==
    /\ Banned \subseteq Client
    /\ {MaxSeq, MaxInfoHashes, MaxPeers, MaxImmutable, MaxMutable,
        SampleSize} \subseteq Nat \ {0}
    /\ {MaxNow, Rotate} \subseteq Nat

VARIABLES
    now,        \* Instant::now()
    tokens,     \* Tokens: the secrets, numbered as drawn, and when they were rotated
    peers,      \* PeersStore.info_hashes
    immutable,  \* immutable_values
    mutable,    \* mutable_values: the sequence number kept for a target
    held,       \* the last token each address was given, and when
    reply,      \* the answer to the last request
    raises,     \* history: per target and cas, the conditional puts that raised it
    since       \* history: per value used so far, the other values used since it was

history == <<raises, since>>
storeVars == <<peers, immutable, mutable, history>>
vars == <<now, tokens, held, reply, storeVars>>

SeqNo == 1 .. MaxSeq
NoSeq == 0
NoToken == [secret |-> -1, at |-> 0]

Answer(what, seq, found) == [what |-> what, seq |-> seq, found |-> found]
Plainly(what) == Answer(what, NoSeq, {})
Bodies == {"none", "ping", "nodes", "peers", "no_values", "immutable", "mutable",
           "no_more_recent", "203", "205", "206", "207", "301", "302"}

Init ==
    /\ now = 0
    /\ tokens = [prev |-> 0, curr |-> 1, at |-> 0]
    /\ peers = EmptyLru /\ immutable = EmptyLru /\ mutable = EmptyLru
    /\ held = [c \in Client |-> NoToken]
    /\ reply = Plainly("none")
    /\ raises = [t \in Target |-> [s \in SeqNo |-> 0]]
    /\ since = [v \in {} |-> {}]

-----------------------------------------------------------------------------
(* Tokens.  A token is a checksum of the address and a secret; here it is  *)
(* the secret, and each address presents only what it was given.           *)

\* Mutant of ShouldUpdate: due at one instant only.
ShouldUpdateOnce == now - tokens.at = Rotate + 1

ShouldUpdate == now - tokens.at > Rotate

\* Mutant of Rotated: the rotation is not dated.
RotatedUndated ==
    IF ShouldUpdate THEN [tokens EXCEPT !.prev = tokens.curr, !.curr = tokens.curr + 1]
    ELSE tokens

\* The secrets a request is handled with.
Rotated ==
    IF ShouldUpdate THEN [prev |-> tokens.curr, curr |-> tokens.curr + 1, at |-> now]
    ELSE tokens

Validates(token) == token.secret \in {Rotated.prev, Rotated.curr}

\* Every handler starts here.
Handles(c) == c \notin Banned /\ tokens' = Rotated /\ UNCHANGED now

Gives(c) == held' = [held EXCEPT ![c] = [secret |-> Rotated.curr, at |-> now]]

-----------------------------------------------------------------------------
(* Requests that read.                                                     *)

Ping(c) == Handles(c) /\ reply' = Plainly("ping") /\ UNCHANGED <<held, storeVars>>

FindNode(c) == Handles(c) /\ reply' = Plainly("nodes") /\ UNCHANGED <<held, storeVars>>

\* get_random_peers: all peers of an info hash if they are few, else a draw of at
\* most SampleSize of them, item by item and with the odds rounded: it may fall short.
Samples(known) ==
    IF Cardinality(known) < SampleSize THEN {known}
    ELSE {some \in SUBSET known : Cardinality(some) <= SampleSize}

GetPeers(c, infoHash) ==
    /\ Handles(c)
    /\ Gives(c)
    /\ peers' = Used(peers, infoHash)
    /\ \/ ~Holds(peers, infoHash) /\ reply' = Plainly("no_values")
       \/ /\ Holds(peers, infoHash)
          /\ \E found \in Samples(Keys(Peek(peers, infoHash))) :
               reply' = Answer("peers", NoSeq, found)
    /\ UNCHANGED <<immutable, mutable, history>>

\* handle_get_mutable; asked is NoSeq when the request names no seq.
ReadMutable(t, asked) ==
    /\ mutable' = Used(mutable, t)
    /\ \/ ~Holds(mutable, t) /\ reply' = Plainly("no_values")
       \/ /\ Holds(mutable, t)
          /\ LET seq == Peek(mutable, t) IN
             reply' = Answer(IF asked # NoSeq /\ seq <= asked THEN "no_more_recent"
                             ELSE "mutable", seq, {})

GetMutable(c, t, asked) ==
    /\ Handles(c)
    /\ Gives(c)
    /\ ReadMutable(t, asked)
    /\ UNCHANGED <<peers, immutable, history>>

\* History: v was put or read.
UsesValue(v) ==
    since' = [w \in DOMAIN since \cup {v} |-> IF w = v THEN {} ELSE since[w] \cup {v}]

\* Mutant of GetImmutable: peek instead of get.
GetImmutablePeeks(c, v) ==
    /\ Handles(c)
    /\ Gives(c)
    /\ \/ Holds(immutable, v) /\ reply' = Plainly("immutable") /\ UsesValue(v)
       \/ ~Holds(immutable, v) /\ reply' = Plainly("no_values") /\ UNCHANGED since
    /\ UNCHANGED <<immutable, peers, mutable, raises>>

\* A get without a seq looks among the immutable values first: its target is
\* either the hash of a value or that of a key, never both.
GetImmutable(c, v) ==
    /\ Handles(c)
    /\ Gives(c)
    /\ immutable' = Used(immutable, v)
    /\ \/ Holds(immutable, v) /\ reply' = Plainly("immutable") /\ UsesValue(v)
       \/ ~Holds(immutable, v) /\ reply' = Plainly("no_values") /\ UNCHANGED since
    /\ UNCHANGED <<peers, mutable, raises>>

-----------------------------------------------------------------------------
(* Requests that store.                                                    *)

Refuses(code) == reply' = Plainly(code) /\ UNCHANGED <<storeVars>>

\* Mutant of Announced: one info hash too many.
AnnouncedOverCap(infoHash, peer, address) ==
    LET known == IF Holds(peers, infoHash) THEN Peek(peers, infoHash) ELSE EmptyLru
    IN  Stored(peers, infoHash, Stored(known, peer, address, MaxPeers), MaxInfoHashes + 1)

Announced(infoHash, peer, address) ==
    LET known == IF Holds(peers, infoHash) THEN Peek(peers, infoHash) ELSE EmptyLru
    IN  Stored(peers, infoHash, Stored(known, peer, address, MaxPeers), MaxInfoHashes)

AnnouncePeer(c, infoHash, peer, address) ==
    /\ Handles(c)
    /\ UNCHANGED held
    /\ \/ ~Validates(held[c]) /\ Refuses("203")
       \/ /\ Validates(held[c])
          /\ peers' = Announced(infoHash, peer, address)
          /\ reply' = Plainly("ping")
          /\ UNCHANGED <<immutable, mutable, history>>

\* flaw: "205" a value of more than 1000 bytes, "203" a target that is not its hash.
PutImmutable(c, v, flaw) ==
    /\ Handles(c)
    /\ UNCHANGED held
    /\ \/ ~Validates(held[c]) /\ Refuses("203")
       \/ Validates(held[c]) /\ flaw \in {"203", "205"} /\ Refuses(flaw)
       \/ /\ Validates(held[c])
          /\ flaw = "no"
          /\ immutable' = Stored(immutable, v, v, MaxImmutable)
          /\ reply' = Plainly("ping")
          /\ UsesValue(v)
          /\ UNCHANGED <<peers, mutable, raises>>

\* Mutants of Conflict: a cas does for the seq; a cas may lag behind.
ConflictCasOnly(t, seq, cas) ==
    IF ~Holds(mutable, t) THEN "no"
    ELSE IF cas = NoSeq THEN "no"
    ELSE IF Peek(mutable, t) # cas THEN "301"
    ELSE "no"

ConflictLax(t, seq, cas) ==
    IF ~Holds(mutable, t) THEN "no"
    ELSE IF cas # NoSeq /\ Peek(mutable, t) < cas THEN "301"
    ELSE IF seq < Peek(mutable, t) THEN "302"
    ELSE "no"

\* What the stored item says against a put: "no", or the code of the error.
Conflict(t, seq, cas) ==
    IF ~Holds(mutable, t) THEN "no"
    ELSE IF cas # NoSeq /\ Peek(mutable, t) # cas THEN "301"
    ELSE IF seq < Peek(mutable, t) THEN "302"
    ELSE "no"

\* History: the raises of a target are forgotten with its item.
Raised(t, seq, cas, items) ==
    [u \in Target |->
        [s \in SeqNo |->
            IF ~Holds(items, u) THEN 0
            ELSE IF u = t /\ s = cas /\ seq > cas /\ Holds(mutable, t) THEN raises[u][s] + 1
            ELSE raises[u][s]]]

\* flaw: "205" the value, "207" the salt is too big, "206" the signature is wrong.
\* Looking the item up is a use, even when the put is then refused.
PutMutable(c, t, seq, cas, flaw) ==
    /\ Handles(c)
    /\ UNCHANGED <<held, peers, immutable, since>>
    /\ \/ ~Validates(held[c]) /\ reply' = Plainly("203") /\ UNCHANGED <<mutable, raises>>
       \/ /\ Validates(held[c])
          /\ flaw \in {"205", "207"}
          /\ reply' = Plainly(flaw)
          /\ UNCHANGED <<mutable, raises>>
       \/ /\ Validates(held[c])
          /\ flaw \in {"no", "206"}
          /\ LET conflict == Conflict(t, seq, cas)
                 items == Stored(mutable, t, seq, MaxMutable) IN
             \/ /\ conflict # "no"
                /\ mutable' = Used(mutable, t)
                /\ reply' = Plainly(conflict)
                /\ UNCHANGED raises
             \/ /\ conflict = "no" /\ flaw = "206"
                /\ mutable' = Used(mutable, t)
                /\ reply' = Plainly("206")
                /\ UNCHANGED raises
             \/ /\ conflict = "no" /\ flaw = "no"
                /\ mutable' = items
                /\ reply' = Plainly("ping")
                /\ raises' = Raised(t, seq, cas, items)

-----------------------------------------------------------------------------
Tick == now < MaxNow /\ now' = now + 1 /\ UNCHANGED <<tokens, held, reply, storeVars>>

Reads(c) ==
    \/ Ping(c) \/ FindNode(c)
    \/ \E t \in Target : GetPeers(c, t)
    \/ \E v \in Value : GetImmutable(c, v)
    \/ \E t \in Target, asked \in SeqNo \cup {NoSeq} : GetMutable(c, t, asked)

Puts(c) ==
    \/ \E t \in Target, p \in Peer, a \in Address : AnnouncePeer(c, t, p, a)
    \/ \E v \in Value, flaw \in {"no", "203", "205"} : PutImmutable(c, v, flaw)
    \/ \E t \in Target, seq \in SeqNo, cas \in SeqNo \cup {NoSeq},
          flaw \in {"no", "205", "206", "207"} : PutMutable(c, t, seq, cas, flaw)

Next == Tick \/ \E c \in Client : Reads(c) \/ Puts(c)

Spec == Init /\ [][Next]_vars

-----------------------------------------------------------------------------
(* Properties.                                                             *)

\* The stores keep distinct keys within their caps, and no info hash is kept
\* without a peer: get_random_peers never sees an empty set.
Bounded(lru, keys, cap) ==
    /\ Keys(lru) \subseteq keys
    /\ Keys(lru) = ToSet(lru.order)
    /\ Len(lru.order) = Cardinality(Keys(lru))
    /\ Len(lru.order) <= cap

TypeOK ==
    /\ now \in 0 .. MaxNow
    /\ tokens \in [prev : Nat, curr : Nat \ {0}, at : 0 .. now]
    /\ held \in [Client -> [secret : Int, at : 0 .. now]]
    /\ reply \in [what : Bodies, seq : SeqNo \cup {NoSeq}, found : SUBSET Peer]
    /\ Cardinality(reply.found) <= SampleSize
    /\ raises \in [Target -> [SeqNo -> Nat]]
    /\ DOMAIN since \subseteq Value /\ \A v \in DOMAIN since : since[v] \subseteq Value
    /\ Bounded(immutable, Value, MaxImmutable)
    /\ Bounded(mutable, Target, MaxMutable)
    /\ \A t \in Keys(mutable) : Peek(mutable, t) \in SeqNo
    /\ Bounded(peers, Target, MaxInfoHashes)
    /\ \A t \in Keys(peers) :
         Bounded(Peek(peers, t), Peer, MaxPeers) /\ Keys(Peek(peers, t)) # {}

\* tokens.rs, node.rs (valid_token): a token is honoured for one rotation interval
\* after it was given, whatever requests arrive and whenever the secrets rotate:
\* the request that presents it may itself be the one that rotates them.
FreshTokensHonoured ==
    \A c \in Client :
        held[c] # NoToken /\ now - held[c].at <= Rotate => Validates(held[c])

\* server.rs, handle_request: the secrets are rotated lazily, by the request that finds
\* them too old.  That is not the age of tokens.rs:49 ("within the past 10 minutes"): the
\* first request after a pause is served with a token of any age.  What the code does
\* keep is that a token that is refused once is never honoured again.
OldTokensDie ==
    [][\A c \in Client :
         held[c] # NoToken /\ held'[c] = held[c] /\ ~Validates(held[c])
            => (~Validates(held[c]))']_vars

\* While a mutable item stays in the store its sequence number never falls,
\* however puts are delayed, repeated or reordered (errors 301 and 302).
SeqNeverFalls ==
    [][\A t \in Target :
         Holds(mutable, t) /\ Holds(mutable', t)
            => Peek(mutable', t) >= Peek(mutable, t)]_vars

\* dht.rs, put_mutable, "Lost Update Problem": of the writers that read the same
\* item and put a higher sequence number on condition that it is still there, a
\* node accepts one (as long as it keeps the item: an evicted item forgets).
OneConditionalWinner ==
    \A t \in Target, s \in SeqNo : raises[t][s] <= 1

\* server.rs, ServerSettings.max_immutable_values: a value that was put or read
\* stays until as many other values as the store holds have been put or read.
UsedValuesStay ==
    \A v \in DOMAIN since : Holds(immutable, v) \/ Cardinality(since[v]) >= MaxImmutable
=============================================================================
