-------------------------- MODULE NodeUpkeepProofs --------------------------
(***************************************************************************)
(* What a node may believe of its own address, and what its routing table  *)
(* keeps, for all votes, peers, ids, distances, capacities and intervals.  *)
(***************************************************************************)
EXTENDS NodeIds, ListProofs, TLAPS

\* The inductive invariant: the pings on their way were sent to addresses that reach
\* the node, and what is confirmed is one of them.  Neither the table nor the lookups
\* matter: their votes may name any address, at any time.
PublicInv == pings \subseteq PublicAt /\ ConfirmedMeansPublic

LEMMA InitPublic == Init => PublicInv
BY DEF Init, PublicInv, ConfirmedMeansPublic

\* The votes of a lookup may replace the address: then nothing is confirmed any more.
LEMMA ProposedKeeps ==
    ASSUME PublicInv, NEW address, Proposed(address), id' = id
    PROVE  PublicInv'
<1>1. CASE address = NoAddress
  BY <1>1 DEF Proposed, PublicInv, ConfirmedMeansPublic
<1>2. CASE address # NoAddress /\ address = public
  BY <1>2 DEF Proposed, PublicInv, ConfirmedMeansPublic
<1>3. CASE address # NoAddress /\ address # public
  BY <1>3 DEF Proposed, PublicInv, ConfirmedMeansPublic
<1> QED BY <1>1, <1>2, <1>3

\* A ping that comes back confirms the address of the moment, and only if it was sent
\* there; the id is then secure for it, or replaced by one that is.
LEMMA OwnPingKeeps ==
    ASSUME PublicInv, NEW address, OwnPingArrives(address)
    PROVE  PublicInv'
<1>1. public \in PublicAt /\ public' = public /\ pings' = pings
  BY DEF OwnPingArrives, PublicInv
<1>2. public.ip \in ValidFor[id']
  <2>1. CASE public.ip \in ValidFor[id]
    BY <2>1 DEF OwnPingArrives
  <2>2. CASE public.ip \notin ValidFor[id]
    BY <2>2 DEF OwnPingArrives
  <2> QED BY <2>1, <2>2
<1> QED BY <1>1, <1>2 DEF PublicInv, ConfirmedMeansPublic

LEMMA NextPublic == PublicInv /\ [Next]_vars => PublicInv'
<1> SUFFICES ASSUME PublicInv, [Next]_vars PROVE PublicInv'
  OBVIOUS
<1> DEFINE Same == UNCHANGED <<id, public, firewalled, pings>>
<1>0. Same => PublicInv'
  BY DEF PublicInv, ConfirmedMeansPublic
<1>1. CASE Tick
  BY <1>0, <1>1 DEF Tick
<1>2. CASE Maintain
  BY <1>0, <1>2 DEF Maintain, Periodically
<1>3. ASSUME NEW target \in Wanted, Get(target) PROVE PublicInv'
  BY <1>0, <1>3 DEF Get
<1>4. ASSUME NEW target \in Target, EndLookup(target) PROVE PublicInv'
  <2>1. PICK address \in BestAddresses(target) : Proposed(address)
    BY <1>4 DEF EndLookup
  <2> QED BY <1>4, <2>1, ProposedKeeps DEF EndLookup
<1>5. ASSUME NEW target \in Target, NEW peer \in Peer, NEW address \in Address \cup {NoAddress},
             NEW valued \in BOOLEAN, Answer(target, peer, address, valued)
      PROVE  PublicInv'
  BY <1>0, <1>5 DEF Answer
<1>6. ASSUME NEW peer \in Peer, FindNodeArrives(peer.id, peer.address) PROVE PublicInv'
  BY <1>0, <1>6 DEF FindNodeArrives
<1>7. ASSUME NEW address \in Address, OwnPingArrives(address) PROVE PublicInv'
  BY <1>7, OwnPingKeeps
<1>8. CASE UNCHANGED vars
  BY <1>0, <1>8 DEF vars
<1> QED BY <1>1, <1>2, <1>3, <1>4, <1>5, <1>6, <1>7, <1>8 DEF Next

\* rpc.rs, handle_request and update_address_votes_from_iterative_query: a node counts
\* as reachable only at the address it holds for its own, where a ping of its own did
\* arrive, and under an id that is secure for it.
THEOREM ReachedWhereItThinks == Spec => []ConfirmedMeansPublic
<1>1. PublicInv => ConfirmedMeansPublic
  BY DEF PublicInv
<1> QED BY <1>1, InitPublic, NextPublic, PTL DEF Spec

\* rpc.rs, try_switching_to_server_mode: a node becomes a server only when it is
\* reachable.
THEOREM OnlyThePublicServe == Spec => ServesWhenPublic
<1> DEFINE Becomes == serverMode' /\ ~serverMode => public \in PublicAt
<1>1. PublicInv /\ [Next]_vars => Becomes
  <2> SUFFICES ASSUME PublicInv, [Next]_vars, serverMode', ~serverMode
      PROVE  public \in PublicAt
    OBVIOUS
  <2>1. Periodically
    <3> DEFINE Same == serverMode' = serverMode
    <3>1. Tick => Same
      BY DEF Tick
    <3>2. ASSUME NEW target PROVE Get(target) \/ EndLookup(target) => Same
      BY DEF Get, EndLookup
    <3>3. ASSUME NEW target, NEW peer, NEW address, NEW valued
          PROVE  Answer(target, peer, address, valued) => Same
      BY DEF Answer
    <3>4. ASSUME NEW target, NEW from PROVE FindNodeArrives(target, from) => Same
      BY DEF FindNodeArrives
    <3>5. ASSUME NEW address PROVE OwnPingArrives(address) => Same
      BY DEF OwnPingArrives
    <3>6. UNCHANGED vars => Same
      BY DEF vars
    <3> HIDE DEF Same
    <3>7. ~Same
      BY DEF Same
    <3> QED BY <3>1, <3>2, <3>3, <3>4, <3>5, <3>6, <3>7 DEF Next, Maintain
  <2> QED BY <2>1 DEF Periodically, Switched, PublicInv, ConfirmedMeansPublic
<1>2. Spec => []PublicInv
  BY InitPublic, NextPublic, PTL DEF Spec
<1>3. PublicInv /\ [Next]_vars => [Becomes]_vars
  BY <1>1
<1> QED BY <1>2, <1>3, PTL DEF Spec, ServesWhenPublic
-----------------------------------------------------------------------------
(* The routing table.                                                      *)

\* The nodes that a table may hold: the ids and addresses are those of the peers.
Node == [id : Id \ OwnId, address : {p.address : p \in Peer}, age : Nat]

\* A bucket, seen from own: the ids of its nodes differ and are at the distance d.
BucketOK(bucket, d, own) ==
    /\ bucket \in Seq(Node) /\ Len(bucket) <= K
    /\ \A i, j \in 1 .. Len(bucket) :
         /\ Distance[<<own, bucket[i].id>>] = d
         /\ bucket[i].id = bucket[j].id => i = j

Lacks(bucket, unwanted) == \A i \in 1 .. Len(bucket) : bucket[i].id # unwanted

LEMMA PartKeeps ==
    ASSUME NEW bucket, NEW d, NEW own, BucketOK(bucket, d, own),
           NEW k, NEW part \in Seq(Node), PartWithout(part, bucket, k),
           Len(part) <= Len(bucket)
    PROVE  /\ BucketOK(part, d, own) /\ ToSet(part) \subseteq ToSet(bucket)
           /\ k \in 1 .. Len(bucket) => Lacks(part, bucket[k].id)
<1>1. PICK p \in [1 .. Len(part) -> 1 .. Len(bucket)] :
        \A i, j \in 1 .. Len(part) :
            part[i] = bucket[p[i]] /\ p[i] # k /\ (p[i] = p[j] => i = j)
  BY DEF PartWithout
<1>2. /\ bucket \in Seq(Node) /\ Len(bucket) <= K
      /\ \A i, j \in 1 .. Len(bucket) :
           /\ Distance[<<own, bucket[i].id>>] = d
           /\ bucket[i].id = bucket[j].id => i = j
  BY DEF BucketOK
<1>3. Len(part) <= K
  <2>1. Len(part) \in Nat /\ Len(bucket) \in Nat /\ K \in Nat
    BY <1>2, LenProperties, TableAssumption
  <2> QED BY <1>2, <2>1
<1>4. ASSUME NEW i \in 1 .. Len(part), NEW j \in 1 .. Len(part)
      PROVE  /\ Distance[<<own, part[i].id>>] = d
             /\ part[i].id = part[j].id => i = j
             /\ k \in 1 .. Len(bucket) => part[i].id # bucket[k].id
  <2>1. p[i] \in 1 .. Len(bucket) /\ p[j] \in 1 .. Len(bucket)
    OBVIOUS
  <2>2. part[i] = bucket[p[i]] /\ part[j] = bucket[p[j]] /\ p[i] # k /\ (p[i] = p[j] => i = j)
    BY <1>1
  <2> QED BY <1>2, <2>1, <2>2
<1>5. BucketOK(part, d, own)
  BY <1>3, <1>4 DEF BucketOK
<1>6. ToSet(part) \subseteq ToSet(bucket)
  <2>1. DOMAIN part = 1 .. Len(part) /\ DOMAIN bucket = 1 .. Len(bucket)
    BY <1>2, LenProperties
  <2> QED BY <1>1, <2>1 DEF ToSet
<1>7. k \in 1 .. Len(bucket) => Lacks(part, bucket[k].id)
  BY <1>4 DEF Lacks
<1> QED BY <1>5, <1>6, <1>7

LEMMA GrownKeeps ==
    ASSUME NEW bucket, NEW d, NEW own, BucketOK(bucket, d, own), Len(bucket) < K,
           NEW node \in Node, Distance[<<own, node.id>>] = d, Lacks(bucket, node.id)
    PROVE  /\ BucketOK(Append(bucket, node), d, own)
           /\ ToSet(Append(bucket, node)) = ToSet(bucket) \cup {node}
<1>1. /\ bucket \in Seq(Node)
      /\ \A i, j \in 1 .. Len(bucket) :
           /\ Distance[<<own, bucket[i].id>>] = d
           /\ bucket[i].id = bucket[j].id => i = j
  BY DEF BucketOK
<1> PICK grown : grown = Append(bucket, node)
  OBVIOUS
<1>2. /\ grown \in Seq(Node) /\ Len(grown) = Len(bucket) + 1 /\ Len(bucket) \in Nat
      /\ \A i \in 1 .. Len(bucket) : grown[i] = bucket[i]
      /\ grown[Len(bucket) + 1] = node
      /\ \A i \in 1 .. Len(bucket) : bucket[i].id # node.id
  BY <1>1, AppendProperties, LenProperties DEF Lacks
<1>3. K \in Nat
  BY TableAssumption
<1>4. ASSUME NEW i \in 1 .. Len(grown), NEW j \in 1 .. Len(grown)
      PROVE  Distance[<<own, grown[i].id>>] = d /\ (grown[i].id = grown[j].id => i = j)
  <2>1. i \in 1 .. Len(bucket) \/ i = Len(bucket) + 1
    BY <1>2
  <2>2. j \in 1 .. Len(bucket) \/ j = Len(bucket) + 1
    BY <1>2
  <2> QED BY <1>1, <1>2, <2>1, <2>2, ZenonT(60)
<1>5. Len(grown) <= K
  BY <1>2, <1>3
<1>6. BucketOK(grown, d, own)
  BY <1>2, <1>4, <1>5 DEF BucketOK
<1>7. ToSet(grown) = ToSet(bucket) \cup {node}
  BY <1>1, AppendKeeps
<1> QED BY <1>6, <1>7

\* KBucket::add: a bucket takes a node in, in the place of its older self or of one
\* that is stale, or stays as it is.
LEMMA BucketAddKeeps ==
    ASSUME NEW bucket, NEW d, NEW own, BucketOK(bucket, d, own),
           NEW node \in Node, Distance[<<own, node.id>>] = d
    PROVE  /\ BucketOK(BucketAdd(bucket, node), d, own)
           /\ ToSet(BucketAdd(bucket, node)) \subseteq ToSet(bucket) \cup {node}
<1>1. bucket \in Seq(Node) /\ Len(bucket) \in Nat /\ K \in Nat \ {0} /\ Len(bucket) <= K
  BY LenProperties, TableAssumption DEF BucketOK
<1> DEFINE Same == {i \in 1 .. Len(bucket) : bucket[i].id = node.id}
<1>0. PICK same : same = SelectInSeq(bucket, LAMBDA n : n.id = node.id)
  OBVIOUS
<1>2. same = IF Same # {} THEN Min(Same) ELSE 0
  BY <1>0 DEF SelectInSeq
<1>3. BucketAdd(bucket, node) =
        IF same > 0
        THEN IF Updates(node, bucket[same]) THEN Append(RemoveAt(bucket, same), node) ELSE bucket
        ELSE IF Len(bucket) < K THEN Append(bucket, node)
        ELSE IF IsStale(bucket[1]) THEN Append(Tail(bucket), node)
        ELSE bucket
  BY <1>0 DEF BucketAdd
<1>4. CASE Same = {}
  <2>1. ~(same > 0) /\ \A i \in 1 .. Len(bucket) : bucket[i].id # node.id
    BY <1>2, <1>4
  <2>5. Lacks(bucket, node.id)
    BY <2>1 DEF Lacks
  <2>2. CASE Len(bucket) < K
    <3>1. BucketAdd(bucket, node) = Append(bucket, node)
      BY <1>3, <2>1, <2>2
    <3>2. /\ BucketOK(Append(bucket, node), d, own)
          /\ ToSet(Append(bucket, node)) = ToSet(bucket) \cup {node}
      BY <2>2, <2>5, GrownKeeps
    <3> QED BY <3>1, <3>2
  <2>3. CASE ~(Len(bucket) < K) /\ IsStale(bucket[1])
    <3>0. PICK tail : tail = Tail(bucket)
      OBVIOUS
    <3>1. BucketAdd(bucket, node) = Append(tail, node)
      BY <3>0, <1>3, <2>1, <2>3
    <3>2. bucket # <<>>
      BY <1>1, <2>3
    <3>3. tail \in Seq(Node) /\ Len(tail) = Len(bucket) - 1 /\ PartWithout(tail, bucket, 1)
      BY <1>1, <3>0, <3>2, TailIsPart
    <3>4. Len(tail) <= Len(bucket) /\ Len(tail) < K
      BY <1>1, <3>3
    <3>5. BucketOK(tail, d, own) /\ ToSet(tail) \subseteq ToSet(bucket)
      BY <3>3, <3>4, PartKeeps
    <3>6. ASSUME NEW i \in 1 .. Len(tail) PROVE tail[i].id # node.id
      <4>1. PICK p \in [1 .. Len(tail) -> 1 .. Len(bucket)] :
              \A h, j \in 1 .. Len(tail) :
                 tail[h] = bucket[p[h]] /\ p[h] # 1 /\ (p[h] = p[j] => h = j)
        BY <3>3 DEF PartWithout
      <4>2. tail[i] = bucket[p[i]] /\ p[i] \in 1 .. Len(bucket)
        BY <4>1
      <4> QED BY <2>1, <4>2
    <3>8. Lacks(tail, node.id)
      BY <3>6 DEF Lacks
    <3>7. /\ BucketOK(Append(tail, node), d, own)
          /\ ToSet(Append(tail, node)) = ToSet(tail) \cup {node}
      BY <3>4, <3>5, <3>8, GrownKeeps
    <3> QED BY <3>1, <3>5, <3>7
  <2>4. CASE ~(Len(bucket) < K) /\ ~IsStale(bucket[1])
    BY <1>3, <2>1, <2>4
  <2> QED BY <2>2, <2>3, <2>4
<1>5. CASE Same # {}
  <2>1. same \in Same
    <3>1. Same \subseteq Nat
      BY <1>1
    <3> HIDE DEF Same
    <3>2. \E x \in Same : \A y \in Same : x <= y
      BY <1>5, <3>1, LeastNumber
    <3>3. Min(Same) \in Same
      BY <3>2, Zenon DEF Min
    <3> QED BY <1>2, <1>5, <3>3
  <2>2. same \in 1 .. Len(bucket) /\ same > 0 /\ bucket[same].id = node.id
    BY <1>1, <2>1
  <2>3. CASE ~Updates(node, bucket[same])
    BY <1>3, <2>2, <2>3
  <2>4. CASE Updates(node, bucket[same])
    <3> PICK rest : rest = RemoveAt(bucket, same)
      OBVIOUS
    <3>1. BucketAdd(bucket, node) = Append(rest, node)
      BY <1>3, <2>2, <2>4
    <3>2. rest \in Seq(Node) /\ Len(rest) = Len(bucket) - 1 /\ PartWithout(rest, bucket, same)
      BY <1>1, <2>2, RemovedIsPart
    <3>3. Len(rest) <= Len(bucket) /\ Len(rest) < K
      BY <1>1, <3>2
    <3>4. /\ BucketOK(rest, d, own) /\ ToSet(rest) \subseteq ToSet(bucket)
          /\ Lacks(rest, bucket[same].id)
      BY <2>2, <3>2, <3>3, PartKeeps
    <3>6. Lacks(rest, node.id)
      BY <2>2, <3>4
    <3>5. /\ BucketOK(Append(rest, node), d, own)
          /\ ToSet(Append(rest, node)) = ToSet(rest) \cup {node}
      BY <3>3, <3>4, <3>6, GrownKeeps
    <3> QED BY <3>1, <3>4, <3>5
  <2> QED BY <2>3, <2>4
<1> QED BY <1>4, <1>5

\* "only One non-secure node or Eight secure nodes from the same IP", for two nodes.
Tolerates(n, m) ==
    n # m /\ SameIp(n, m) =>
       /\ IsSecure(n) \/ IsSecure(m)
       /\ IsSecure(n) /\ IsSecure(m) => Prefix[n.id] # Prefix[m.id]

\* The inductive invariant: every bucket as above, and no two nodes of one ip that
\* already_exists would not have let in together.  The ids of the peers are not the
\* node's own, now or later, so none is at the distance 0.
TableOK(nodes, own) ==
    /\ own \in OwnId /\ nodes \in [Buckets -> Seq(Node)]
    /\ \A d \in Buckets : BucketOK(nodes[d], d, own)
    /\ \A n, m \in Nodes(nodes) : Tolerates(n, m)

TableInv == TableOK(table, id)

LEMMA TableOKIsSound ==
    ASSUME NEW nodes, NEW own, TableOK(nodes, own)
    PROVE  Sound(nodes, own)
<1>1. ASSUME NEW d \in Buckets
      PROVE  /\ Len(nodes[d]) <= K
             /\ \A i, j \in DOMAIN nodes[d] :
                  /\ Distance[<<own, nodes[d][i].id>>] = d
                  /\ nodes[d][i].id = nodes[d][j].id => i = j
  <2>1. BucketOK(nodes[d], d, own)
    BY DEF TableOK
  <2>2. DOMAIN nodes[d] = 1 .. Len(nodes[d])
    BY <2>1, LenProperties DEF BucketOK
  <2> QED BY <2>1, <2>2 DEF BucketOK
<1>2. \A n, m \in Nodes(nodes) :
        n # m /\ SameIp(n, m) =>
            /\ IsSecure(n) \/ IsSecure(m)
            /\ IsSecure(n) /\ IsSecure(m) => Prefix[n.id] # Prefix[m.id]
  BY DEF TableOK, Tolerates
<1> QED BY <1>1, <1>2, Zenon DEF Sound

LEMMA EmptyTableOK ==
    ASSUME NEW own \in OwnId
    PROVE  TableOK(EmptyTable, own) /\ Nodes(EmptyTable) = {}
<1>1. <<>> \in Seq(Node) /\ Len(<<>>) = 0 /\ 0 <= K /\ ToSet(<<>>) = {}
  BY TableAssumption DEF ToSet
<1>2. \A d \in Buckets : EmptyTable[d] = <<>>
  BY DEF EmptyTable
<1>3. EmptyTable \in [Buckets -> Seq(Node)]
  BY <1>1 DEF EmptyTable
<1>4. Nodes(EmptyTable) = {}
  BY <1>1, <1>2 DEF Nodes
<1>5. ASSUME NEW d PROVE BucketOK(<<>>, d, own)
  BY <1>1 DEF BucketOK
<1> QED BY <1>2, <1>3, <1>4, <1>5 DEF TableOK

LEMMA DistanceOfAnother ==
    ASSUME NEW own \in OwnId, NEW other \in Id \ OwnId
    PROVE  Distance[<<own, other>>] \in Buckets
<1>1. own \in Id /\ own # other /\ other \in Id
  BY UpkeepAssumption
<1>2. Distance[<<own, other>>] # 0
  BY <1>1, TableAssumption
<1> QED BY <1>1, <1>2 DEF Buckets

\* RoutingTable::add.
LEMMA AddedKeeps ==
    ASSUME NEW nodes, NEW own, TableOK(nodes, own), NEW node \in Node
    PROVE  /\ TableOK(Added(nodes, own, node), own)
           /\ Nodes(Added(nodes, own, node)) \subseteq Nodes(nodes) \cup {node}
<1> PICK distance : distance = Distance[<<own, node.id>>]
  OBVIOUS
<1>1. /\ own \in OwnId /\ nodes \in [Buckets -> Seq(Node)]
      /\ \A d \in Buckets : BucketOK(nodes[d], d, own)
      /\ \A n, m \in Nodes(nodes) : Tolerates(n, m)
  BY DEF TableOK
<1>2. distance \in Buckets
  BY <1>1, DistanceOfAnother DEF Node
<1>3. CASE AlreadyExists(node, Nodes(nodes))
  BY <1>3 DEF Added
<1>4. CASE ~AlreadyExists(node, Nodes(nodes))
  <2> PICK bucket : bucket = BucketAdd(nodes[distance], node)
    OBVIOUS
  <2> PICK added : added = Added(nodes, own, node)
    OBVIOUS
  <2>1. distance # 0
    BY <1>2 DEF Buckets
  <2>2. added = [nodes EXCEPT ![distance] = bucket]
    BY <1>4, <2>1 DEF Added
  <2>3. BucketOK(bucket, distance, own) /\ ToSet(bucket) \subseteq ToSet(nodes[distance]) \cup {node}
    <3>1. BucketOK(nodes[distance], distance, own) /\ Distance[<<own, node.id>>] = distance
      BY <1>1, <1>2
    <3> QED BY <3>1, BucketAddKeeps
  <2>4. bucket \in Seq(Node)
    BY <2>3 DEF BucketOK
  <2>5. /\ added \in [Buckets -> Seq(Node)] /\ added[distance] = bucket
        /\ \A d \in Buckets : d # distance => added[d] = nodes[d]
    BY <1>1, <1>2, <2>2, <2>4
  <2>6. \A d \in Buckets : BucketOK(added[d], d, own)
    BY <1>1, <2>3, <2>5
  <2>7. Nodes(added) \subseteq Nodes(nodes) \cup {node}
    <3> SUFFICES ASSUME NEW d \in Buckets, NEW n \in ToSet(added[d])
                 PROVE  n \in Nodes(nodes) \cup {node}
      BY DEF Nodes
    <3>1. n \in ToSet(nodes[d]) \cup {node}
      BY <2>3, <2>5
    <3> QED BY <3>1 DEF Nodes
  <2>8. ASSUME NEW n \in Nodes(nodes) PROVE Tolerates(n, node) /\ Tolerates(node, n)
    BY <1>4 DEF AlreadyExists, Tolerates, SameIp
  <2>9. ASSUME NEW n \in Nodes(added), NEW m \in Nodes(added) PROVE Tolerates(n, m)
    <3>1. CASE n = node /\ m = node
      BY <3>1 DEF Tolerates
    <3>2. CASE n \in Nodes(nodes) /\ m = node
      BY <2>8, <3>2
    <3>3. CASE n = node /\ m \in Nodes(nodes)
      BY <2>8, <3>3
    <3>4. CASE n \in Nodes(nodes) /\ m \in Nodes(nodes)
      BY <1>1, <3>4
    <3> QED BY <2>7, <3>1, <3>2, <3>3, <3>4
  <2>10. TableOK(added, own)
    BY <1>1, <2>5, <2>6, <2>9 DEF TableOK
  <2> QED BY <2>7, <2>10
<1> QED BY <1>3, <1>4

\* RoutingTable::remove.
LEMMA WithoutKeeps ==
    ASSUME NEW nodes, NEW own, TableOK(nodes, own), NEW ids
    PROVE  TableOK(Without(nodes, ids), own) /\ Nodes(Without(nodes, ids)) \subseteq Nodes(nodes)
<1>1. /\ own \in OwnId /\ nodes \in [Buckets -> Seq(Node)]
      /\ \A d \in Buckets : BucketOK(nodes[d], d, own)
      /\ \A n, m \in Nodes(nodes) : Tolerates(n, m)
  BY DEF TableOK
<1> PICK left : left = Without(nodes, ids)
  OBVIOUS
<1>2. left = [d \in Buckets |-> left[d]]
  BY DEF Without
<1>3. ASSUME NEW d \in Buckets
      PROVE  /\ left[d] \in Seq(Node) /\ BucketOK(left[d], d, own)
             /\ ToSet(left[d]) \subseteq ToSet(nodes[d])
  <2> PICK S : S = {n \in ToSet(nodes[d]) : n.id \notin ids}
    OBVIOUS
  <2>1. left[d] = Among(nodes[d], S)
    BY DEF Without
  <2>2. nodes[d] \in Seq(Node) /\ BucketOK(nodes[d], d, own)
    BY <1>1
  <2>3. /\ left[d] \in Seq(Node) /\ Len(left[d]) <= Len(nodes[d])
        /\ ToSet(left[d]) \subseteq ToSet(nodes[d]) /\ PartWithout(left[d], nodes[d], 0)
    BY <2>1, <2>2, AmongKeeps, AmongIsPart
  <2> QED BY <2>2, <2>3, PartKeeps
<1>4. left \in [Buckets -> Seq(Node)]
  BY <1>2, <1>3
<1>5. Nodes(left) \subseteq Nodes(nodes)
  BY <1>3 DEF Nodes
<1>6. TableOK(left, own)
  BY <1>1, <1>3, <1>4, <1>5 DEF TableOK
<1> QED BY <1>5, <1>6

\* A node that ages is told by nothing but its age.
Older(node) == [node EXCEPT !.age = IF IsStale(node) THEN @ ELSE @ + 1]

LEMMA OlderIs ==
    ASSUME NEW node \in Node
    PROVE  /\ Older(node) \in Node /\ Older(node).id = node.id
           /\ Older(node).address = node.address
           /\ Older(node).age = IF IsStale(node) THEN node.age ELSE node.age + 1
BY DEF Node, Older

LEMMA AgedKeeps ==
    ASSUME NEW nodes, NEW own, TableOK(nodes, own)
    PROVE  /\ TableOK(Aged(nodes), own)
           /\ \A n \in Nodes(Aged(nodes)) : \E m \in Nodes(nodes) : m \in Node /\ n = Older(m)
<1>1. /\ own \in OwnId /\ nodes \in [Buckets -> Seq(Node)]
      /\ \A d \in Buckets : BucketOK(nodes[d], d, own)
      /\ \A n, m \in Nodes(nodes) : Tolerates(n, m)
  BY DEF TableOK
<1> PICK aged : aged = Aged(nodes)
  OBVIOUS
<1>2. aged = [d \in Buckets |-> [i \in DOMAIN nodes[d] |-> Older(nodes[d][i])]]
  BY DEF Aged, Older
<1>3. ASSUME NEW d \in Buckets
      PROVE  /\ aged[d] \in Seq(Node) /\ BucketOK(aged[d], d, own)
             /\ \A n \in ToSet(aged[d]) : \E m \in ToSet(nodes[d]) : m \in Node /\ n = Older(m)
  <2> PICK bucket : bucket = nodes[d]
    OBVIOUS
  <2>1. /\ bucket \in Seq(Node) /\ Len(bucket) <= K
        /\ \A i, j \in 1 .. Len(bucket) :
             /\ Distance[<<own, bucket[i].id>>] = d
             /\ bucket[i].id = bucket[j].id => i = j
    <3>1. bucket \in Seq(Node) /\ BucketOK(bucket, d, own)
      BY <1>1
    <3> QED BY <3>1 DEF BucketOK
  <2>2. Len(bucket) \in Nat /\ DOMAIN bucket = 1 .. Len(bucket)
        /\ \A i \in 1 .. Len(bucket) : bucket[i] \in Node
    BY <2>1, LenProperties, ElementOfSeq
  <2> PICK n : n = Len(bucket)
    OBVIOUS
  <2> PICK older : older = aged[d]
    OBVIOUS
  <2>3. older = [i \in 1 .. n |-> Older(bucket[i])]
    BY <1>2, <2>2
  <2>4. ASSUME NEW i \in 1 .. n
        PROVE  older[i] = Older(bucket[i]) /\ older[i] \in Node /\ older[i].id = bucket[i].id
    BY <2>2, <2>3, OlderIs
  <2>5. older \in Seq(Node) /\ Len(older) = n /\ DOMAIN older = 1 .. n
    <3>1. older \in [1 .. n -> Node]
      BY <2>3, <2>4
    <3>2. older \in Seq(Node)
      BY <2>2, <3>1, SeqDef
    <3>3. 1 .. Len(older) = 1 .. n /\ Len(older) \in Nat /\ n \in Nat
      BY <2>2, <3>1, <3>2, LenProperties
    <3> QED BY <3>1, <3>2, <3>3
  <2>6. BucketOK(older, d, own)
    <3>1. ASSUME NEW i \in 1 .. n, NEW j \in 1 .. n
          PROVE  Distance[<<own, older[i].id>>] = d /\ (older[i].id = older[j].id => i = j)
      BY <2>1, <2>4, SMTT(60)
    <3> QED BY <2>1, <2>5, <3>1 DEF BucketOK
  <2>7. \A m \in ToSet(older) : \E k \in ToSet(bucket) : k \in Node /\ m = Older(k)
    BY <2>2, <2>4, <2>5 DEF ToSet
  <2> QED BY <2>5, <2>6, <2>7
<1>4. aged \in [Buckets -> Seq(Node)]
  BY <1>2, <1>3
<1>5. \A n \in Nodes(aged) : \E m \in Nodes(nodes) : m \in Node /\ n = Older(m)
  BY <1>3 DEF Nodes
<1>6. ASSUME NEW n \in Nodes(aged), NEW m \in Nodes(aged) PROVE Tolerates(n, m)
  <2>1. PICK k \in Nodes(nodes) : k \in Node /\ n = Older(k)
    BY <1>5
  <2>2. PICK l \in Nodes(nodes) : l \in Node /\ m = Older(l)
    BY <1>5
  <2>3. Tolerates(k, l)
    BY <1>1
  <2>4. /\ n.id = k.id /\ n.address = k.address /\ m.id = l.id /\ m.address = l.address
        /\ n # m => k # l
    BY <2>1, <2>2, OlderIs
  <2> QED BY <2>3, <2>4 DEF Tolerates, SameIp, IsSecure
<1>7. TableOK(aged, own)
  BY <1>1, <1>3, <1>4, <1>6 DEF TableOK
<1> QED BY <1>5, <1>7

LEMMA NodesAreNodes ==
    ASSUME NEW nodes, NEW own, TableOK(nodes, own)
    PROVE  Nodes(nodes) \subseteq Node
<1> SUFFICES ASSUME NEW d \in Buckets, NEW n \in ToSet(nodes[d]) PROVE n \in Node
  BY DEF Nodes
<1>1. nodes[d] \in Seq(Node)
  BY DEF TableOK
<1>2. PICK i \in 1 .. Len(nodes[d]) : n = nodes[d][i]
  BY <1>1, LenProperties DEF ToSet
<1> QED BY <1>1, <1>2, ElementOfSeq

\* What a peer is known by, when it answers or looks for the node.
LEMMA FreshIsNode ==
    ASSUME NEW peer \in Peer
    PROVE  Fresh(peer.id, peer.address) \in Node
BY UpkeepAssumption DEF Fresh, Node

LEMMA InitTable == Init => TableInv
<1> SUFFICES ASSUME Init PROVE TableInv
  OBVIOUS
<1>1. id \in OwnId /\ table = EmptyTable
  BY UpkeepAssumption DEF Init
<1>2. TableOK(table, id)
  BY <1>1, EmptyTableOK
<1> QED BY <1>2 DEF TableInv

LEMMA NextTable == TableInv /\ [Next]_vars => TableInv'
<1> SUFFICES ASSUME TableInv, [Next]_vars PROVE TableInv'
  OBVIOUS
<1> SUFFICES TableOK(table', id')
  BY DEF TableInv
<1>0. TableOK(table, id) /\ id \in OwnId
  BY DEF TableInv, TableOK
<1>1. CASE Tick
  <2>1. table' = Aged(table) /\ id' = id
    BY <1>1 DEF Tick
  <2> QED BY <1>0, <2>1, AgedKeeps
<1>2. CASE Maintain
  <2>1. table' = (IF PingIsDue THEN Purged(table) ELSE table) /\ id' = id
    BY <1>2 DEF Maintain, Periodically
  <2>2. TableOK(Purged(table), id)
    BY <1>0, WithoutKeeps DEF Purged
  <2> QED BY <1>0, <2>1, <2>2
<1>3. ASSUME NEW target \in Wanted, Get(target) PROVE TableOK(table', id')
  BY <1>0, <1>3 DEF Get
<1>4. ASSUME NEW target \in Target, EndLookup(target) PROVE TableOK(table', id')
  BY <1>0, <1>4 DEF EndLookup
<1>5. ASSUME NEW target \in Target, NEW peer \in Peer, NEW address \in Address \cup {NoAddress},
             NEW valued \in BOOLEAN, Answer(target, peer, address, valued)
      PROVE  TableOK(table', id')
  <2>1. id' = id /\ table' = IF valued THEN table ELSE Added(table, id, Fresh(peer.id, peer.address))
    BY <1>5 DEF Answer
  <2>2. TableOK(Added(table, id, Fresh(peer.id, peer.address)), id)
    BY <1>0, FreshIsNode, AddedKeeps
  <2> QED BY <1>0, <2>1, <2>2
<1>6. ASSUME NEW peer \in Peer, FindNodeArrives(peer.id, peer.address)
      PROVE  TableOK(table', id')
  <2>1. id' = id /\ table' = Added(table, id, Fresh(peer.id, peer.address))
    BY <1>6 DEF FindNodeArrives
  <2> QED BY <1>0, <2>1, FreshIsNode, AddedKeeps
<1>7. ASSUME NEW address \in Address, OwnPingArrives(address) PROVE TableOK(table', id')
  <2>1. CASE public.ip \in ValidFor[id]
    BY <1>0, <1>7, <2>1 DEF OwnPingArrives
  <2>2. CASE public.ip \notin ValidFor[id]
    <3>1. id' \in OwnId /\ table' = EmptyTable
      BY <1>7, <2>2 DEF OwnPingArrives
    <3> QED BY <3>1, EmptyTableOK
  <2> QED BY <2>1, <2>2
<1>8. CASE UNCHANGED vars
  BY <1>0, <1>8 DEF vars
<1> QED BY <1>1, <1>2, <1>3, <1>4, <1>5, <1>6, <1>7, <1>8 DEF Next

\* routing_table.rs, already_exists in node.rs: whoever answers or asks, from whatever
\* address, in whatever order, while nodes age, are purged and replaced and the own id
\* changes, a table holds no node twice, none in a wrong bucket, no bucket beyond its
\* size, and of one ip at most one node that is not secure.
THEOREM TableStaysSound == Spec => []TableIsSound
<1>1. TableInv => TableIsSound
  BY TableOKIsSound DEF TableInv, TableIsSound
<1> QED BY <1>1, InitTable, NextTable, PTL DEF Spec

-----------------------------------------------------------------------------
(* Who leaves the table.                                                   *)

\* n is still there and no younger, or is there anew: known by the same id.
Remains(n, nodes) ==
    \E m \in nodes :
        /\ m.id = n.id
        /\ m.age = 0 \/ (m.address = n.address /\ m.age >= n.age)

\* routing_table.rs, "without dropping any responsive nodes": as much of it as holds.
\* While the node keeps its id, whatever is added, replaced in a full bucket or purged
\* by id, none leaves the table that was entered less than StaleTime ago.
OnlyStaleNodesLeave ==
    [][\A n \in Nodes(table) : ~IsStale(n) /\ id' = id => Remains(n, Nodes(table'))]_vars

\* KBucket::add: only one that is stale gives way, or one to its newer self.
LEMMA BucketAddDrops ==
    ASSUME NEW bucket \in Seq(Node), NEW node \in Node,
           NEW n \in ToSet(bucket), ~IsStale(n), n \notin ToSet(BucketAdd(bucket, node))
    PROVE  n.id = node.id /\ node \in ToSet(BucketAdd(bucket, node))
<1>1. /\ Len(bucket) \in Nat /\ DOMAIN bucket = 1 .. Len(bucket) /\ K \in Nat \ {0}
      /\ \A i \in 1 .. Len(bucket) : bucket[i] \in Node
  BY LenProperties, ElementOfSeq, TableAssumption
<1>2. PICK k \in 1 .. Len(bucket) : n = bucket[k]
  BY <1>1 DEF ToSet
<1>3. ASSUME NEW s \in Seq(Node)
      PROVE  ToSet(Append(s, node)) = ToSet(s) \cup {node}
  BY AppendKeeps
<1> DEFINE Same == {i \in 1 .. Len(bucket) : bucket[i].id = node.id}
<1>4. PICK same : same = SelectInSeq(bucket, LAMBDA m : m.id = node.id)
  OBVIOUS
<1>5. same = IF Same # {} THEN Min(Same) ELSE 0
  BY <1>4 DEF SelectInSeq
<1>6. same > 0 => same \in Same
  <2>1. Same \subseteq Nat
    BY <1>1
  <2> HIDE DEF Same
  <2>2. ASSUME Same # {} PROVE Min(Same) \in Same
    <3>1. \E x \in Same : \A y \in Same : x <= y
      BY <2>1, <2>2, LeastNumber
    <3> QED BY <3>1, Zenon DEF Min
  <2> QED BY <1>5, <2>2
<1>7. BucketAdd(bucket, node) =
        IF same > 0
        THEN IF Updates(node, bucket[same]) THEN Append(RemoveAt(bucket, same), node) ELSE bucket
        ELSE IF Len(bucket) < K THEN Append(bucket, node)
        ELSE IF IsStale(bucket[1]) THEN Append(Tail(bucket), node)
        ELSE bucket
  BY <1>4 DEF BucketAdd
<1>8. BucketAdd(bucket, node) # bucket
  OBVIOUS
<1>9. CASE same > 0
  <2>1. same \in 1 .. Len(bucket) /\ bucket[same].id = node.id
    BY <1>6, <1>9
  <2>2. RemoveAt(bucket, same) \in Seq(Node)
    BY <2>1, RemovedIsPart
  <2>3. BucketAdd(bucket, node) = Append(RemoveAt(bucket, same), node)
    BY <1>7, <1>8, <1>9
  <2>4. ToSet(BucketAdd(bucket, node)) = ToSet(RemoveAt(bucket, same)) \cup {node}
    BY <1>3, <2>2, <2>3
  <2>5. k = same
    BY <1>2, <2>1, <2>4, RemovedRest
  <2> QED BY <1>2, <2>1, <2>4, <2>5
<1>10. CASE ~(same > 0) /\ Len(bucket) < K
  <2>1. ToSet(BucketAdd(bucket, node)) = ToSet(bucket) \cup {node}
    BY <1>3, <1>7, <1>10
  <2> QED BY <2>1
<1>11. CASE ~(same > 0) /\ ~(Len(bucket) < K)
  <2>1. BucketAdd(bucket, node) = Append(Tail(bucket), node) /\ IsStale(bucket[1])
    BY <1>7, <1>8, <1>11
  <2>2. bucket # <<>>
    BY <1>1, <1>2
  <2>3. /\ Tail(bucket) \in Seq(Node) /\ Len(Tail(bucket)) = Len(bucket) - 1
        /\ \A i \in 1 .. Len(bucket) - 1 : Tail(bucket)[i] = bucket[i + 1]
    BY <2>2, TailKeeps
  <2>4. k # 1
    BY <1>2, <2>1
  <2>5. PICK j : j = k - 1
    OBVIOUS
  <2>6. j \in 1 .. Len(bucket) - 1 /\ j + 1 = k
    BY <1>1, <2>4, <2>5
  <2>7. Tail(bucket)[j] = n
    BY <1>2, <2>3, <2>6
  <2>8. DOMAIN Tail(bucket) = 1 .. Len(bucket) - 1
    BY <2>3, LenProperties
  <2>9. n \in ToSet(Tail(bucket))
    BY <2>6, <2>7, <2>8 DEF ToSet
  <2> QED BY <1>3, <2>1, <2>3, <2>9
<1> QED BY <1>9, <1>10, <1>11

LEMMA AddedDrops ==
    ASSUME NEW nodes, NEW own, TableOK(nodes, own), NEW node \in Node, node.age = 0,
           NEW n \in Nodes(nodes), ~IsStale(n)
    PROVE  Remains(n, Nodes(Added(nodes, own, node)))
<1>1. nodes \in [Buckets -> Seq(Node)] /\ n \in Node
  BY NodesAreNodes DEF TableOK
<1>2. n.age \in Nat
  BY <1>1 DEF Node
<1> PICK distance : distance = Distance[<<own, node.id>>]
  OBVIOUS
<1>3. distance \in Buckets
  BY DistanceOfAnother DEF Node, TableOK
<1> PICK added : added = Added(nodes, own, node)
  OBVIOUS
<1>4. CASE added = nodes
  BY <1>2, <1>4 DEF Remains
<1>5. CASE added # nodes
  <2>1. added = [nodes EXCEPT ![distance] = BucketAdd(nodes[distance], node)]
    BY <1>5 DEF Added
  <2>2. /\ added[distance] = BucketAdd(nodes[distance], node)
        /\ \A d \in Buckets : d # distance => added[d] = nodes[d]
    BY <1>1, <1>3, <2>1
  <2>3. PICK d \in Buckets : n \in ToSet(nodes[d])
    BY DEF Nodes
  <2>4. CASE n \in ToSet(added[d])
    <3>1. n \in Nodes(added)
      BY <2>4 DEF Nodes
    <3> QED BY <1>2, <3>1 DEF Remains
  <2>5. CASE n \notin ToSet(added[d])
    <3>1. d = distance
      BY <2>2, <2>3, <2>5
    <3>2. nodes[d] \in Seq(Node)
      BY <1>1
    <3>3. n.id = node.id /\ node \in ToSet(added[d])
      BY <2>2, <2>3, <2>5, <3>1, <3>2, BucketAddDrops
    <3>4. node \in Nodes(added)
      BY <3>3 DEF Nodes
    <3> QED BY <3>3, <3>4 DEF Remains
  <2> QED BY <2>4, <2>5
<1> QED BY <1>4, <1>5

\* Nodes of one id would be in one bucket, and there none is twice.
LEMMA OneOfAnId ==
    ASSUME NEW nodes, NEW own, TableOK(nodes, own),
           NEW n \in Nodes(nodes), NEW m \in Nodes(nodes), n.id = m.id
    PROVE  n = m
<1>1. PICK d \in Buckets : n \in ToSet(nodes[d])
  BY DEF Nodes
<1>2. PICK e \in Buckets : m \in ToSet(nodes[e])
  BY DEF Nodes
<1>3. BucketOK(nodes[d], d, own) /\ BucketOK(nodes[e], e, own)
  BY DEF TableOK
<1>4. DOMAIN nodes[d] = 1 .. Len(nodes[d]) /\ DOMAIN nodes[e] = 1 .. Len(nodes[e])
  BY <1>3, LenProperties DEF BucketOK
<1>5. PICK i \in 1 .. Len(nodes[d]) : n = nodes[d][i]
  BY <1>1, <1>4 DEF ToSet
<1>6. PICK j \in 1 .. Len(nodes[e]) : m = nodes[e][j]
  BY <1>2, <1>4 DEF ToSet
<1>7. d = e
  BY <1>3, <1>5, <1>6 DEF BucketOK
<1>8. i = j
  BY <1>3, <1>5, <1>6, <1>7 DEF BucketOK
<1> QED BY <1>5, <1>6, <1>7, <1>8

LEMMA PurgedDrops ==
    ASSUME NEW nodes, NEW own, TableOK(nodes, own), NEW n \in Nodes(nodes), ~IsStale(n)
    PROVE  n \in Nodes(Purged(nodes))
<1> PICK ids : ids = {m.id : m \in {k \in Nodes(nodes) : IsStale(k)}}
  OBVIOUS
<1>1. n.id \notin ids
  BY OneOfAnId
<1>2. PICK d \in Buckets : n \in ToSet(nodes[d])
  BY DEF Nodes
<1>3. nodes[d] \in Seq(Node)
  BY DEF TableOK
<1> PICK S : S = {m \in ToSet(nodes[d]) : m.id \notin ids}
  OBVIOUS
<1> PICK left : left = Purged(nodes)
  OBVIOUS
<1>4. left[d] = Among(nodes[d], S)
  BY DEF Purged, Without
<1>5. ToSet(left[d]) = ToSet(nodes[d]) \cap S
  BY <1>3, <1>4, AmongKeeps
<1>6. n \in ToSet(left[d])
  BY <1>1, <1>2, <1>5
<1> QED BY <1>6 DEF Nodes

LEMMA AgedRemain ==
    ASSUME NEW nodes, NEW own, TableOK(nodes, own), NEW n \in Nodes(nodes)
    PROVE  Remains(n, Nodes(Aged(nodes)))
<1>1. PICK d \in Buckets : n \in ToSet(nodes[d])
  BY DEF Nodes
<1>2. PICK i \in DOMAIN nodes[d] : n = nodes[d][i]
  BY <1>1 DEF ToSet
<1> PICK aged : aged = Aged(nodes)
  OBVIOUS
<1>3. aged[d] = [j \in DOMAIN nodes[d] |-> Older(nodes[d][j])]
  BY DEF Aged, Older
<1>4. Older(n) \in ToSet(aged[d])
  BY <1>2, <1>3 DEF ToSet
<1>5. Older(n) \in Nodes(aged)
  BY <1>4 DEF Nodes
<1>6. n \in Node
  BY NodesAreNodes
<1>7. n.age \in Nat
  BY <1>6 DEF Node
<1>8. /\ Older(n).id = n.id /\ Older(n).address = n.address
      /\ Older(n).age = IF IsStale(n) THEN n.age ELSE n.age + 1
  BY <1>6, OlderIs
<1>9. Older(n).age >= n.age
  BY <1>7, <1>8
<1> QED BY <1>5, <1>8, <1>9 DEF Remains

\* What leaves the table, while the own id stays, is stale: for any nodes that answer
\* or ask, any bucket size and any order of additions, purges and ageing.
THEOREM FreshNodesStay == Spec => OnlyStaleNodesLeave
<1>1. TableInv /\ [Next]_vars =>
        [\A n \in Nodes(table) : ~IsStale(n) /\ id' = id => Remains(n, Nodes(table'))]_vars
  <2> SUFFICES ASSUME TableInv, [Next]_vars, NEW n \in Nodes(table), ~IsStale(n), id' = id
               PROVE  Remains(n, Nodes(table'))
    OBVIOUS
  <2>0. TableOK(table, id)
    BY DEF TableInv
  <2>1. table' = table => Remains(n, Nodes(table'))
    <3>1. n \in Node
      BY <2>0, NodesAreNodes
    <3>2. n.age \in Nat
      BY <3>1 DEF Node
    <3> QED BY <3>2 DEF Remains
  <2>2. CASE Tick
    <3>1. table' = Aged(table)
      BY <2>2 DEF Tick
    <3> QED BY <2>0, <3>1, AgedRemain
  <2>3. CASE Maintain
    <3>1. table' = table \/ table' = Purged(table)
      BY <2>3 DEF Maintain, Periodically
    <3>2. n \in Nodes(Purged(table))
      BY <2>0, PurgedDrops
    <3>3. n \in Node
      BY <2>0, NodesAreNodes
    <3>4. n.age \in Nat
      BY <3>3 DEF Node
    <3>5. Remains(n, Nodes(Purged(table)))
      BY <3>2, <3>4 DEF Remains
    <3> QED BY <2>1, <3>1, <3>5
  <2>4. ASSUME NEW peer \in Peer, table' = Added(table, id, Fresh(peer.id, peer.address))
        PROVE  Remains(n, Nodes(table'))
    <3>1. Fresh(peer.id, peer.address) \in Node /\ Fresh(peer.id, peer.address).age = 0
      BY FreshIsNode DEF Fresh
    <3> QED BY <2>0, <2>4, <3>1, AddedDrops
  <2>5. ASSUME NEW target, NEW peer \in Peer, NEW address, NEW valued \in BOOLEAN,
               Answer(target, peer, address, valued)
        PROVE  Remains(n, Nodes(table'))
    <3>1. table' = table \/ table' = Added(table, id, Fresh(peer.id, peer.address))
      BY <2>5 DEF Answer
    <3> QED BY <2>1, <2>4, <3>1
  <2>6. ASSUME NEW peer \in Peer, FindNodeArrives(peer.id, peer.address)
        PROVE  Remains(n, Nodes(table'))
    BY <2>4, <2>6 DEF FindNodeArrives
  <2>7. ASSUME NEW target, Get(target) \/ EndLookup(target)
        PROVE  Remains(n, Nodes(table'))
    BY <2>1, <2>7 DEF Get, EndLookup
  <2>8. ASSUME NEW address, OwnPingArrives(address)
        PROVE  Remains(n, Nodes(table'))
    <3>1. public.ip \in ValidFor[id]
      BY <2>8 DEF OwnPingArrives
    <3> QED BY <2>1, <2>8, <3>1 DEF OwnPingArrives
  <2>9. CASE UNCHANGED vars
    BY <2>1, <2>9 DEF vars
  <2> QED BY <2>2, <2>3, <2>5, <2>6, <2>7, <2>8, <2>9 DEF Next
<1>2. Spec => []TableInv
  BY InitTable, NextTable, PTL DEF Spec
<1> QED BY <1>1, <1>2, PTL DEF Spec, OnlyStaleNodesLeave

-----------------------------------------------------------------------------
(* The sums over the cache.                                                *)

CacheEntry == [size : Int, responders : Int, subnets : Int, find : BOOLEAN]

\* What an entry counts for in each of the sums, and in the counter.
SizeOf == [e \in CacheEntry |-> e.size]
RespondersOf == [e \in CacheEntry |-> e.responders]
SubnetsOf == [e \in CacheEntry |-> e.subnets]
CountOf == [e \in CacheEntry |-> IF e.find THEN 0 ELSE 1]

Weighed(lru, weight) == [t \in Keys(lru) |-> weight[Peek(lru, t)]]
Weigh(lru, weight) == Total(Weighed(lru, weight), Keys(lru))

\* A cache of any size, and what it is without one of its keys.
Entries(lru) ==
    IsFiniteSet(Keys(lru)) /\ \A t \in Keys(lru) : Peek(lru, t) \in CacheEntry

LacksOnly(rest, lru, key) ==
    /\ Keys(rest) = Keys(lru) \ {key}
    /\ \A t \in Keys(rest) : Peek(rest, t) = Peek(lru, t)

LEMMA WeighIsInt ==
    ASSUME NEW lru, Entries(lru), NEW weight \in [CacheEntry -> Int]
    PROVE  Weigh(lru, weight) \in Int
<1>1. \A t \in Keys(lru) : Weighed(lru, weight)[t] \in Int
  BY DEF Weighed, Entries
<1>2. 0 \in Int /\ \A a, b \in Int : a + b \in Int
  OBVIOUS
<1>3. IsFiniteSet(Keys(lru))
  BY DEF Entries
<1> QED BY <1>1, <1>2, <1>3, TotalIn DEF Weigh

LEMMA WeighWithout ==
    ASSUME NEW lru, Entries(lru), NEW weight \in [CacheEntry -> Int],
           NEW key \in Keys(lru), NEW rest, LacksOnly(rest, lru, key)
    PROVE  /\ Entries(rest) /\ weight[Peek(lru, key)] \in Int
           /\ Weigh(lru, weight) = weight[Peek(lru, key)] + Weigh(rest, weight)
<1>1. IsFiniteSet(Keys(lru)) /\ \A t \in Keys(lru) : Weighed(lru, weight)[t] \in Int
  BY DEF Weighed, Entries
<1>2. Keys(rest) = Keys(lru) \ {key} /\ \A t \in Keys(rest) : Peek(rest, t) = Peek(lru, t)
  BY DEF LacksOnly
<1>3. Entries(rest)
  BY <1>1, <1>2, FS_RemoveElement DEF Entries
<1>4. Total(Weighed(lru, weight), Keys(lru)) =
        Weighed(lru, weight)[key] + Total(Weighed(lru, weight), Keys(lru) \ {key})
  BY <1>1, TotalWith
<1>5. AgreeOn(Weighed(lru, weight), Weighed(rest, weight), Keys(rest))
  BY <1>2 DEF AgreeOn, Weighed
<1>6. Total(Weighed(lru, weight), Keys(rest)) = Total(Weighed(rest, weight), Keys(rest))
  BY <1>3, <1>5, TotalsAgree DEF Entries
<1>7. Weighed(lru, weight)[key] = weight[Peek(lru, key)]
  BY DEF Weighed
<1> QED BY <1>1, <1>2, <1>3, <1>4, <1>6, <1>7 DEF Weigh

\* The cache that a node keeps.
Fits(lru) == LruOK(lru, Target, CacheCap) /\ \A t \in Keys(lru) : Peek(lru, t) \in CacheEntry

LEMMA FitsIsFinite ==
    ASSUME NEW lru, Fits(lru)
    PROVE  /\ Entries(lru) /\ Cardinality(Keys(lru)) = Len(lru.order) /\ Len(lru.order) \in Nat
           /\ Len(lru.order) <= CacheCap /\ Keys(lru) \subseteq Target
           /\ lru.order \in Seq(Target) /\ Keys(lru) = ToSet(lru.order)
<1>1. /\ lru.order \in Seq(Target) /\ Distinct(lru.order)
      /\ Keys(lru) = ToSet(lru.order) /\ Len(lru.order) <= CacheCap
  BY DEF Fits, LruOK
<1>2. Len(lru.order) \in Nat /\ DOMAIN lru.order = 1 .. Len(lru.order)
      /\ \A i \in 1 .. Len(lru.order) : lru.order[i] \in Target
  BY <1>1, LenProperties, ElementOfSeq
<1>3. IsFiniteSet(Keys(lru)) /\ Cardinality(Keys(lru)) = Len(lru.order)
  BY <1>1, SizeOfDistinct
<1>4. Keys(lru) \subseteq Target
  BY <1>1, <1>2 DEF ToSet
<1> QED BY <1>1, <1>2, <1>3, <1>4 DEF Fits, Entries

\* pop_lru.
WithoutOldest(lru) ==
    [of |-> Restrict(lru.of, DOMAIN lru.of \ {Last(lru.order)}), order |-> Front(lru.order)]

LEMMA OldestGoes ==
    ASSUME NEW lru, Fits(lru), lru.order # <<>>
    PROVE  /\ Fits(WithoutOldest(lru)) /\ Last(lru.order) \in Keys(lru)
           /\ Len(WithoutOldest(lru).order) = Len(lru.order) - 1
           /\ LacksOnly(WithoutOldest(lru), lru, Last(lru.order))
<1> PICK order : order = lru.order
  OBVIOUS
<1> PICK n : n = Len(order)
  OBVIOUS
<1> PICK left : left = Front(order)
  OBVIOUS
<1> PICK after : after = WithoutOldest(lru)
  OBVIOUS
<1>1. order \in Seq(Target) /\ Distinct(order) /\ Keys(lru) = ToSet(order) /\ n <= CacheCap
  BY DEF Fits, LruOK
<1>2. n \in Nat \ {0} /\ DOMAIN order = 1 .. n /\ \A i \in 1 .. n : order[i] \in Target
  BY <1>1, LenProperties, ElementOfSeq, EmptySeq
<1>3. Last(order) = order[n]
  BY DEF Last
<1>4. /\ left \in Seq(Target) /\ Len(left) = n - 1
      /\ \A i \in 1 .. n - 1 : left[i] = order[i]
  <2>1. left = SubSeq(order, 1, n - 1)
    BY DEF Front
  <2> QED BY <1>2, <2>1, SubSeqProperties
<1>5. DOMAIN left = 1 .. n - 1
  BY <1>4, LenProperties
<1>6. Distinct(left)
  BY <1>1, <1>2, <1>4 DEF Distinct
<1>7. ToSet(left) = ToSet(order) \ {order[n]}
  <2>1. ASSUME NEW i \in 1 .. n - 1 PROVE left[i] \in ToSet(order) /\ left[i] # order[n]
    <3>1. i \in 1 .. n /\ n \in 1 .. n /\ i # n /\ left[i] = order[i]
      BY <1>2, <1>4
    <3> QED BY <1>1, <1>2, <3>1 DEF ToSet, Distinct
  <2>2. ASSUME NEW i \in 1 .. n, order[i] # order[n] PROVE order[i] \in ToSet(left)
    <3>1. i \in 1 .. n - 1
      BY <1>2, <2>2
    <3> QED BY <1>4, <1>5, <3>1 DEF ToSet
  <2>3. ToSet(left) \subseteq ToSet(order) \ {order[n]}
    BY <1>5, <2>1 DEF ToSet
  <2>4. ToSet(order) \ {order[n]} \subseteq ToSet(left)
    <3> SUFFICES ASSUME NEW x \in ToSet(order), x # order[n] PROVE x \in ToSet(left)
      OBVIOUS
    <3>1. PICK i \in 1 .. n : x = order[i]
      BY <1>2 DEF ToSet
    <3> QED BY <2>2, <3>1
  <2> QED BY <2>3, <2>4
<1>8. /\ after = [of |-> after.of, order |-> after.order] /\ after.order = left
      /\ after.of = [t \in Keys(lru) \ {order[n]} |-> lru.of[t]]
  BY <1>3 DEF WithoutOldest, Restrict, Keys
<1>9. Keys(after) = Keys(lru) \ {order[n]} /\ \A t \in Keys(after) : Peek(after, t) = Peek(lru, t)
  BY <1>8 DEF Keys, Peek
<1>10. LruOK(after, Target, CacheCap)
  <2>1. Keys(after) = ToSet(left) /\ Len(left) <= CacheCap
    BY <1>1, <1>2, <1>4, <1>7, <1>9, CacheAssumption
  <2> QED BY <1>4, <1>6, <1>8, <2>1 DEF LruOK
<1>11. Fits(after)
  BY <1>9, <1>10 DEF Fits
<1>12. order[n] \in Keys(lru)
  BY <1>1, <1>2 DEF ToSet
<1> QED BY <1>3, <1>4, <1>8, <1>9, <1>11, <1>12 DEF LacksOnly

\* put, into a cache that has room.
LEMMA EntryComes ==
    ASSUME NEW lru, Fits(lru), Len(lru.order) < CacheCap, NEW key \in Target,
           NEW value \in CacheEntry, NEW after, after = Stored(lru, key, value, CacheCap)
    PROVE  /\ Fits(after) /\ Keys(after) = Keys(lru) \cup {key} /\ Peek(after, key) = value
           /\ \A t \in Keys(lru) \ {key} : Peek(after, t) = Peek(lru, t)
<1>1. LruOK(after, Target, CacheCap) /\ PutsKey(lru, key, value, CacheCap, after)
  BY CacheAssumption, StoredOK DEF Fits
<1>2. /\ Holds(after, key) /\ Peek(after, key) = value
      /\ Keys(after) \subseteq Keys(lru) \cup {key}
      /\ \A k \in Keys(after) : k # key => Peek(after, k) = Peek(lru, k)
  BY <1>1, Zenon DEF PutsKey
<1>3. \A k \in Keys(lru) \ Keys(after) : IsFiniteSet(Keys(after)) /\ Cardinality(Keys(after)) = CacheCap
  BY <1>1, Zenon DEF PutsKey
<1>4. ASSUME NEW k \in Keys(lru) \ Keys(after) PROVE FALSE
  <2>1. IsFiniteSet(Keys(after)) /\ Cardinality(Keys(after)) = CacheCap
    BY <1>3
  <2>2. IsFiniteSet(Keys(lru)) /\ Cardinality(Keys(lru)) = Len(lru.order) /\ Len(lru.order) \in Nat
    BY FitsIsFinite DEF Entries
  <2> PICK all : all = Keys(lru) \cup {key}
    OBVIOUS
  <2>3. IsFiniteSet(all) /\ Cardinality(all) \in Nat /\ Cardinality(all) <= Len(lru.order) + 1
    <3>1. /\ IsFiniteSet(all)
          /\ Cardinality(all) = IF key \in Keys(lru) THEN Cardinality(Keys(lru))
                                ELSE Cardinality(Keys(lru)) + 1
      BY <2>2, FS_AddElement
    <3> QED BY <2>2, <3>1
  <2>4. Keys(after) \in SUBSET all /\ k \in all /\ k \notin Keys(after)
    BY <1>2
  <2>5. Cardinality(Keys(after)) <= Cardinality(all) /\ Cardinality(Keys(after)) # Cardinality(all)
    BY <2>3, <2>4, FS_Subset
  <2> QED BY <2>1, <2>2, <2>3, <2>5, CacheAssumption
<1>5. Keys(after) = Keys(lru) \cup {key}
  BY <1>2, <1>4 DEF Holds
<1>6. \A t \in Keys(after) : Peek(after, t) \in CacheEntry
  BY <1>2, <1>5 DEF Fits
<1> QED BY <1>1, <1>2, <1>5, <1>6 DEF Fits

\* What is in both caches, apart from the key.
LEMMA RestOf ==
    ASSUME NEW lru, Fits(lru), Len(lru.order) < CacheCap, NEW key \in Target,
           NEW value \in CacheEntry, NEW after, after = Stored(lru, key, value, CacheCap)
    PROVE  /\ Fits(after)
           /\ \E rest :
                /\ Entries(rest)
                /\ \A weight \in [CacheEntry -> Int] :
                     Weigh(after, weight) = weight[value] + Weigh(rest, weight)
                /\ IF Holds(lru, key)
                   THEN \A weight \in [CacheEntry -> Int] :
                          Weigh(lru, weight) = weight[Peek(lru, key)] + Weigh(rest, weight)
                   ELSE rest = lru
<1>1. /\ Fits(after) /\ Keys(after) = Keys(lru) \cup {key} /\ Peek(after, key) = value
      /\ \A t \in Keys(lru) \ {key} : Peek(after, t) = Peek(lru, t)
  BY EntryComes
<1>2. Entries(lru) /\ Entries(after)
  BY <1>1, FitsIsFinite
<1>3. CASE ~Holds(lru, key)
  <2>1. LacksOnly(lru, after, key) /\ key \in Keys(after)
    BY <1>1, <1>3 DEF Holds, LacksOnly
  <2>2. ASSUME NEW weight \in [CacheEntry -> Int]
        PROVE  Weigh(after, weight) = weight[value] + Weigh(lru, weight)
    BY <1>1, <1>2, <2>1, WeighWithout
  <2> QED BY <1>1, <1>2, <1>3, <2>2
<1>4. CASE Holds(lru, key)
  <2>0. PICK rest : rest = [of |-> [t \in Keys(lru) \ {key} |-> lru.of[t]], order |-> <<>>]
    OBVIOUS
  <2>1. Keys(rest) = Keys(lru) \ {key} /\ \A t \in Keys(rest) : Peek(rest, t) = Peek(lru, t)
    BY <2>0 DEF Keys, Peek
  <2>2. /\ LacksOnly(rest, lru, key) /\ LacksOnly(rest, after, key)
        /\ key \in Keys(lru) /\ key \in Keys(after)
    BY <1>1, <1>4, <2>1 DEF LacksOnly, Holds
  <2>3. ASSUME NEW weight \in [CacheEntry -> Int]
        PROVE  /\ Entries(rest)
               /\ Weigh(lru, weight) = weight[Peek(lru, key)] + Weigh(rest, weight)
    BY <1>2, <2>2, WeighWithout
  <2>4. ASSUME NEW weight \in [CacheEntry -> Int]
        PROVE  Weigh(after, weight) = weight[value] + Weigh(rest, weight)
    BY <1>1, <1>2, <2>2, WeighWithout
  <2>5. Entries(rest)
    <3>1. [e \in CacheEntry |-> 0] \in [CacheEntry -> Int]
      OBVIOUS
    <3> QED BY <2>3, <3>1
  <2> QED BY <1>1, <1>4, <2>3, <2>4, <2>5
<1> QED BY <1>3, <1>4

\* The sums of a cache are those over what lru holds.
Accounts(c, lru) ==
    /\ {c.sizes, c.responders, c.subnets, c.count, c.finds} \subseteq Int
    /\ c.sizes = Weigh(lru, SizeOf)
    /\ c.responders = FirstResponders + Weigh(lru, RespondersOf)
    /\ c.subnets = FirstSubnets + Weigh(lru, SubnetsOf)
    /\ c.count = Weigh(lru, CountOf) + c.finds

IsCache(c) ==
    c = [lru |-> c.lru, sizes |-> c.sizes, responders |-> c.responders,
         subnets |-> c.subnets, count |-> c.count, finds |-> c.finds]

\* The inductive invariant: the sums over the cache are running sums, so every entry is
\* taken from them once for the once that it was added.
CacheOK(c) == IsCache(c) /\ Fits(c.lru) /\ Accounts(c, c.lru)

LEMMA WeightsAre ==
    /\ SizeOf \in [CacheEntry -> Int] /\ RespondersOf \in [CacheEntry -> Int]
    /\ SubnetsOf \in [CacheEntry -> Int] /\ CountOf \in [CacheEntry -> Int]
    /\ \A e \in CacheEntry :
         /\ SizeOf[e] = e.size /\ RespondersOf[e] = e.responders
         /\ SubnetsOf[e] = e.subnets /\ CountOf[e] = IF e.find THEN 0 ELSE 1
         /\ {e.size, e.responders, e.subnets} \subseteq Int
BY DEF SizeOf, RespondersOf, SubnetsOf, CountOf, CacheEntry

LEMMA NewCacheOK == CacheOK(NewCache)
<1>1. /\ NewCache.lru = EmptyLru /\ NewCache.sizes = 0 /\ NewCache.count = 0
      /\ NewCache.finds = 0
      /\ NewCache.responders = FirstResponders /\ NewCache.subnets = FirstSubnets
      /\ IsCache(NewCache)
  BY DEF NewCache, IsCache
<1>2. LruOK(EmptyLru, Target, CacheCap) /\ Keys(EmptyLru) = {}
  BY EmptyIsOK, CacheAssumption
<1>3. Fits(EmptyLru)
  BY <1>2 DEF Fits
<1>4. ASSUME NEW weight PROVE Weigh(EmptyLru, weight) = 0
  BY <1>2, TotalOfNone DEF Weigh
<1>5. Accounts(NewCache, EmptyLru)
  BY <1>1, <1>4, CacheAssumption DEF Accounts
<1> QED BY <1>1, <1>3, <1>5 DEF CacheOK

\* decrement_cached_iterative_query_stats, and the increment.
LEMMA LessIs ==
    ASSUME NEW c, IsCache(c), NEW lru, Entries(lru), Accounts(c, lru), NEW rest, Entries(rest),
           NEW entry \in CacheEntry,
           \A weight \in [CacheEntry -> Int] : Weigh(lru, weight) = weight[entry] + Weigh(rest, weight)
    PROVE  IsCache(Less(c, entry)) /\ Less(c, entry).lru = c.lru /\ Accounts(Less(c, entry), rest)
<1> PICK less : less = Less(c, entry)
  OBVIOUS
<1>1. /\ less.lru = c.lru /\ less.sizes = c.sizes - entry.size
      /\ less.responders = c.responders - entry.responders
      /\ less.subnets = c.subnets - entry.subnets
      /\ less.count = IF entry.find THEN c.count ELSE c.count - 1
      /\ less.finds = c.finds
      /\ IsCache(less)
  BY DEF IsCache, Less
<1>2. /\ Weigh(lru, SizeOf) = entry.size + Weigh(rest, SizeOf)
      /\ Weigh(lru, RespondersOf) = entry.responders + Weigh(rest, RespondersOf)
      /\ Weigh(lru, SubnetsOf) = entry.subnets + Weigh(rest, SubnetsOf)
      /\ Weigh(lru, CountOf) = (IF entry.find THEN 0 ELSE 1) + Weigh(rest, CountOf)
  BY WeightsAre
<1>3. /\ {Weigh(rest, SizeOf), Weigh(rest, RespondersOf), Weigh(rest, SubnetsOf),
          Weigh(rest, CountOf)} \subseteq Int
      /\ {entry.size, entry.responders, entry.subnets} \subseteq Int
  BY WeightsAre, WeighIsInt
<1>4. Accounts(less, rest)
  BY <1>1, <1>2, <1>3, CacheAssumption DEF Accounts
<1> QED BY <1>1, <1>4

LEMMA MoreIs ==
    ASSUME NEW c, IsCache(c), NEW rest, Entries(rest), Accounts(c, rest), NEW lru, Entries(lru),
           NEW entry \in CacheEntry,
           \A weight \in [CacheEntry -> Int] : Weigh(lru, weight) = weight[entry] + Weigh(rest, weight)
    PROVE  IsCache(More(c, entry)) /\ More(c, entry).lru = c.lru /\ Accounts(More(c, entry), lru)
<1> PICK more : more = More(c, entry)
  OBVIOUS
<1>1. /\ more.lru = c.lru /\ more.sizes = c.sizes + entry.size
      /\ more.responders = c.responders + entry.responders
      /\ more.subnets = c.subnets + entry.subnets
      /\ more.count = c.count + 1
      /\ more.finds = IF entry.find THEN c.finds + 1 ELSE c.finds
      /\ IsCache(more)
  BY DEF IsCache, More
<1>2. /\ Weigh(lru, SizeOf) = entry.size + Weigh(rest, SizeOf)
      /\ Weigh(lru, RespondersOf) = entry.responders + Weigh(rest, RespondersOf)
      /\ Weigh(lru, SubnetsOf) = entry.subnets + Weigh(rest, SubnetsOf)
      /\ Weigh(lru, CountOf) = (IF entry.find THEN 0 ELSE 1) + Weigh(rest, CountOf)
  BY WeightsAre
<1>3. /\ {Weigh(rest, SizeOf), Weigh(rest, RespondersOf), Weigh(rest, SubnetsOf),
          Weigh(rest, CountOf)} \subseteq Int
      /\ {entry.size, entry.responders, entry.subnets} \subseteq Int
  BY WeightsAre, WeighIsInt
<1>4. Accounts(more, lru)
  BY <1>1, <1>2, <1>3, CacheAssumption DEF Accounts
<1> QED BY <1>1, <1>4

LEMMA PoppedOK ==
    ASSUME NEW c, CacheOK(c)
    PROVE  CacheOK(Popped(c)) /\ Len(Popped(c).lru.order) < CacheCap
<1> PICK lru : lru = c.lru
  OBVIOUS
<1>1. IsCache(c) /\ Fits(lru) /\ Accounts(c, lru)
  BY DEF CacheOK
<1>2. /\ Entries(lru) /\ Len(lru.order) \in Nat /\ Len(lru.order) <= CacheCap
      /\ CacheCap \in Nat \ {0}
  BY <1>1, FitsIsFinite, CacheAssumption
<1>3. CASE Len(lru.order) < CacheCap
  BY <1>3 DEF Popped, Size
<1>4. CASE ~(Len(lru.order) < CacheCap)
  <2> PICK oldest : oldest = Last(lru.order)
    OBVIOUS
  <2> PICK rest : rest = WithoutOldest(lru)
    OBVIOUS
  <2> PICK less : less = Less(c, Peek(lru, oldest))
    OBVIOUS
  <2>1. lru.order # <<>>
    BY <1>2, <1>4
  <2>2. /\ Fits(rest) /\ oldest \in Keys(lru) /\ Len(rest.order) = Len(lru.order) - 1
        /\ LacksOnly(rest, lru, oldest)
    BY <1>1, <2>1, OldestGoes
  <2>3. Peek(lru, oldest) \in CacheEntry /\ Entries(rest)
    BY <1>2, <2>2, FitsIsFinite DEF Entries
  <2>4. ASSUME NEW weight \in [CacheEntry -> Int]
        PROVE  Weigh(lru, weight) = weight[Peek(lru, oldest)] + Weigh(rest, weight)
    BY <1>2, <2>2, WeighWithout
  <2>5. IsCache(less) /\ less.lru = lru /\ Accounts(less, rest)
    BY <1>1, <1>2, <2>3, <2>4, LessIs
  <2>6. Popped(c) = [less EXCEPT !.lru = rest]
    <3>1. LessOf(c, oldest) = less
      BY <2>2 DEF LessOf, Holds
    <3>2. ~(Size(c) < CacheCap)
      BY <1>4 DEF Size
    <3>3. Popped(c) = [LessOf(c, oldest) EXCEPT !.lru =
            [of |-> Restrict(@.of, DOMAIN @.of \ {oldest}), order |-> Front(@.order)]]
      BY <3>2 DEF Popped
    <3>4. Popped(c) = [less EXCEPT !.lru =
            [of |-> Restrict(lru.of, DOMAIN lru.of \ {oldest}), order |-> Front(lru.order)]]
      BY <2>5, <3>1, <3>3
    <3> QED BY <3>4 DEF WithoutOldest
  <2> PICK popped : popped = Popped(c)
    OBVIOUS
  <2>7. /\ popped.lru = rest /\ IsCache(popped) /\ popped.sizes = less.sizes
        /\ popped.responders = less.responders /\ popped.subnets = less.subnets
        /\ popped.count = less.count /\ popped.finds = less.finds
    BY <2>5, <2>6 DEF IsCache
  <2>8. Accounts(popped, rest)
    BY <2>5, <2>7 DEF Accounts
  <2>9. CacheOK(popped)
    BY <2>2, <2>7, <2>8 DEF CacheOK
  <2>10. Len(rest.order) < CacheCap
    BY <1>2, <2>2
  <2> QED BY <2>7, <2>9, <2>10
<1> QED BY <1>3, <1>4

LEMMA CachedOK ==
    ASSUME NEW c, CacheOK(c), NEW target \in Target, NEW entry \in CacheEntry
    PROVE  CacheOK(Cached(c, target, entry))
<1> PICK room : room = Popped(c)
  OBVIOUS
<1> PICK lru : lru = room.lru
  OBVIOUS
<1> PICK after : after = Stored(lru, target, entry, CacheCap)
  OBVIOUS
<1> PICK less : less = LessOf(room, target)
  OBVIOUS
<1>1. IsCache(room) /\ Fits(lru) /\ Accounts(room, lru) /\ Len(lru.order) < CacheCap
  BY PoppedOK DEF CacheOK
<1>2. Fits(after)
  BY <1>1, RestOf
<1>3. PICK rest :
        /\ Entries(rest)
        /\ \A weight \in [CacheEntry -> Int] :
             Weigh(after, weight) = weight[entry] + Weigh(rest, weight)
        /\ IF Holds(lru, target)
           THEN \A weight \in [CacheEntry -> Int] :
                  Weigh(lru, weight) = weight[Peek(lru, target)] + Weigh(rest, weight)
           ELSE rest = lru
  BY <1>1, RestOf
<1>4. Entries(lru) /\ Entries(after)
  BY <1>1, <1>2, FitsIsFinite
<1>5. IsCache(less) /\ less.lru = lru /\ Accounts(less, rest)
  <2>1. CASE Holds(lru, target)
    <3>1. less = Less(room, Peek(lru, target))
      BY <2>1 DEF LessOf
    <3>2. Peek(lru, target) \in CacheEntry
      BY <1>4, <2>1 DEF Entries, Holds
    <3>3. \A weight \in [CacheEntry -> Int] :
            Weigh(lru, weight) = weight[Peek(lru, target)] + Weigh(rest, weight)
      BY <1>3, <2>1
    <3> QED BY <1>1, <1>3, <1>4, <3>1, <3>2, <3>3, LessIs
  <2>2. CASE ~Holds(lru, target)
    <3>1. less = room /\ rest = lru
      BY <1>3, <2>2 DEF LessOf
    <3> QED BY <1>1, <3>1
  <2> QED BY <2>1, <2>2
<1> PICK more : more = More(less, entry)
  OBVIOUS
<1>6. IsCache(more) /\ more.lru = lru /\ Accounts(more, after)
  BY <1>3, <1>4, <1>5, MoreIs
<1> PICK cached : cached = Cached(c, target, entry)
  OBVIOUS
<1>7. cached = [more EXCEPT !.lru = after]
  <2>1. cached = [more EXCEPT !.lru = Stored(@, target, entry, CacheCap)]
    BY DEF Cached
  <2> QED BY <1>6, <2>1
<1>8. /\ cached.lru = after /\ IsCache(cached) /\ cached.sizes = more.sizes
      /\ cached.responders = more.responders /\ cached.subnets = more.subnets
      /\ cached.count = more.count /\ cached.finds = more.finds
  BY <1>6, <1>7 DEF IsCache
<1>9. Accounts(cached, after)
  BY <1>6, <1>8 DEF Accounts
<1> QED BY <1>2, <1>8, <1>9 DEF CacheOK

LEMMA CacheOKMatches ==
    ASSUME NEW c, CacheOK(c)
    PROVE  Matches(c)
<1> PICK lru : lru = c.lru
  OBVIOUS
<1>1. Fits(lru) /\ Accounts(c, lru)
  BY DEF CacheOK
<1>2. Entries(lru) /\ Size(c) <= CacheCap
  BY <1>1, FitsIsFinite DEF Size
<1> DEFINE sizes == [t \in Keys(c.lru) |-> Peek(c.lru, t).size]
           responders == [t \in Keys(c.lru) |-> Peek(c.lru, t).responders]
           subnets == [t \in Keys(c.lru) |-> Peek(c.lru, t).subnets]
           counts == [t \in Keys(c.lru) |-> IF Peek(c.lru, t).find THEN 0 ELSE 1]
<1>3. \A t \in Keys(lru) : Peek(lru, t) \in CacheEntry
  BY <1>2 DEF Entries
<1>4. /\ sizes = Weighed(lru, SizeOf) /\ responders = Weighed(lru, RespondersOf)
      /\ subnets = Weighed(lru, SubnetsOf) /\ counts = Weighed(lru, CountOf)
  BY <1>3, WeightsAre DEF Weighed
<1>5. /\ DOMAIN sizes = Keys(lru) /\ DOMAIN responders = Keys(lru)
      /\ DOMAIN subnets = Keys(lru) /\ DOMAIN counts = Keys(lru)
  OBVIOUS
<1>6. SumOf(c, LAMBDA e : e.size) = Total(sizes, DOMAIN sizes)
  BY Zenon DEF SumOf, FoldFunction, FoldFunctionOnSet, MapThenFoldSet, Total, SumFunctionOnSet
<1>7. SumOf(c, LAMBDA e : e.responders) = Total(responders, DOMAIN responders)
  BY Zenon DEF SumOf, FoldFunction, FoldFunctionOnSet, MapThenFoldSet, Total, SumFunctionOnSet
<1>8. SumOf(c, LAMBDA e : e.subnets) = Total(subnets, DOMAIN subnets)
  BY Zenon DEF SumOf, FoldFunction, FoldFunctionOnSet, MapThenFoldSet, Total, SumFunctionOnSet
<1>9. SumOf(c, LAMBDA e : IF e.find THEN 0 ELSE 1) = Total(counts, DOMAIN counts)
  BY Zenon DEF SumOf, FoldFunction, FoldFunctionOnSet, MapThenFoldSet, Total, SumFunctionOnSet
<1> HIDE DEF sizes, responders, subnets, counts
<1>10. /\ SumOf(c, LAMBDA e : e.size) = Weigh(lru, SizeOf)
       /\ SumOf(c, LAMBDA e : e.responders) = Weigh(lru, RespondersOf)
       /\ SumOf(c, LAMBDA e : e.subnets) = Weigh(lru, SubnetsOf)
       /\ SumOf(c, LAMBDA e : IF e.find THEN 0 ELSE 1) = Weigh(lru, CountOf)
  BY <1>4, <1>5, <1>6, <1>7, <1>8, <1>9, Zenon DEF Weigh
<1> QED BY <1>1, <1>2, <1>10, Zenon DEF Matches, Accounts

-----------------------------------------------------------------------------
(* The lookups, their votes, and the whole state.                          *)

Lookup == [find : BOOLEAN, votes : [Address -> 0 .. MaxVotes]]

LookupsOK(l) == l \in [DOMAIN l -> Lookup] /\ DOMAIN l \subseteq Target

LEMMA LookingUpKeeps ==
    ASSUME LookupsOK(lookups), NEW target \in Target, NEW find \in BOOLEAN
    PROVE  LookupsOK(LookingUp(target, find))
<1> PICK after : after = LookingUp(target, find)
  OBVIOUS
<1>1. CASE target \in DOMAIN lookups
  BY <1>1 DEF LookingUp
<1>2. CASE target \notin DOMAIN lookups
  <2> PICK new : new = [find |-> find, votes |-> [a \in Address |-> 0]]
    OBVIOUS
  <2>1. new \in Lookup
    BY UpkeepAssumption DEF Lookup
  <2>2. after = [t \in DOMAIN lookups \cup {target} |-> IF t = target THEN new ELSE lookups[t]]
    BY <1>2 DEF LookingUp
  <2>3. \A t \in DOMAIN lookups : lookups[t] \in Lookup
    BY DEF LookupsOK
  <2>4. DOMAIN after = DOMAIN lookups \cup {target} /\ \A t \in DOMAIN after : after[t] \in Lookup
    BY <2>1, <2>2, <2>3
  <2>5. after = [t \in DOMAIN after |-> after[t]]
    BY <2>2, <2>4
  <2>6. after \in [DOMAIN after -> Lookup] /\ DOMAIN after \subseteq Target
    BY <2>4, <2>5 DEF LookupsOK
  <2> QED BY <2>6 DEF LookupsOK
<1> QED BY <1>1, <1>2

\* No address has more votes than there are.
LEMMA VotesCount ==
    ASSUME LookupsOK(lookups), NEW target \in DOMAIN lookups, NEW address \in Address
    PROVE  /\ Votes(target) \in Nat /\ lookups[target].votes[address] \in Nat
           /\ lookups[target].votes[address] <= Votes(target)
<1>1. PICK votes : votes = lookups[target].votes
  OBVIOUS
<1>2. votes \in [Address -> 0 .. MaxVotes]
  BY <1>1 DEF LookupsOK, Lookup
<1>3. IsFiniteSet(Address) /\ \A a \in Address : votes[a] \in Nat /\ votes[a] \in Int
  BY <1>2, UpkeepAssumption
<1>4. Votes(target) = Total(votes, DOMAIN votes)
  BY <1>1, Zenon DEF Votes, FoldFunction, FoldFunctionOnSet, MapThenFoldSet, Total, SumFunctionOnSet
<1>5. Votes(target) = Total(votes, Address)
  BY <1>2, <1>4
<1>6. Total(votes, Address) = votes[address] + Total(votes, Address \ {address})
  BY <1>3, TotalWith
<1>7. 0 \in Nat /\ \A a, b \in Nat : a + b \in Nat
  OBVIOUS
<1>8. IsFiniteSet(Address \ {address}) /\ \A a \in Address \ {address} : votes[a] \in Nat
  BY <1>3, FS_RemoveElement
<1>9. Total(votes, Address \ {address}) \in Nat
  BY <1>7, <1>8, TotalIn
<1> QED BY <1>1, <1>3, <1>5, <1>6, <1>9

LEMMA VotedKeeps ==
    ASSUME LookupsOK(lookups), NEW target \in DOMAIN lookups,
           NEW address \in Address \cup {NoAddress},
           address # NoAddress => Votes(target) < MaxVotes
    PROVE  LookupsOK(Voted(target, address))
<1>1. CASE address = NoAddress
  BY <1>1 DEF Voted
<1>2. CASE address # NoAddress
  <2> PICK old : old = lookups[target]
    OBVIOUS
  <2> PICK votes : votes = [old.votes EXCEPT ![address] = @ + 1]
    OBVIOUS
  <2> PICK new : new = [old EXCEPT !.votes = votes]
    OBVIOUS
  <2> PICK after : after = Voted(target, address)
    OBVIOUS
  <2>1. /\ Votes(target) \in Nat /\ old.votes[address] \in Nat
        /\ old.votes[address] <= Votes(target) /\ Votes(target) < MaxVotes /\ MaxVotes \in Nat
    BY <1>2, VotesCount, UpkeepAssumption
  <2>2. old \in Lookup /\ old.votes \in [Address -> 0 .. MaxVotes]
    BY DEF LookupsOK, Lookup
  <2>3. old.votes[address] + 1 \in 0 .. MaxVotes
    BY <2>1
  <2>4. votes \in [Address -> 0 .. MaxVotes]
    BY <1>2, <2>2, <2>3
  <2>5. new \in Lookup
    BY <2>2, <2>4 DEF Lookup
  <2>6. after = [lookups EXCEPT ![target] = new]
    BY <1>2 DEF Voted
  <2>7. after \in [DOMAIN lookups -> Lookup] /\ DOMAIN after = DOMAIN lookups
    BY <2>5, <2>6 DEF LookupsOK
  <2> QED BY <2>7 DEF LookupsOK
<1> QED BY <1>1, <1>2

LEMMA EndedKeeps ==
    ASSUME LookupsOK(lookups), NEW target \in DOMAIN lookups
    PROVE  LookupsOK(Restrict(lookups, DOMAIN lookups \ {target}))
<1> PICK after : after = Restrict(lookups, DOMAIN lookups \ {target})
  OBVIOUS
<1>1. after = [t \in DOMAIN lookups \ {target} |-> lookups[t]]
  BY DEF Restrict
<1>2. after \in [DOMAIN lookups \ {target} -> Lookup] /\ DOMAIN after = DOMAIN lookups \ {target}
  BY <1>1 DEF LookupsOK
<1> QED BY <1>2 DEF LookupsOK

LEMMA KeptIsEntry ==
    ASSUME LookupsOK(lookups), NEW target \in DOMAIN lookups, NEW entry \in Entry
    PROVE  Kept(entry, target) \in CacheEntry
<1>1. {entry.size, entry.responders, entry.subnets} \subseteq Int
  BY UpkeepAssumption
<1>2. lookups[target].find \in BOOLEAN
  BY DEF LookupsOK, Lookup
<1> QED BY <1>1, <1>2 DEF Kept, CacheEntry

\* The inductive invariant of the lookups and what is cached of them.
CacheInv == LookupsOK(lookups) /\ CacheOK(cache) /\ id \in OwnId

LEMMA InitCache == Init => CacheInv
<1> SUFFICES ASSUME Init PROVE CacheInv
  OBVIOUS
<1>1. lookups = <<>> /\ cache = NewCache /\ id \in OwnId
  BY UpkeepAssumption DEF Init
<1>2. DOMAIN lookups = {} /\ lookups \in [{} -> Lookup]
  BY <1>1
<1>3. LookupsOK(lookups)
  BY <1>2 DEF LookupsOK
<1> QED BY <1>1, <1>3, NewCacheOK DEF CacheInv

LEMMA NextCache == CacheInv /\ [Next]_vars => CacheInv'
<1> SUFFICES ASSUME CacheInv, [Next]_vars PROVE CacheInv'
  OBVIOUS
<1> SUFFICES LookupsOK(lookups') /\ CacheOK(cache') /\ id' \in OwnId
  BY DEF CacheInv
<1>0. LookupsOK(lookups) /\ CacheOK(cache) /\ id \in OwnId /\ OwnId \subseteq Target
  BY DEF CacheInv, Target
<1>1. CASE Tick
  BY <1>0, <1>1 DEF Tick
<1>2. CASE Maintain
  <2>1. /\ lookups' = IF ShouldPopulate THEN Populated ELSE lookups
        /\ cache' = cache /\ id' = id
    BY <1>2 DEF Maintain, Periodically
  <2>2. LookupsOK(LookingUp(id, TRUE))
    BY <1>0, LookingUpKeeps
  <2>3. LookupsOK(Populated)
    BY <1>0, <2>2 DEF Populated
  <2> QED BY <1>0, <2>1, <2>3
<1>3. ASSUME NEW target \in Wanted, Get(target)
      PROVE  LookupsOK(lookups') /\ CacheOK(cache') /\ id' \in OwnId
  <2>1. lookups' = LookingUp(target, FALSE) /\ cache' = cache /\ id' = id
    BY <1>3 DEF Get
  <2>2. LookupsOK(LookingUp(target, FALSE))
    BY <1>0, LookingUpKeeps DEF Target
  <2> QED BY <1>0, <2>1, <2>2
<1>4. ASSUME NEW target \in Target, EndLookup(target)
      PROVE  LookupsOK(lookups') /\ CacheOK(cache') /\ id' \in OwnId
  <2>1. /\ target \in DOMAIN lookups /\ id' = id
        /\ lookups' = Restrict(lookups, DOMAIN lookups \ {target})
        /\ \/ cache' = Popped(cache)
           \/ \E entry \in Entry : cache' = Cached(cache, target, Kept(entry, target))
    BY <1>4 DEF EndLookup
  <2>2. LookupsOK(lookups')
    BY <1>0, <2>1, EndedKeeps
  <2>3. CASE cache' = Popped(cache)
    BY <1>0, <2>1, <2>2, <2>3, PoppedOK
  <2>4. ASSUME NEW entry \in Entry, cache' = Cached(cache, target, Kept(entry, target))
        PROVE  CacheOK(cache')
    <3>1. Kept(entry, target) \in CacheEntry
      BY <1>0, <2>1, KeptIsEntry
    <3> QED BY <1>0, <2>4, <3>1, CachedOK
  <2> QED BY <1>0, <2>1, <2>2, <2>3, <2>4
<1>5. ASSUME NEW target \in Target, NEW peer \in Peer, NEW address \in Address \cup {NoAddress},
             NEW valued \in BOOLEAN, Answer(target, peer, address, valued)
      PROVE  LookupsOK(lookups') /\ CacheOK(cache') /\ id' \in OwnId
  <2>1. /\ target \in DOMAIN lookups /\ (address # NoAddress => Votes(target) < MaxVotes)
        /\ lookups' = Voted(target, address) /\ cache' = cache /\ id' = id
    BY <1>5 DEF Answer
  <2>2. LookupsOK(Voted(target, address))
    BY <1>0, <2>1, VotedKeeps
  <2> QED BY <1>0, <2>1, <2>2
<1>6. ASSUME NEW peer \in Peer, FindNodeArrives(peer.id, peer.address)
      PROVE  LookupsOK(lookups') /\ CacheOK(cache') /\ id' \in OwnId
  BY <1>0, <1>6 DEF FindNodeArrives
<1>7. ASSUME NEW address \in Address, OwnPingArrives(address)
      PROVE  LookupsOK(lookups') /\ CacheOK(cache') /\ id' \in OwnId
  <2>1. cache' = cache
    BY <1>7 DEF OwnPingArrives
  <2>2. CASE public.ip \in ValidFor[id]
    BY <1>0, <1>7, <2>1, <2>2 DEF OwnPingArrives
  <2>3. CASE public.ip \notin ValidFor[id]
    <3>1. PICK new \in OwnId : id' = new /\ lookups' = LookingUp(new, TRUE)
      BY <1>7, <2>3 DEF OwnPingArrives
    <3>2. LookupsOK(LookingUp(new, TRUE))
      BY <1>0, LookingUpKeeps
    <3> QED BY <1>0, <2>1, <3>1, <3>2
  <2> QED BY <2>2, <2>3
<1>8. CASE UNCHANGED vars
  BY <1>0, <1>8 DEF vars
<1> QED BY <1>1, <1>2, <1>3, <1>4, <1>5, <1>6, <1>7, <1>8 DEF Next

\* rpc.rs, cache_iterative_query: the sums from which the size of the DHT is told are
\* those over the cache, however lookups repeat their targets, replace each other,
\* come to nothing or push older ones out; and the counter is the number of those that
\* are no find_nodes, as its comment has it, plus that of all find_nodes of the past.
THEOREM SumsStayTrue == Spec => []StatsMatchCache
<1>1. CacheInv => StatsMatchCache
  BY CacheOKMatches DEF CacheInv, StatsMatchCache
<1> QED BY <1>1, InitCache, NextCache, PTL DEF Spec

\* What else a state is made of.  No timer runs beyond its interval and no age beyond
\* the first that is stale: Tick waits for Maintain.
RestInv ==
    /\ bootstrap \in BOOLEAN /\ firewalled \in BOOLEAN /\ serverMode \in BOOLEAN
    /\ public \in Address \cup {NoAddress}
    /\ sinceRefresh \in 0 .. RefreshInterval /\ sincePing \in 0 .. PingInterval
    /\ \A n \in Nodes(table) : n.age \in Age

NodeInv == RestInv /\ TableInv /\ CacheInv /\ PublicInv

LEMMA NodeIsTyped == NodeInv => TypeOK
<1> SUFFICES ASSUME NodeInv PROVE TypeOK
  OBVIOUS
<1>1. \A n \in Nodes(table) : n.id \in Id /\ n.age \in Age /\ n.address.ip \in Ip
  <2> SUFFICES ASSUME NEW n \in Nodes(table)
               PROVE  n.id \in Id /\ n.age \in Age /\ n.address.ip \in Ip
    OBVIOUS
  <2>1. n \in Node
    BY NodesAreNodes DEF NodeInv, TableInv
  <2>2. n.id \in Id /\ \E p \in Peer : n.address = p.address
    BY <2>1 DEF Node
  <2>3. n.address.ip \in Ip
    BY <2>2, UpkeepAssumption
  <2> QED BY <2>2, <2>3 DEF NodeInv, RestInv
<1>2. /\ DOMAIN lookups \subseteq Target
      /\ \A t \in DOMAIN lookups :
           lookups[t].find \in BOOLEAN /\ lookups[t].votes \in [Address -> 0 .. MaxVotes]
  BY DEF NodeInv, CacheInv, LookupsOK, Lookup
<1> QED BY <1>1, <1>2 DEF NodeInv, RestInv, CacheInv, PublicInv, TypeOK

LEMMA InitRest == Init => RestInv
<1> SUFFICES ASSUME Init PROVE RestInv
  OBVIOUS
<1>1. Nodes(table) = {}
  BY EmptyTableOK, UpkeepAssumption DEF Init
<1>2. 0 \in 0 .. RefreshInterval /\ 0 \in 0 .. PingInterval
  BY UpkeepAssumption
<1> QED BY <1>1, <1>2 DEF Init, RestInv

LEMMA FreshAge ==
    ASSUME NEW peer \in Peer, TableInv, \A n \in Nodes(table) : n.age \in Age
    PROVE  \A n \in Nodes(Added(table, id, Fresh(peer.id, peer.address))) : n.age \in Age
<1> PICK node : node = Fresh(peer.id, peer.address)
  OBVIOUS
<1>1. node \in Node /\ node.age = 0
  BY FreshIsNode DEF Fresh
<1>2. Nodes(Added(table, id, node)) \subseteq Nodes(table) \cup {node}
  BY <1>1, AddedKeeps DEF TableInv
<1>3. 0 \in Age
  BY TableAssumption DEF Age
<1> QED BY <1>1, <1>2, <1>3

LEMMA NextRest == NodeInv /\ [Next]_vars => RestInv'
<1> SUFFICES ASSUME NodeInv, [Next]_vars PROVE RestInv'
  OBVIOUS
<1> DEFINE Aging == \A n \in Nodes(table') : n.age \in Age
<1>02. ASSUME bootstrap' \in BOOLEAN, firewalled' \in BOOLEAN, serverMode' \in BOOLEAN,
              public' \in Address \cup {NoAddress}, Aging,
              sinceRefresh' \in 0 .. RefreshInterval, sincePing' \in 0 .. PingInterval
       PROVE  RestInv'
  BY <1>02 DEF RestInv, Nodes, Buckets, Age
<1>0. /\ bootstrap \in BOOLEAN /\ firewalled \in BOOLEAN /\ serverMode \in BOOLEAN
      /\ public \in Address \cup {NoAddress}
      /\ sinceRefresh \in 0 .. RefreshInterval /\ sincePing \in 0 .. PingInterval
      /\ \A n \in Nodes(table) : n.age \in Age
      /\ TableInv /\ TableOK(table, id)
      /\ RefreshInterval \in Nat \ {0} /\ PingInterval \in Nat \ {0}
  BY UpkeepAssumption DEF NodeInv, RestInv, TableInv
<1>01. table' = table => Aging
  BY <1>0
<1> HIDE DEF Aging
<1>1. CASE Tick
  <2>1. /\ UNCHANGED <<bootstrap, firewalled, serverMode, public>>
        /\ table' = Aged(table) /\ sinceRefresh' = sinceRefresh + 1 /\ sincePing' = sincePing + 1
        /\ ~(sinceRefresh >= RefreshInterval) /\ ~(sincePing >= PingInterval)
    BY <1>1 DEF Tick, Settled, RefreshIsDue, PingIsDue
  <2>2. sinceRefresh' \in 0 .. RefreshInterval /\ sincePing' \in 0 .. PingInterval
    BY <1>0, <2>1
  <2>3. ASSUME NEW n \in Nodes(Aged(table)) PROVE n.age \in Age
    <3>1. PICK m \in Nodes(table) : m \in Node /\ n = Older(m)
      BY <1>0, AgedKeeps
    <3>2. n.age = IF IsStale(m) THEN m.age ELSE m.age + 1
      BY <3>1, OlderIs
    <3>3. m.age \in 0 .. StaleTime + 1 /\ StaleTime \in Nat
      BY <1>0, TableAssumption DEF Age
    <3> QED BY <3>2, <3>3 DEF IsStale, Age
  <2>4. Aging
    BY <2>1, <2>3 DEF Aging
  <2> QED BY <1>0, <1>02, <2>1, <2>2, <2>4
<1>2. CASE Maintain
  <2>1. /\ UNCHANGED <<bootstrap, firewalled, public>>
        /\ serverMode' = (serverMode \/ Switched)
        /\ table' = IF PingIsDue THEN Purged(table) ELSE table
        /\ sincePing' = IF PingIsDue THEN 0 ELSE sincePing
        /\ sinceRefresh' = IF ShouldPopulate THEN 0 ELSE sinceRefresh
    BY <1>2 DEF Maintain, Periodically
  <2>2. sinceRefresh' \in 0 .. RefreshInterval /\ sincePing' \in 0 .. PingInterval
    BY <1>0, <2>1
  <2>3. Nodes(Purged(table)) \subseteq Nodes(table)
    BY <1>0, WithoutKeeps DEF Purged
  <2>4. Aging
    <3>1. CASE PingIsDue
      BY <1>0, <2>1, <2>3, <3>1 DEF Aging
    <3>2. CASE ~PingIsDue
      BY <1>01, <2>1, <3>2
    <3> QED BY <3>1, <3>2
  <2>5. serverMode' \in BOOLEAN
    BY <2>1
  <2> QED BY <1>0, <1>02, <2>1, <2>2, <2>4, <2>5
<1>3. ASSUME NEW target \in Wanted, Get(target) PROVE RestInv'
  <2>1. UNCHANGED <<bootstrap, firewalled, serverMode, public, sinceRefresh, sincePing, table>>
    BY <1>3 DEF Get
  <2> QED BY <1>0, <1>01, <1>02, <2>1
<1>4. ASSUME NEW target \in Target, EndLookup(target) PROVE RestInv'
  <2>1. UNCHANGED <<bootstrap, serverMode, sinceRefresh, sincePing, table>>
    BY <1>4 DEF EndLookup
  <2>2. PICK address \in BestAddresses(target) : Proposed(address)
    BY <1>4 DEF EndLookup
  <2>3. address \in Address \cup {NoAddress}
    BY DEF BestAddresses
  <2>4. public' \in Address \cup {NoAddress} /\ firewalled' \in BOOLEAN
    BY <1>0, <2>2, <2>3 DEF Proposed
  <2> QED BY <1>0, <1>01, <1>02, <2>1, <2>4
<1>5. ASSUME NEW target \in Target, NEW peer \in Peer, NEW address \in Address \cup {NoAddress},
             NEW valued \in BOOLEAN, Answer(target, peer, address, valued)
      PROVE  RestInv'
  <2>1. /\ UNCHANGED <<bootstrap, firewalled, serverMode, public, sinceRefresh, sincePing>>
        /\ table' = IF valued THEN table ELSE Added(table, id, Fresh(peer.id, peer.address))
    BY <1>5 DEF Answer
  <2>2. \A n \in Nodes(Added(table, id, Fresh(peer.id, peer.address))) : n.age \in Age
    BY <1>0, FreshAge
  <2>3. Aging
    BY <1>0, <2>1, <2>2 DEF Aging
  <2> QED BY <1>0, <1>02, <2>1, <2>3
<1>6. ASSUME NEW peer \in Peer, FindNodeArrives(peer.id, peer.address) PROVE RestInv'
  <2>1. /\ UNCHANGED <<bootstrap, firewalled, serverMode, public, sinceRefresh, sincePing>>
        /\ table' = Added(table, id, Fresh(peer.id, peer.address))
    BY <1>6 DEF FindNodeArrives
  <2>2. Aging
    BY <1>0, <2>1, FreshAge DEF Aging
  <2> QED BY <1>0, <1>02, <2>1, <2>2
<1>7. ASSUME NEW address \in Address, OwnPingArrives(address) PROVE RestInv'
  <2>1. UNCHANGED <<bootstrap, serverMode, public, sinceRefresh, sincePing>> /\ firewalled' = FALSE
    BY <1>7 DEF OwnPingArrives
  <2>2. Aging
    <3>1. CASE table' = table
      BY <1>01, <3>1
    <3>2. CASE table' = EmptyTable /\ id' \in OwnId
      BY <3>2, EmptyTableOK DEF Aging
    <3> QED BY <1>7, <3>1, <3>2 DEF OwnPingArrives
  <2> QED BY <1>0, <1>02, <2>1, <2>2
<1>8. CASE UNCHANGED vars
  <2>1. UNCHANGED <<bootstrap, firewalled, serverMode, public, sinceRefresh, sincePing, table>>
    BY <1>8 DEF vars
  <2> QED BY <1>0, <1>01, <1>02, <2>1
<1> QED BY <1>1, <1>2, <1>3, <1>4, <1>5, <1>6, <1>7, <1>8 DEF Next

\* The state of a node: no address has more votes than were cast, no timer runs over,
\* and what is in the table are peers that it met.
THEOREM NodeTypeCorrect == Spec => []TypeOK
<1>1. Init => NodeInv
  BY InitRest, InitTable, InitCache, InitPublic DEF NodeInv
<1>2. NodeInv /\ [Next]_vars => NodeInv'
  BY NextRest, NextTable, NextCache, NextPublic DEF NodeInv
<1> QED BY <1>1, <1>2, NodeIsTyped, PTL DEF Spec


-----------------------------------------------------------------------------
(* The ids.                                                                *)

\* l is the number of zeros that z starts with.
ZerosFirst(z, l) ==
    /\ l \in 0 .. IdBits
    /\ \A i \in 1 .. l : z[i] = 0
    /\ l < IdBits => z[l + 1] = 1

LEMMA ZerosAre ==
    ASSUME NEW z \in Bits
    PROVE  ZerosFirst(z, LeadingZeros(z))
<1>1. IdBits \in Nat \ {0}
  BY IdsAssumption
<1>2. Len(z) = IdBits /\ \A i \in 1 .. IdBits : z[i] \in {0, 1}
  <2>1. z \in Seq({0, 1})
    BY <1>1, SeqDef DEF Bits
  <2>2. DOMAIN z = 1 .. IdBits /\ DOMAIN z = 1 .. Len(z) /\ Len(z) \in Nat
    BY <2>1, LenProperties DEF Bits
  <2> QED BY <1>1, <2>2 DEF Bits
<1>3. PICK ones : ones = {i \in 1 .. IdBits : z[i] = 1}
  OBVIOUS
<1>4. PICK one : one = SelectInSeq(z, LAMBDA bit : bit = 1)
  OBVIOUS
<1>5. one = IF ones # {} THEN Min(ones) ELSE 0
  BY <1>2, <1>3, <1>4 DEF SelectInSeq
<1>6. LeadingZeros(z) = IF one = 0 THEN IdBits ELSE one - 1
  BY <1>4 DEF LeadingZeros
<1>7. CASE ones = {}
  BY <1>1, <1>2, <1>3, <1>5, <1>6, <1>7 DEF ZerosFirst
<1>8. CASE ones # {}
  <2>1. PICK n \in ones : \A m \in ones : n <= m
    <3>1. ones \subseteq Nat
      BY <1>1, <1>3
    <3> QED BY <1>8, <3>1, LeastNumber
  <2>2. Min(ones) \in ones /\ \A m \in ones : Min(ones) <= m
    BY <2>1 DEF Min
  <2>3. one \in ones /\ \A m \in ones : one <= m
    BY <1>5, <1>8, <2>2
  <2>4. one \in 1 .. IdBits /\ z[one] = 1 /\ \A m \in 1 .. one - 1 : m \notin ones
    BY <1>1, <1>3, <2>3
  <2>5. LeadingZeros(z) = one - 1
    BY <1>1, <1>6, <2>4
  <2>6. \A m \in 1 .. one - 1 : z[m] = 0
    BY <1>1, <1>2, <1>3, <2>4
  <2>7. one - 1 \in 0 .. IdBits /\ one - 1 < IdBits /\ (one - 1) + 1 = one
    BY <1>1, <2>4
  <2> QED BY <2>4, <2>5, <2>6, <2>7 DEF ZerosFirst
<1> QED BY <1>7, <1>8

\* x and y agree on the first l bits, and then no longer.
AgreeFor(x, y, l) ==
    /\ l \in 0 .. IdBits
    /\ \A i \in 1 .. l : x[i] = y[i]
    /\ l < IdBits => x[l + 1] # y[l + 1]

LEMMA XorTellsBits ==
    ASSUME NEW x \in Bits, NEW y \in Bits
    PROVE  /\ Xor(x, y) \in Bits
           /\ \A i \in 1 .. IdBits : Xor(x, y)[i] = 0 <=> x[i] = y[i]
<1>1. ASSUME NEW i \in 1 .. IdBits
      PROVE  /\ (x[i] + y[i]) % 2 \in {0, 1}
             /\ (x[i] + y[i]) % 2 = 0 <=> x[i] = y[i]
  <2>1. x[i] \in {0, 1} /\ y[i] \in {0, 1}
    BY DEF Bits
  <2> QED BY <2>1
<1> QED BY <1>1 DEF Xor, Bits

LEMMA DistanceTells ==
    ASSUME NEW x \in Bits, NEW y \in Bits
    PROVE  /\ AgreeFor(x, y, IdBits - DistanceOf(x, y))
           /\ DistanceOf(x, y) \in 0 .. IdBits
<1>1. IdBits \in Nat \ {0}
  BY IdsAssumption
<1>2. PICK z : z = Xor(x, y)
  OBVIOUS
<1>3. z \in Bits /\ \A i \in 1 .. IdBits : z[i] = 0 <=> x[i] = y[i]
  BY <1>2, XorTellsBits
<1>4. PICK l : l = LeadingZeros(z)
  OBVIOUS
<1>5. /\ l \in 0 .. IdBits /\ \A i \in 1 .. l : z[i] = 0
      /\ l < IdBits => z[l + 1] = 1
  BY <1>3, <1>4, ZerosAre DEF ZerosFirst
<1>6. AgreeFor(x, y, l)
  BY <1>1, <1>3, <1>5 DEF AgreeFor
<1>7. DistanceOf(x, y) = IdBits - l
  BY <1>2, <1>4 DEF DistanceOf
<1> QED BY <1>1, <1>5, <1>6, <1>7

\* Nothing else agrees for as long.
LEMMA AgreeOnce ==
    ASSUME NEW x, NEW y, NEW l, NEW m, AgreeFor(x, y, l), AgreeFor(x, y, m)
    PROVE  l = m
<1>1. IdBits \in Nat /\ l \in Int /\ m \in Int
  BY IdsAssumption DEF AgreeFor
<1>2. ~(l < m) /\ ~(m < l)
  BY <1>1 DEF AgreeFor
<1> QED BY <1>1, <1>2

LEMMA SameBits ==
    ASSUME NEW x \in Bits, NEW y \in Bits, \A i \in 1 .. IdBits : x[i] = y[i]
    PROVE  x = y
<1>1. x = [i \in 1 .. IdBits |-> x[i]] /\ y = [i \in 1 .. IdBits |-> y[i]]
  BY DEF Bits
<1>2. [i \in 1 .. IdBits |-> x[i]] = [i \in 1 .. IdBits |-> y[i]]
  OBVIOUS
<1> QED BY <1>1, <1>2

LEMMA DistanceFits == DistanceIsOne
<1> SUFFICES ASSUME NEW x \in Bits, NEW y \in Bits, NEW z \in Bits
             PROVE  /\ DistanceOf(x, y) = 0 <=> x = y
                    /\ DistanceOf(x, y) = DistanceOf(y, x)
                    /\ x # y /\ x # z /\ DistanceOf(x, y) = DistanceOf(x, z)
                          => DistanceOf(y, z) < DistanceOf(x, y)
  BY DEF DistanceIsOne
<1>1. IdBits \in Nat \ {0}
  BY IdsAssumption
<1>2. PICK d : d = DistanceOf(x, y)
  OBVIOUS
<1>3. PICK e : e = DistanceOf(y, z)
  OBVIOUS
<1>4. d \in 0 .. IdBits /\ e \in 0 .. IdBits /\ AgreeFor(x, y, IdBits - d)
      /\ AgreeFor(y, z, IdBits - e)
  BY <1>2, <1>3, DistanceTells
<1>5. d = 0 <=> x = y
  <2>1. ASSUME d = 0 PROVE x = y
    <3>1. IdBits - d = IdBits
      BY <1>1, <2>1
    <3>2. \A i \in 1 .. IdBits : x[i] = y[i]
      BY <1>4, <3>1 DEF AgreeFor
    <3> QED BY <3>2, SameBits
  <2>2. ASSUME x = y PROVE d = 0
    BY <1>1, <1>4, <2>2 DEF AgreeFor
  <2> QED BY <2>1, <2>2
<1>6. d = DistanceOf(y, x)
  <2>1. PICK c : c = DistanceOf(y, x)
    OBVIOUS
  <2>2. c \in 0 .. IdBits /\ AgreeFor(y, x, IdBits - c)
    BY <2>1, DistanceTells
  <2>3. AgreeFor(x, y, IdBits - c)
    BY <2>2 DEF AgreeFor
  <2>4. IdBits - c = IdBits - d
    BY <1>4, <2>3, AgreeOnce
  <2> QED BY <1>1, <1>4, <2>1, <2>2, <2>4
<1>7. ASSUME x # y, x # z, d = DistanceOf(x, z) PROVE e < d
  <2>1. d # 0 /\ AgreeFor(x, z, IdBits - d)
    BY <1>5, <1>7, DistanceTells
  <2>2. PICK l : l = IdBits - d
    OBVIOUS
  <2>3. l \in 0 .. IdBits /\ l < IdBits
    BY <1>1, <1>4, <2>1, <2>2
  <2>4. \A i \in 1 .. l : y[i] = z[i]
    BY <1>4, <2>1, <2>2 DEF AgreeFor
  <2>5. y[l + 1] = z[l + 1]
    <3>1. l + 1 \in 1 .. IdBits
      BY <1>1, <2>3
    <3>2. x[l + 1] \in {0, 1} /\ y[l + 1] \in {0, 1} /\ z[l + 1] \in {0, 1}
      BY <3>1 DEF Bits
    <3>3. x[l + 1] # y[l + 1] /\ x[l + 1] # z[l + 1]
      BY <1>4, <2>1, <2>2, <2>3 DEF AgreeFor
    <3> QED BY <3>2, <3>3
  <2>6. ~(IdBits - e <= l)
    <3> SUFFICES ASSUME IdBits - e <= l PROVE FALSE
      OBVIOUS
    <3>1. IdBits - e < IdBits /\ (IdBits - e) + 1 \in 1 .. l + 1
      BY <1>1, <1>4, <2>3
    <3>2. y[(IdBits - e) + 1] # z[(IdBits - e) + 1]
      BY <1>4, <3>1 DEF AgreeFor
    <3>3. \A i \in 1 .. l + 1 : y[i] = z[i]
      BY <2>3, <2>4, <2>5
    <3> QED BY <3>1, <3>2, <3>3
  <2> QED BY <1>1, <1>4, <2>2, <2>3, <2>6
<1> QED BY <1>2, <1>3, <1>5, <1>6, <1>7

\* The prefix is written over exactly the bits that are read back, and r is not.
LEMMA MadeIdsFit ==
    ASSUME NEW x \in Bits, NEW ip, NEW r \in {0, 1}, <<ip, r>> \in DOMAIN Crc
    PROVE  IsValidForIp(FromIpv4AndR(x, ip, r), ip)
<1>1. IdBits \in Nat /\ PrefixBits \in Nat /\ PrefixBits < IdBits /\ PrefixBits > 0
  BY IdsAssumption
<1>2. PICK made : made = FromIpv4AndR(x, ip, r)
  OBVIOUS
<1>3. PICK prefix : prefix = Crc[<<ip, r>>]
  OBVIOUS
<1>4. prefix \in [1 .. PrefixBits -> {0, 1}]
  BY <1>3, IdsAssumption
<1>5. made = [i \in 1 .. IdBits |->
                IF i <= PrefixBits THEN prefix[i] ELSE IF i = IdBits THEN r ELSE x[i]]
  BY <1>2, <1>3 DEF FromIpv4AndR
<1>6. made \in [1 .. IdBits -> {0, 1}]
  BY <1>1, <1>4, <1>5 DEF Bits
<1>7. made[IdBits] = r /\ \A i \in 1 .. PrefixBits : made[i] = prefix[i]
  BY <1>1, <1>5
<1>8. made \in Seq({0, 1}) /\ Len(made) = IdBits
  <2>1. made \in Seq({0, 1})
    BY <1>1, <1>6, SeqDef
  <2>2. DOMAIN made = 1 .. IdBits /\ DOMAIN made = 1 .. Len(made) /\ Len(made) \in Nat
    BY <1>6, <2>1, LenProperties
  <2> QED BY <1>1, <2>1, <2>2
<1>9. First21(made) = prefix
  <2>1. PICK first : first = SubSeq(made, 1, PrefixBits)
    OBVIOUS
  <2>2. /\ first \in Seq({0, 1}) /\ Len(first) = PrefixBits
        /\ \A i \in 1 .. PrefixBits : first[i] = made[i]
    BY <1>1, <1>8, <2>1, SubSeqProperties
  <2>3. first \in [1 .. PrefixBits -> {0, 1}]
    BY <2>2, LenProperties, ElementOfSeq
  <2> QED BY <1>4, <1>7, <2>1, <2>2, <2>3 DEF First21
<1> QED BY <1>2, <1>3, <1>7, <1>9 DEF IsValidForIp, R

\* id.rs: an id that from_ipv4 makes for an ip is valid for that ip, whatever its random
\* bits, and Id::distance is zero for one id only, the same either way, and smaller between two
\* nodes of one bucket than between them and the node itself: for ids of any number of bits, and any CRC.
THEOREM IdsAreSound == IdsFit
<1>1. MadeIdsAreValid(Ip)
  <2>1. \A ip \in Ip, r \in {0, 1} : <<ip, r>> \in DOMAIN Crc
    BY TablesOfIds
  <2> QED BY <2>1, MadeIdsFit DEF MadeIdsAreValid
<1> QED BY <1>1, DistanceFits DEF IdsFit
=============================================================================
