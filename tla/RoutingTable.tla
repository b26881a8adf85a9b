---------------------------- MODULE RoutingTable ----------------------------
(***************************************************************************)
(* The routing table of a DHT node (rust/mainline/src/common/              *)
(* routing_table.rs, node.rs): buckets of nodes by their distance from the *)
(* own id, each in the order its nodes were added, oldest first.           *)
(*                                                                         *)
(* A node is [id, address, age], the age counting from Node::new; an       *)
(* address is [ip, port].  Hashes and XOR are the constants below.         *)
(***************************************************************************)
EXTENDS Naturals, SequencesExt, Lists

CONSTANTS
    Id, Ip,
    Distance,       \* [Id \X Id -> Nat]: id.distance, 0 to itself
    ValidFor,       \* [Id -> SUBSET Ip]: is_valid_for_ip
    Prefix,         \* of an id: first_21_bits
    K,              \* MAX_BUCKET_SIZE_K
    StaleTime       \* STALE_TIME

ASSUME TableAssumption ==
    /\ Distance \in [Id \X Id -> Nat]
    /\ \A x, y \in Id : Distance[<<x, y>>] = 0 <=> x = y
    /\ ValidFor \in [Id -> SUBSET Ip]
    /\ K \in Nat \ {0} /\ StaleTime \in Nat

Buckets == {Distance[<<x, y>>] : x, y \in Id} \ {0}
EmptyTable == [d \in Buckets |-> <<>>]

\* Node::new.
Fresh(id, address) == [id |-> id, address |-> address, age |-> 0]

IsSecure(node) == node.address.ip \in ValidFor[node.id]
SameIp(one, other) == one.address.ip = other.address.ip
IsStale(node) == node.age > StaleTime

Nodes(table) == UNION {ToSet(table[d]) : d \in Buckets}
IsEmpty(table) == \A d \in Buckets : table[d] = <<>>

\* One node per ip, or several secure ones that differ in the first 21 bits.
AlreadyExistsById(node, nodes) == \E existing \in nodes : existing.id = node.id

AlreadyExists(node, nodes) ==
    \E existing \in nodes :
        /\ SameIp(node, existing)
        /\ ~IsSecure(existing) \/ Prefix[existing.id] = Prefix[node.id]

\* KBucket::add.
Updates(incoming, existing) ==
    IsSecure(incoming) \/ (~IsSecure(existing) /\ SameIp(existing, incoming))

BucketAdd(bucket, node) ==
    LET same == SelectInSeq(bucket, LAMBDA n : n.id = node.id) IN
    IF same > 0
    THEN IF Updates(node, bucket[same]) THEN Append(RemoveAt(bucket, same), node) ELSE bucket
    ELSE IF Len(bucket) < K THEN Append(bucket, node)
    ELSE IF IsStale(bucket[1]) THEN Append(Tail(bucket), node)
    ELSE bucket

\* RoutingTable::add, seen from the node with the id own.
Added(table, own, node) ==
    LET distance == Distance[<<own, node.id>>] IN
    IF distance = 0 \/ AlreadyExists(node, Nodes(table)) THEN table
    ELSE [table EXCEPT ![distance] = BucketAdd(@, node)]

\* RoutingTable::remove, for all of ids.
Without(table, ids) ==
    [d \in Buckets |-> Among(table[d], {n \in ToSet(table[d]) : n.id \notin ids})]

\* Time passes: an age is told apart up to the first that is stale.
Aged(table) ==
    [d \in Buckets |-> [i \in DOMAIN table[d] |->
        [table[d][i] EXCEPT !.age = IF IsStale(table[d][i]) THEN @ ELSE @ + 1]]]

-----------------------------------------------------------------------------
\* What the table keeps, for the node with the id own: every node in its bucket, none
\* twice, never the node itself, at most K in a bucket; "only One non-secure node or
\* Eight secure nodes from the same IP" (node.rs, already_exists): of the nodes of one
\* ip at most one is not secure, and the secure ones differ in the bits of the ip's.
Sound(table, own) ==
    /\ \A d \in Buckets :
         /\ Len(table[d]) <= K
         /\ \A i, j \in DOMAIN table[d] :
              /\ Distance[<<own, table[d][i].id>>] = d
              /\ table[d][i].id = table[d][j].id => i = j
    /\ \A n, m \in Nodes(table) :
         n # m /\ SameIp(n, m) =>
            /\ IsSecure(n) \/ IsSecure(m)
            /\ IsSecure(n) /\ IsSecure(m) => Prefix[n.id] # Prefix[m.id]
=============================================================================
