--------------------------- MODULE IterativeQuery ---------------------------
(***************************************************************************)
(* One iterative lookup of the DHT node (rust/mainline, IterativeQuery):   *)
(* the record it keeps and what each call does to that record.  The state  *)
(* machines that run lookups (DhtActor, LookupSearch) apply these          *)
(* operators; nothing here is a variable.                                  *)
(*                                                                         *)
(* Nodes are told apart by their rank, which stands for the order that     *)
(* ClosestNodes keeps (secure ids first, then XOR distance to the target). *)
(* A visit sends two datagrams to one address, the request and a ping, and *)
(* the lookup waits for both: a request is <<node, "query">> or            *)
(* <<node, "ping">>.                                                       *)
(***************************************************************************)
EXTENDS Naturals, FiniteSets

CONSTANTS
    Node,       \* the remote nodes, one address each
    Bootstrap,  \* the configured bootstrap nodes
    K,          \* MAX_BUCKET_SIZE_K: how many of the closest are visited
    Rank        \* Rank[n]: the place of n in the order of ClosestNodes

ASSUME BootstrapAssumption == Bootstrap \subseteq Node
ASSUME KAssumption == K \in Nat \ {0}
ASSUME RankAssumption == Rank \in [Node -> Nat]

LookupKind == {"find_node", "get_peers", "get_value"}

Requests == Node \X {"query", "ping"}

\* What a value may be: peers, or an item -- immutable or mutable, whichever the
\* target is an id of.
ValueType == {"peers", "value"}

\* An accepted value: the request it came in answer to, and its type, which need
\* not be the one that was asked for.
Values == Requests \X ValueType

(***************************************************************************)
(* "kind" is "none" when the lookup is not in the iterative_queries map.   *)
(* "flying" are the requests of this lookup that the socket still counts   *)
(* as in flight; the requests ever sent are visited \X {"query","ping"}.   *)
(* "tokened" are the candidates that carry a token of an earlier lookup.   *)
(***************************************************************************)
Lookup ==
    [kind       : LookupKind \cup {"none"},
     closest    : SUBSET Node,
     tokened    : SUBSET Node,
     visited    : SUBSET Node,
     flying     : SUBSET Requests,
     responders : SUBSET Node,
     values     : SUBSET Values]

NoLookup ==
    [kind |-> "none", closest |-> {}, tokened |-> {}, visited |-> {},
     flying |-> {}, responders |-> {}, values |-> {}]

NewLookup(kind) == [NoLookup EXCEPT !.kind = kind]

-----------------------------------------------------------------------------

\* The nodes of S that fewer than k members of S precede.
Nearest(k, S) ==
    {n \in S : Cardinality({m \in S : Rank[m] < Rank[n]}) < k}

\* visit, for every address of the set: two requests, and never again.
Visit(lookup, nodes) ==
    [lookup EXCEPT !.visited = @ \cup nodes,
                   !.flying  = @ \cup (nodes \X {"query", "ping"})]

\* visit_closest: the first K candidates that were not visited yet.
VisitClosest(lookup) ==
    Visit(lookup, Nearest(K, lookup.closest) \ lookup.visited)

AddCandidates(lookup, nodes) == [lookup EXCEPT !.closest = @ \cup nodes]

\* Rpc::get on a target without a lookup: bootstrap nodes are visited when the
\* table offers no candidate, or fewer than there are bootstrap nodes.
StartLookup(kind, seeds, cachedNodes, cachedTokens) ==
    LET few   == \/ seeds = {}
                 \/ Cardinality(seeds) < Cardinality(Bootstrap)
        asked == IF few THEN Visit(NewLookup(kind), Bootstrap)
                        ELSE NewLookup(kind)
        full  == AddCandidates(asked, seeds \cup cachedNodes)
    IN  VisitClosest([full EXCEPT !.tokened = cachedTokens \ seeds])

\* Mutant: a lookup that found nobody goes on.
LookupDoneHopeful(lookup) == lookup.flying = {} /\ lookup.closest # {}

\* The lookup is done when the socket counts none of its requests in flight.
LookupDone(lookup) == lookup.flying = {}

-----------------------------------------------------------------------------
(* What one answer does to the lookup it belongs to (Rpc::handle_response). *)

\* The socket forgets the request, whatever comes of the message.
Settle(lookup, request) == [lookup EXCEPT !.flying = @ \ {request}]

\* What an answer holds is never compared with the request it answers, not even
\* with the ping of a visit: it may name closer nodes, it may carry a token, and
\* it may hold values that passed the checks, of the types in "types".
Answered(lookup, request, nodes, hasToken, types) ==
    LET settled == Settle(lookup, request)
    IN  [settled EXCEPT
           !.closest    = @ \cup nodes,
           !.responders = IF hasToken THEN @ \cup {request[1]} ELSE @,
           !.values     = @ \cup ({request} \X types)]

-----------------------------------------------------------------------------
(* What a finished lookup hands over (Rpc::tick_get_queries). *)

\* take_until_secure keeps a closest-first prefix of the responders, at least
\* K long unless there are fewer; where it ends depends on the size estimate of
\* the DHT and on the subnets seen, so any cut is possible.
Cuts == K .. IF Cardinality(Node) > K THEN Cardinality(Node) ELSE K

\* For find_node the K closest claims, otherwise responders, all with a token.
LookupResult(lookup, cut) ==
    IF lookup.kind = "find_node"
      THEN [nodes  |-> Nearest(K, lookup.closest),
            tokens |-> Nearest(K, lookup.closest) \cap lookup.tokened]
      ELSE [nodes  |-> Nearest(cut, lookup.responders),
            tokens |-> Nearest(cut, lookup.responders)]
=============================================================================
