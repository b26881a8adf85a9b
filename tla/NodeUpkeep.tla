----------------------------- MODULE NodeUpkeep -----------------------------
(***************************************************************************)
(* How a DHT node keeps itself going (rust/mainline/src/rpc.rs): it fills, *)
(* pings and purges its routing table, learns its public address from the  *)
(* votes of the nodes that answer its lookups, confirms it with a ping to  *)
(* itself, takes an id that is secure for it, and becomes a server.        *)
(*                                                                         *)
(* Lookups are those of DhtActor and IterativeQuery, reduced to what the   *)
(* node learns from them: any node may answer a lookup in flight, and a    *)
(* lookup ends at any time.  Time passes in units of PingInterval's.       *)
(***************************************************************************)
EXTENDS RoutingTable, QueryCache, FiniteSets

CONSTANTS
    Peer,           \* the other nodes, [id, address]
    OwnId,          \* the ids the node may have
    FirstIds,       \* those it may start with
    Address,        \* addresses it may be told it has
    PublicAt,       \* those under which a packet to it arrives
    Wanted,         \* targets of the user's lookups
    Entry,          \* what may be cached of a lookup, without its kind
    MaxLookups,     \* bound: lookups when the user starts another one
    MaxVotes,       \* bound: votes of one lookup
    MaxCount,       \* bound: the counter of cached lookups
    PingInterval, RefreshInterval

NoAddress == [ip |-> "none", port |-> 0]

ASSUME UpkeepAssumption ==
    /\ PublicAt \subseteq Address /\ NoAddress \notin Address
    /\ OwnId \subseteq Id /\ FirstIds \subseteq OwnId
    /\ \A p \in Peer : p.id \in Id \ OwnId /\ p.address.ip \in Ip
    /\ \A a \in Address : a.ip \in Ip /\ \E own \in OwnId : a.ip \in ValidFor[own]
    /\ {PingInterval, RefreshInterval} \subseteq Nat \ {0}
    /\ IsFiniteSet(Address) /\ MaxVotes \in Nat
    /\ \A e \in Entry : {e.size, e.responders, e.subnets} \subseteq Int

VARIABLES
    bootstrap,      \* whether it was given nodes to start from
    id, table,      \* routing_table
    sinceRefresh, sincePing,    \* last_table_refresh, last_table_ping
    lookups,        \* iterative_queries: per target, the kind and the votes
    cache,          \* cached_iterative_queries and its sums
    public, firewalled, serverMode,
    pings           \* its pings to itself that reach it, sooner or later, once or twice

vars == <<bootstrap, id, table, sinceRefresh, sincePing, lookups, cache, public,
          firewalled, serverMode, pings>>

Init ==
    /\ bootstrap \in BOOLEAN
    /\ id \in FirstIds
    /\ table = EmptyTable
    /\ sinceRefresh = 0 /\ sincePing = 0
    /\ lookups = <<>>
    /\ cache = NewCache
    /\ public = NoAddress /\ firewalled = TRUE /\ serverMode = FALSE
    /\ pings = {}

-----------------------------------------------------------------------------
(* Lookups.                                                                *)

LookingUpUncounted(target, find) ==
    IF target \in DOMAIN lookups THEN lookups
    ELSE [t \in DOMAIN lookups \cup {target} |->
            IF t = target THEN [find |-> find, votes |-> <<>>] ELSE lookups[t]]

\* Rpc::get: a target has one lookup at a time.
LookingUp(target, find) ==
    IF target \in DOMAIN lookups THEN lookups
    ELSE [t \in DOMAIN lookups \cup {target} |->
            IF t = target THEN [find |-> find, votes |-> [a \in Address |-> 0]]
            ELSE lookups[t]]

Get(target) ==
    /\ target \notin DOMAIN lookups /\ Cardinality(DOMAIN lookups) < MaxLookups
    /\ lookups' = LookingUp(target, FALSE)
    /\ UNCHANGED <<bootstrap, id, table, sinceRefresh, sincePing, cache, public,
                   firewalled, serverMode, pings>>

\* A node answers, with the address it sees or none.  One that answers with a value
\* is not added to the table.
Voted(target, address) ==
    IF address = NoAddress THEN lookups
    ELSE [lookups EXCEPT ![target].votes[address] = @ + 1]

Votes(target) == FoldFunction(+, 0, lookups[target].votes)

Answer(target, peer, address, valued) ==
    /\ target \in DOMAIN lookups
    /\ address # NoAddress => Votes(target) < MaxVotes
    /\ valued => ~lookups[target].find
    /\ lookups' = Voted(target, address)
    /\ table' = IF valued THEN table ELSE Added(table, id, Fresh(peer.id, peer.address))
    /\ UNCHANGED <<bootstrap, id, sinceRefresh, sincePing, cache, public, firewalled,
                   serverMode, pings>>

\* best_address: one with most votes.
BestAddresses(target) ==
    LET votes == lookups[target].votes IN
    IF Votes(target) = 0 THEN {NoAddress}
    ELSE {a \in Address : \A other \in Address : votes[other] <= votes[a]}

ProposedAtOnce(address) ==
    /\ public' = IF address = NoAddress THEN public ELSE address
    /\ pings' = IF address \in {NoAddress, public} THEN pings
              ELSE pings \cup ({address} \cap PublicAt)
    /\ UNCHANGED firewalled

ProposedUnpinged(address) ==
    /\ public' = IF address = NoAddress THEN public ELSE address
    /\ firewalled' = (firewalled \/ address \notin {NoAddress, public})
    /\ UNCHANGED pings

\* update_address_votes_from_iterative_query: another address has to be confirmed.
Proposed(address) ==
    /\ public' = IF address = NoAddress THEN public ELSE address
    /\ IF address \in {NoAddress, public}
       THEN UNCHANGED <<firewalled, pings>>
       ELSE firewalled' = TRUE /\ pings' = pings \cup ({address} \cap PublicAt)

Kept(entry, target) ==
    [size |-> entry.size, responders |-> entry.responders, subnets |-> entry.subnets,
     find |-> lookups[target].find]

\* A lookup ends: its votes count, and it is cached unless nobody was found.
EndLookup(target) ==
    /\ target \in DOMAIN lookups
    /\ lookups' = Restrict(lookups, DOMAIN lookups \ {target})
    /\ \E address \in BestAddresses(target) : Proposed(address)
    /\ \/ cache' = Popped(cache)
       \/ /\ cache.count < MaxCount
          /\ \E entry \in Entry : cache' = Cached(cache, target, Kept(entry, target))
    /\ UNCHANGED <<bootstrap, id, table, sinceRefresh, sincePing, serverMode>>

-----------------------------------------------------------------------------
(* Requests of others.  The server's answers are DhtServer's.              *)

\* A node without bootstrap nodes takes in those that look for one.
FindNodeArrives(target, from) ==
    /\ ~bootstrap
    /\ table' = Added(table, id, Fresh(target, from))
    /\ UNCHANGED <<bootstrap, id, sinceRefresh, sincePing, lookups, cache, public,
                   firewalled, serverMode, pings>>

\* A ping of its own arrives, from the address it was sent to: the address is public.
\* A node whose id is not secure for it starts over with one that is.
OwnPingArrives(address) ==
    /\ address \in pings /\ address = public
    /\ firewalled' = FALSE
    /\ IF public.ip \in ValidFor[id] THEN UNCHANGED <<id, table, lookups>>
       ELSE \E new \in OwnId :
              /\ public.ip \in ValidFor[new]
              /\ id' = new
              /\ lookups' = LookingUp(new, TRUE)
              /\ table' = EmptyTable
    /\ UNCHANGED <<bootstrap, sinceRefresh, sincePing, cache, public, serverMode, pings>>

-----------------------------------------------------------------------------
(* Maintenance.                                                            *)

RefreshIsDue == sinceRefresh >= RefreshInterval
PingIsDue == sincePing >= PingInterval
ShouldPopulate == IsEmpty(table) \/ RefreshIsDue

\* populate: without bootstrap nodes only the timer is reset.
Populated == IF bootstrap THEN LookingUp(id, TRUE) ELSE lookups

\* ping_and_purge: the answers to these pings belong to no lookup, and change nothing.
Purged(nodes) == Without(nodes, {n.id : n \in {m \in Nodes(nodes) : IsStale(m)}})

SwitchedAnyway == RefreshIsDue
Switched == RefreshIsDue /\ ~firewalled

Periodically ==
    /\ serverMode' = (serverMode \/ Switched)
    /\ table' = IF PingIsDue THEN Purged(table) ELSE table
    /\ sincePing' = IF PingIsDue THEN 0 ELSE sincePing
    /\ lookups' = IF ShouldPopulate THEN Populated ELSE lookups
    /\ sinceRefresh' = IF ShouldPopulate THEN 0 ELSE sinceRefresh
    /\ UNCHANGED <<bootstrap, id, cache, public, firewalled, pings>>

\* It runs some twenty times a second: nothing is left to do when a unit has passed.
Maintain == Periodically /\ vars' # vars

Settled ==
    /\ ~RefreshIsDue /\ ~PingIsDue
    /\ IsEmpty(table) => sinceRefresh = 0 /\ (bootstrap => id \in DOMAIN lookups)

Tick ==
    /\ Settled
    /\ table' = Aged(table)
    /\ sinceRefresh' = sinceRefresh + 1 /\ sincePing' = sincePing + 1
    /\ UNCHANGED <<bootstrap, id, lookups, cache, public, firewalled, serverMode, pings>>

-----------------------------------------------------------------------------
Target == OwnId \cup Wanted

Next ==
    \/ Tick \/ Maintain
    \/ \E target \in Wanted : Get(target)
    \/ \E target \in Target :
         \/ EndLookup(target)
         \/ \E peer \in Peer, address \in Address \cup {NoAddress}, valued \in BOOLEAN :
              Answer(target, peer, address, valued)
    \/ \E peer \in Peer : FindNodeArrives(peer.id, peer.address)
    \/ \E address \in Address : OwnPingArrives(address)

\* The actor thread runs, lookups end, a node is found now and then when the node
\* looks for itself, and its pings to itself arrive where they can.
Fairness ==
    /\ WF_vars(Tick) /\ WF_vars(Maintain)
    /\ \A target \in Target : WF_vars(EndLookup(target))
    /\ SF_vars(\E peer \in Peer : Answer(id, peer, NoAddress, FALSE))
    /\ \A address \in Address : WF_vars(OwnPingArrives(address))

Spec == Init /\ [][Next]_vars
FairSpec == Spec /\ Fairness

-----------------------------------------------------------------------------
(* Properties.                                                             *)

Age == 0 .. StaleTime + 1

TypeOK ==
    /\ bootstrap \in BOOLEAN /\ firewalled \in BOOLEAN /\ serverMode \in BOOLEAN
    /\ id \in OwnId
    /\ public \in Address \cup {NoAddress} /\ pings \subseteq PublicAt
    /\ \A n \in Nodes(table) : n.id \in Id /\ n.age \in Age /\ n.address.ip \in Ip
    /\ sinceRefresh \in 0 .. RefreshInterval /\ sincePing \in 0 .. PingInterval
    /\ DOMAIN lookups \subseteq Target
    /\ \A t \in DOMAIN lookups :
         lookups[t].find \in BOOLEAN /\ lookups[t].votes \in [Address -> 0 .. MaxVotes]

\* routing_table.rs, already_exists in node.rs: whoever answers, from whatever address,
\* while nodes age, are purged and replaced, and the own id changes.
TableIsSound == Sound(table, id)

\* rpc.rs, handle_request: a node that is not firewalled has been reached at the very
\* address it holds for public, and its id is secure for it, although votes come and
\* go while its pings are on the way.
ConfirmedMeansPublic ==
    ~firewalled => public \in PublicAt /\ public.ip \in ValidFor[id]

\* rpc.rs, cache_iterative_query: what is cached, replaced and dropped leaves the sums behind
\* the estimates exactly at what they sum up, and the counter of the responders at the cached
\* lookups and every find_node ever cached, which the comment of is_find_node says it leaves
\* out.
StatsMatchCache == Matches(cache)

\* "Nodes that are firewalled, or behind NAT, should not enable server mode"
\* (rpc.rs, try_switching_to_server_mode).
ServesWhenPublic == [][serverMode' /\ ~serverMode => public \in PublicAt]_vars

\* README, Adaptive mode: a node that is reached at its public address becomes a
\* server, once the votes agree on it: the refresh that switches it comes, although
\* an empty table restarts its timer and a new id empties the table.
BecomesServer ==
    \A address \in PublicAt : bootstrap /\ <>[](public = address) => <>serverMode
=============================================================================
