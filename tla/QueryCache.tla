----------------------------- MODULE QueryCache -----------------------------
(***************************************************************************)
(* What an Rpc keeps of the lookups that ended: the last of each target in *)
(* a bounded cache, and running sums over the cache from which it tells    *)
(* the size of the DHT (rust/mainline/src/rpc.rs, cache_iterative_query).  *)
(*                                                                         *)
(* An entry is [size, responders, subnets, find]: the two estimates of the *)
(* size of the DHT, the number of subnets, whether it was a find_node.     *)
(* The field finds of the cache is history: the find_nodes ever cached.    *)
(***************************************************************************)
EXTENDS Integers, Lru, Functions

CONSTANTS
    CacheCap,           \* MAX_CACHED_ITERATIVE_QUERIES
    FirstResponders,    \* the sums a cold start begins with
    FirstSubnets

ASSUME CacheAssumption ==
    CacheCap \in Nat \ {0} /\ FirstResponders \in Int /\ FirstSubnets \in Int

NewCache ==
    [lru |-> EmptyLru, sizes |-> 0, responders |-> FirstResponders,
     subnets |-> FirstSubnets, count |-> 0, finds |-> 0]

Size(cache) == Len(cache.lru.order)

\* decrement_cached_iterative_query_stats.
Less(cache, entry) ==
    [cache EXCEPT !.sizes = @ - entry.size, !.responders = @ - entry.responders,
                  !.subnets = @ - entry.subnets,
                  !.count = IF entry.find THEN @ ELSE @ - 1]

LessOf(cache, target) ==
    IF Holds(cache.lru, target) THEN Less(cache, Peek(cache.lru, target)) ELSE cache

More(cache, entry) ==
    [cache EXCEPT !.sizes = @ + entry.size, !.responders = @ + entry.responders,
                  !.subnets = @ + entry.subnets, !.count = @ + 1,
                  !.finds = IF entry.find THEN @ + 1 ELSE @]

\* A full cache drops the entry that was used longest ago, also when target has one.
Popped(cache) ==
    IF Size(cache) < CacheCap THEN cache
    ELSE LET oldest == Last(cache.lru.order) IN
         [LessOf(cache, oldest) EXCEPT
            !.lru = [of |-> Restrict(@.of, DOMAIN @.of \ {oldest}), order |-> Front(@.order)]]

\* ... and without anything closest ("clearly offline") the lookup is not kept.
CachedForgetful(cache, target, entry) ==
    LET room == Popped(cache) IN
    [More(room, entry) EXCEPT !.lru = Stored(@, target, entry, CacheCap)]

Cached(cache, target, entry) ==
    LET room == Popped(cache) IN
    [More(LessOf(room, target), entry) EXCEPT !.lru = Stored(@, target, entry, CacheCap)]

-----------------------------------------------------------------------------
SumOf(cache, of(_)) ==
    FoldFunction(+, 0, [target \in Keys(cache.lru) |-> of(Peek(cache.lru, target))])

\* The sums are those over the cache.  The counter is incremented for every lookup and
\* decremented for all but the find_nodes: it counts the others in the cache and, although
\* "they shouldn't be counted", every find_node that was ever cached.
Matches(cache) ==
    /\ Size(cache) <= CacheCap
    /\ cache.sizes = SumOf(cache, LAMBDA e : e.size)
    /\ cache.responders = FirstResponders + SumOf(cache, LAMBDA e : e.responders)
    /\ cache.subnets = FirstSubnets + SumOf(cache, LAMBDA e : e.subnets)
    /\ cache.count = SumOf(cache, LAMBDA e : IF e.find THEN 0 ELSE 1) + cache.finds
=============================================================================
