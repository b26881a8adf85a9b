-------------------------------- MODULE Lru ---------------------------------
(***************************************************************************)
(* The LruCache of the lru crate, as the code uses it: what is kept for    *)
(* each key, and the keys in the order of their last use, latest first.    *)
(***************************************************************************)
EXTENDS Naturals, SequencesExt

EmptyLru == [of |-> <<>>, order |-> <<>>]

Keys(lru) == DOMAIN lru.of
Holds(lru, key) == key \in Keys(lru)

\* The value of key, without counting as a use (peek, contains, iter).
Peek(lru, key) == lru.of[key]

ToFront(order, key) == <<key>> \o RemoveFirst(order, key)

\* get, get_mut: a use puts the key in front.
Used(lru, key) ==
    IF Holds(lru, key) THEN [of |-> lru.of, order |-> ToFront(lru.order, key)] ELSE lru

\* put: the key comes in front, and if it is new to a full cache the key used
\* longest ago makes room for it.
Stored(lru, key, value, cap) ==
    LET order == ToFront(lru.order, key)
        kept  == IF Len(order) > cap THEN Front(order) ELSE order
    IN  [of |-> [k \in (Keys(lru) \cup {key}) \cap ToSet(kept) |->
                    IF k = key THEN value ELSE lru.of[k]],
         order |-> kept]
=============================================================================
