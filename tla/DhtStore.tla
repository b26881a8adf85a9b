------------------------------ MODULE DhtStore ------------------------------
(***************************************************************************)
(* The actor of DhtActor keeps the promise of StoreService.  The refinement *)
(* mapping reads the answers to a put from its query while it runs, and    *)
(* its fate from the report of the tick once it is done.                   *)
(***************************************************************************)
EXTENDS DhtActor

Fate(t) == IF donePuts[t] = "pending" THEN "open" ELSE donePuts[t]

\* success and error of the query count what came.
Tallied(put) ==
    {a \in {"stored", "cas_failed", "not_most_recent"} :
        \/ a = "stored" /\ put.storedAt > 0
        \/ a = "cas_failed" /\ put.tally["301"] > 0
        \/ a = "not_most_recent" /\ put.tally["302"] > 0}

Heard(t) ==
    IF puts[t].live /\ donePuts[t] = "pending" THEN Tallied(puts[t]) ELSE {}

Told(c) == IF calls[c].op = "put" THEN replies[c].what ELSE "none"

Store == INSTANCE StoreService WITH
            waiting <- putSenders,
            heard   <- [t \in Target |-> Heard(t)],
            fate    <- [t \in Target |-> Fate(t)],
            outcome <- [c \in Client |-> Told(c)]

\* Every put at a target shares one fate, which the answers of the nodes account
\* for -- Ok needs a node that stored, a concurrency error one that refused with
\* it, "no nodes" that there was no answer, "timeout" that nobody stored -- and
\* all who wait for it learn it together, once: the loop of the actor implements
\* the store service.
StorePromise == Store!Spec

\* put_query.rs, PutQueryError::Timeout: "PutQuery timed out with no responses
\* neither success or errors".  A put that ends with it has heard of nobody.
TimeoutMeansSilence ==
    \A t \in Target :
        puts[t].live /\ donePuts[t] = "timeout" =>
            puts[t].storedAt = 0 /\ \A e \in ErrorCode : puts[t].tally[e] = 0
=============================================================================
