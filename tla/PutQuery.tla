------------------------------ MODULE PutQuery ------------------------------
(***************************************************************************)
(* One store operation of the DHT node (rust/mainline, PutQuery): the      *)
(* record it keeps and what each call does to that record.                 *)
(***************************************************************************)
EXTENDS Integers, FiniteSets

CONSTANTS
    Node,       \* the remote nodes
    Signature,  \* the signatures of mutable items: one per signed item
    OtherCode   \* the error codes of answers other than 301 and 302

PutKind == {"mutable", "immutable", "announce"}

\* KRPC error codes of answers to a put: CAS mismatch, seq too low, any other.
ErrorCode == {"301", "302"} \cup OtherCode

\* What a put can end with.
PutError == {"no_closest_nodes", "timeout", "cas_failed", "not_most_recent",
             "conflict_risk"}

\* A request to store something; seq, sig and cas only count for mutable items.
\* hasCas tells whether the optional cas field is set.
PutRequest ==
    [kind : PutKind, sig : Signature, seq : Int, hasCas : BOOLEAN, cas : Int,
     extra : SUBSET Node]

\* A request that was sent goes to one of the closest nodes or to one of the
\* extra nodes of the caller: the two lists are chained, so a node that is in
\* both is asked twice.
Sends == Node \X {"closest", "extra"}

(***************************************************************************)
(* "live" is FALSE when no put for the target is in the put_queries map.   *)
(* "sent" is inflight_requests (never shortened by the code), "flying" the *)
(* part of it the socket still waits for, "tally" and "top" the errors     *)
(* vector: the count of each code and the code that is first in it.        *)
(***************************************************************************)
Put(request) ==
    [live : BOOLEAN, request : request, sent : SUBSET Sends,
     flying : SUBSET Sends, storedAt : Nat, tally : [ErrorCode -> Nat],
     top : ErrorCode \cup {"none"}]

NewPut(request) ==
    [live |-> TRUE, request |-> request, sent |-> {}, flying |-> {},
     storedAt |-> 0, tally |-> [e \in ErrorCode |-> 0], top |-> "none"]

Started(put) == put.sent # {}

\* start: only nodes that have a token are sent the value.
StartPut(put, tokens) ==
    LET sends == (tokens \X {"closest"}) \cup (put.request.extra \X {"extra"})
    IN  [put EXCEPT !.sent = sends, !.flying = sends]

-----------------------------------------------------------------------------
(* Answers (Rpc::handle_response on a transaction of this put). *)

Unanswered(put, send) == [put EXCEPT !.flying = @ \ {send}]

Success(put) == [put EXCEPT !.storedAt = @ + 1]

\* error: one more of this code; the entry moves up past the entries with a
\* strictly smaller count, so the first entry only changes when overtaken.
Failure(put, code) ==
    LET n == put.tally[code] + 1
    IN  [put EXCEPT
           !.tally[code] = n,
           !.top = IF @ = "none" \/ n > put.tally[@] THEN code ELSE @]

-----------------------------------------------------------------------------
(* The verdict of one tick: "pending", "ok" or an error. *)

\* most_common_error only knows the two concurrency codes.
MostCommonError(put) ==
    CASE put.top = "301" -> "cas_failed"
      [] put.top = "302" -> "not_most_recent"
      [] OTHER           -> "none"

\* Half the requests and one more were refused with the same 3xx code.
MajorityRejected(put) ==
    /\ put.request.kind = "mutable"
    /\ MostCommonError(put) # "none"
    /\ put.tally[put.top] >= (Cardinality(put.sent) \div 2) + 1

\* Mutant: acknowledgements are not counted, no answer is a good answer.
DoneVerdictTrusting(put) ==
    IF MostCommonError(put) # "none" THEN MostCommonError(put) ELSE "ok"

\* All requests were answered or timed out.  "timeout" is also the verdict when
\* nodes did answer, with any code but 301 and 302 in the lead.
DoneVerdict(put) ==
    IF put.storedAt > 0 THEN "ok"
    ELSE IF MostCommonError(put) # "none" THEN MostCommonError(put)
    ELSE "timeout"

TickVerdict(put) ==
    IF ~Started(put) THEN "pending"
    ELSE IF put.flying = {} THEN DoneVerdict(put)
    ELSE IF MajorityRejected(put) THEN MostCommonError(put)
    ELSE "pending"

-----------------------------------------------------------------------------
(* Rpc::put on a target whose mutable put is in flight. *)

\* "join": the same signed item, the put in flight is enough.  "replace": the
\* caller names the seq in flight in its cas.  Otherwise an error.
Admission(inflight, request) ==
    IF ~(inflight.live /\ request.kind = "mutable"
                       /\ inflight.request.kind = "mutable") THEN "new"
    ELSE IF request.sig = inflight.request.sig THEN "join"
    ELSE IF request.seq < inflight.request.seq THEN "not_most_recent"
    ELSE IF ~request.hasCas THEN "conflict_risk"
    ELSE IF request.cas = inflight.request.seq THEN "replace"
    ELSE "cas_failed"
=============================================================================
