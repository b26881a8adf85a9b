--------------------------- MODULE DhtActorProofs ---------------------------
(***************************************************************************)
(* What holds of the DHT actor for every set of nodes, targets, clients    *)
(* and calls.  First the operators on lookups and puts are shown to stay   *)
(* in their types, then the type invariant, then that a waiting caller     *)
(* always has a query that will answer it, and then that the actor         *)
(* implements the store service: for that it is needed which call each     *)
(* waiting client is in, and where the record of a put may stand while its *)
(* report is on the way.  Last, which calls leave no put waiting.          *)
(***************************************************************************)
EXTENDS DhtStore, SequenceTheorems, TLAPS

-----------------------------------------------------------------------------
(* Operators on lookups. *)

\* What a visit of candidates, or of bootstrap nodes, makes of a lookup.
LEMMA VisitTypes ==
    ASSUME NEW lookup \in Lookup, NEW nodes \in SUBSET Node
    PROVE  /\ Visit(lookup, nodes) \in Lookup
           /\ Visit(lookup, nodes).kind = lookup.kind
    BY DEF Visit, Lookup, Requests

LEMMA VisitClosestTypes ==
    ASSUME NEW lookup \in Lookup
    PROVE  /\ VisitClosest(lookup) \in Lookup
           /\ VisitClosest(lookup).kind = lookup.kind
    <1>1. Nearest(K, lookup.closest) \ lookup.visited \in SUBSET Node
        BY DEF Nearest, Lookup
    <1>2. QED BY <1>1, VisitTypes DEF VisitClosest

\* A new lookup has the kind it was asked for.
LEMMA StartLookupTypes ==
    ASSUME NEW kind \in LookupKind, NEW seeds \in SUBSET Node,
           NEW nodes \in SUBSET Node, NEW tokens \in SUBSET Node
    PROVE  /\ StartLookup(kind, seeds, nodes, tokens) \in Lookup
           /\ StartLookup(kind, seeds, nodes, tokens).kind = kind
    <1> DEFINE few   == \/ seeds = {}
                        \/ Cardinality(seeds) < Cardinality(Bootstrap)
               asked == IF few THEN Visit(NewLookup(kind), Bootstrap)
                               ELSE NewLookup(kind)
               full  == AddCandidates(asked, seeds \cup nodes)
               final == [full EXCEPT !.tokened = tokens \ seeds]
    <1>1. NewLookup(kind) \in Lookup /\ NewLookup(kind).kind = kind
        BY DEF NewLookup, NoLookup, Lookup
    <1>2. asked \in Lookup /\ asked.kind = kind
        BY <1>1, VisitTypes, BootstrapAssumption
    <1>3. full \in Lookup /\ full.kind = kind
        <2> HIDE DEF asked
        <2> QED BY <1>2 DEF AddCandidates, Lookup
    <1>4. final \in Lookup /\ final.kind = kind
        <2> HIDE DEF full
        <2> QED BY <1>3 DEF Lookup
    <1>5. StartLookup(kind, seeds, nodes, tokens) = VisitClosest(final)
        BY DEF StartLookup
    <1> HIDE DEF final
    <1>6. QED BY <1>4, <1>5, VisitClosestTypes

LEMMA SettleTypes ==
    ASSUME NEW lookup \in Lookup, NEW request
    PROVE  /\ Settle(lookup, request) \in Lookup
           /\ Settle(lookup, request).kind = lookup.kind
    BY DEF Settle, Lookup

LEMMA CarriedTypes == \A types \in Carried : types \in SUBSET ValueType
    BY CarriesAssumption DEF Carried

LEMMA AnsweredTypes ==
    ASSUME NEW lookup \in Lookup, NEW r \in Requests, NEW nodes \in SUBSET Node,
           NEW hasToken \in BOOLEAN, NEW types \in SUBSET ValueType
    PROVE  /\ Answered(lookup, r, nodes, hasToken, types) \in Lookup
           /\ Answered(lookup, r, nodes, hasToken, types).kind = lookup.kind
    <1> DEFINE settled == Settle(lookup, r)
    <1>1. settled \in Lookup /\ settled.kind = lookup.kind
        BY SettleTypes
    <1> HIDE DEF settled
    <1>2. Answered(lookup, r, nodes, hasToken, types) =
            [settled EXCEPT
               !.closest    = @ \cup nodes,
               !.responders = IF hasToken THEN @ \cup {r[1]} ELSE @,
               !.values     = @ \cup ({r} \X types)]
        BY DEF Answered, settled
    <1>3. /\ settled.closest \cup nodes \in SUBSET Node
          /\ (IF hasToken THEN settled.responders \cup {r[1]} ELSE settled.responders) \in SUBSET Node
          /\ settled.values \cup ({r} \X types) \in SUBSET Values
        BY <1>1 DEF Lookup, Requests, Values
    <1>4. QED BY <1>1, <1>2, <1>3 DEF Lookup

\* The choices of an answer to a lookup.
LEMMA AnswerChoices ==
    ASSUME NEW t \in Target, NEW r \in Requests, LookupAnswer(t, r)
    PROVE  \E nodes \in SUBSET Node, hasToken \in BOOLEAN, types \in SUBSET ValueType :
              /\ lookups' = [lookups EXCEPT ![t] = Answered(@, r, nodes, hasToken, types)]
              /\ news' = [target |-> t, from |-> {r} \X types]
    BY CarriedTypes DEF LookupAnswer

LEMMA LookupResultTypes ==
    ASSUME NEW lookup \in Lookup, NEW cut
    PROVE  /\ LookupResult(lookup, cut).nodes \in SUBSET Node
           /\ LookupResult(lookup, cut).tokens \in SUBSET Node
    BY DEF LookupResult, Nearest, Lookup

-----------------------------------------------------------------------------
(* Operators on puts. *)

PutType == Put(PutRequest)

LEMMA NewPutTypes ==
    ASSUME NEW request \in PutRequest
    PROVE  /\ NewPut(request) \in PutType
           /\ NewPut(request).live
    BY DEF NewPut, PutType, Put, Sends, ErrorCode

LEMMA NoPutTypes == NoPut \in PutType /\ ~NoPut.live
    <1>1. BlankRequest \in PutRequest
        BY SignatureAssumption DEF BlankRequest, PutRequest, PutKind
    <1>2. NewPut(BlankRequest) \in PutType
        BY <1>1, NewPutTypes
    <1>3. QED BY <1>2 DEF NoPut, PutType, Put

LEMMA StartPutTypes ==
    ASSUME NEW put \in PutType, NEW tokens \in SUBSET Node
    PROVE  /\ StartPut(put, tokens) \in PutType
           /\ StartPut(put, tokens).live = put.live
    <1>1. put.request.extra \in SUBSET Node
        BY DEF PutType, Put, PutRequest
    <1>2. (tokens \X {"closest"}) \cup (put.request.extra \X {"extra"}) \in SUBSET Sends
        BY <1>1 DEF Sends
    <1>3. QED BY <1>2 DEF StartPut, PutType, Put

LEMMA UnansweredTypes ==
    ASSUME NEW put \in PutType, NEW send
    PROVE  /\ Unanswered(put, send) \in PutType
           /\ Unanswered(put, send).live = put.live
    BY DEF Unanswered, PutType, Put

LEMMA AnswerTypes ==
    ASSUME NEW put \in PutType, NEW code \in ErrorCode
    PROVE  /\ Success(put) \in PutType /\ Success(put).live = put.live
           /\ Failure(put, code) \in PutType /\ Failure(put, code).live = put.live
    <1>1. Success(put) \in PutType /\ Success(put).live = put.live
        BY DEF Success, PutType, Put
    <1>2. put.tally[code] + 1 \in Nat
        BY DEF PutType, Put
    <1>3. Failure(put, code) \in PutType /\ Failure(put, code).live = put.live
        BY <1>2 DEF Failure, PutType, Put
    <1>4. QED BY <1>1, <1>3

LEMMA VerdictTypes ==
    ASSUME NEW put \in PutType
    PROVE  TickVerdict(put) \in PutResult \cup {"pending"}
    <1>1. MostCommonError(put) \in {"none", "cas_failed", "not_most_recent"}
        BY DEF MostCommonError
    <1>2. CASE ~Started(put) \/ put.flying = {}
        BY <1>1, <1>2 DEF TickVerdict, DoneVerdict, PutResult, PutError
    <1>3. CASE Started(put) /\ put.flying # {} /\ MajorityRejected(put)
        BY <1>1, <1>3 DEF TickVerdict, MajorityRejected, PutResult, PutError
    <1>4. CASE Started(put) /\ put.flying # {} /\ ~MajorityRejected(put)
        BY <1>4 DEF TickVerdict
    <1>5. QED BY <1>2, <1>3, <1>4

LEMMA AdmissionTypes ==
    ASSUME NEW put \in PutType, NEW request \in PutRequest
    PROVE  /\ Admission(put, request) \in {"new", "join", "replace"} \cup PutError
           /\ Admission(put, request) = "join" => put.live
    BY DEF Admission, PutError, PutType, Put

-----------------------------------------------------------------------------
(* Type correctness. *)

LEMMA InitTypes == Init => TypeOK
    <1> SUFFICES ASSUME Init PROVE TypeOK
        OBVIOUS
    <1> USE DEF Init
    <1>1. lookups \in [Target -> Lookup]
        BY DEF NoLookup, Lookup
    <1>2. puts \in [Target -> Put(PutRequest)]
        BY NoPutTypes DEF PutType
    <1>3. cached \in [Target -> [nodes : SUBSET Node, tokens : SUBSET Node, fresh : BOOLEAN]]
        BY DEF NotCached
    <1>4. doneGets \in [Target -> [ready : BOOLEAN, nodes : SUBSET Node, tokens : SUBSET Node]]
        BY DEF NoResult
    <1>5. news \in [target : Target, from : SUBSET Values]
        BY TargetAssumption DEF NoNews
    <1>6. got \in [Client -> [Source -> Nat]]
        BY DEF Nothing
    <1>7. replies \in [Client -> Reply]
        BY DEF NoReply, Plain, Reply
    <1>8. mailbox \in Seq([client : Client, call : Calls])
        BY EmptySeq
    <1>9. QED
        BY <1>1, <1>2, <1>3, <1>4, <1>5, <1>6, <1>7, <1>8 DEF TypeOK, Phase

LEMMA CallTypes ==
    /\ \A call \in Calls : call.op = "put" => call \in Puts
    /\ \A call \in Calls : call.op = "get" => call \in Gets
    BY PutsAssumption, GetsAssumption DEF Calls, PutCall, GetCall, InfoCall


\* Rpc::get leaves the target with a lookup: the one it had, or a new one.
LEMMA GetTypes ==
    ASSUME TypeOK, NEW t \in Target, NEW kind \in LookupKind, NEW seeds \in SUBSET Node
    PROVE  /\ LookupAfterGet(t, kind, seeds) \in Lookup
           /\ LookupAfterGet(t, kind, seeds).kind # "none"
           /\ ~Active(t) => LookupAfterGet(t, kind, seeds).kind = kind
           /\ Active(t) => LookupAfterGet(t, kind, seeds) = lookups[t]
    <1>1. cached[t].nodes \in SUBSET Node /\ cached[t].tokens \in SUBSET Node
        BY DEF TypeOK
    <1>2. lookups[t] \in Lookup
        BY DEF TypeOK
    <1>3. CASE Active(t)
        BY <1>2, <1>3 DEF LookupAfterGet, Active
    <1>4. CASE ~Active(t)
        BY <1>1, <1>4, StartLookupTypes DEF LookupAfterGet, LookupKind
    <1>5. QED BY <1>3, <1>4

\* The record of Rpc::put for a request that is admitted.
LEMMA AdmitTypes ==
    ASSUME TypeOK, NEW t \in Target, NEW request \in PutRequest, AdmitPut(t, request)
    PROVE  /\ lookups' \in [Target -> Lookup]
           /\ puts' \in [Target -> PutType]
           /\ \A u \in Target : Active(u) => lookups'[u] = lookups[u]
           /\ \A u \in Target : puts'[u].live <=> (puts[u].live \/ u = t)
    <1> USE DEF PutType
    <1>1. NewPut(request) \in PutType /\ NewPut(request).live
        BY NewPutTypes
    <1>2. lookups \in [Target -> Lookup] /\ puts \in [Target -> PutType]
        BY DEF TypeOK
    <1>3. CASE cached[t].nodes # {} /\ cached[t].fresh
        <2>1. cached[t].tokens \in SUBSET Node
            BY DEF TypeOK
        <2>2. /\ StartPut(NewPut(request), cached[t].tokens) \in PutType
              /\ StartPut(NewPut(request), cached[t].tokens).live
            BY <1>1, <2>1, StartPutTypes
        <2>3. /\ puts' = [puts EXCEPT ![t] = StartPut(NewPut(request), cached[t].tokens)]
              /\ lookups' = lookups
            BY <1>3 DEF AdmitPut
        <2>4. QED BY <1>2, <2>2, <2>3
    <1>4. CASE ~(cached[t].nodes # {} /\ cached[t].fresh)
        <2>1. PICK seeds \in SUBSET Node :
                  lookups' = [lookups EXCEPT ![t] = LookupAfterGet(t, "get_value", seeds)]
            BY <1>4 DEF AdmitPut
        <2>2. "get_value" \in LookupKind
            BY DEF LookupKind
        <2>3. /\ LookupAfterGet(t, "get_value", seeds) \in Lookup
              /\ Active(t) => LookupAfterGet(t, "get_value", seeds) = lookups[t]
            BY <2>2, GetTypes
        <2>4. puts' = [puts EXCEPT ![t] = NewPut(request)]
            BY <1>4 DEF AdmitPut
        <2>5. QED BY <1>1, <1>2, <2>1, <2>3, <2>4
    <1>5. QED BY <1>3, <1>4

\* The lookups of the tick, finished or not.
LEMMA TickedTypes ==
    ASSUME TypeOK, NEW t \in Target
    PROVE  /\ Ticked(t) \in Lookup
           /\ Ticked(t).kind = lookups[t].kind
    BY VisitClosestTypes DEF Ticked, TypeOK

LEMMA CleanUpTypes ==
    ASSUME TypeOK, NEW result \in [Finished -> [nodes : SUBSET Node, tokens : SUBSET Node]],
           NEW evicted, CleanUp(result, evicted)
    PROVE  /\ lookups' \in [Target -> Lookup]
           /\ puts' \in [Target -> PutType]
           /\ cached' \in [Target -> [nodes : SUBSET Node, tokens : SUBSET Node, fresh : BOOLEAN]]
           /\ donePuts' \in [Target -> PutResult \cup {"pending"}]
           /\ doneGets' \in [Target -> [ready : BOOLEAN, nodes : SUBSET Node, tokens : SUBSET Node]]
    <1>1. lookups' \in [Target -> Lookup]
        <2>1. NoLookup \in Lookup
            BY DEF NoLookup, Lookup
        <2>2. QED BY <2>1, TickedTypes DEF CleanUp
    <1>2. \A t \in Finished : /\ result[t].nodes \in SUBSET Node
                              /\ result[t].tokens \in SUBSET Node
        OBVIOUS
    <1>3. cached' \in [Target -> [nodes : SUBSET Node, tokens : SUBSET Node, fresh : BOOLEAN]]
        BY <1>2 DEF CleanUp, Verdicts, TypeOK, NotCached
    <1>4. doneGets' \in [Target -> [ready : BOOLEAN, nodes : SUBSET Node, tokens : SUBSET Node]]
        BY <1>2 DEF CleanUp, Verdicts, NoResult
    <1>5. donePuts' \in [Target -> PutResult \cup {"pending"}]
        BY DEF CleanUp, Verdicts, TypeOK, PutResult, PutError
    <1>6. puts' \in [Target -> PutType]
        <2>1. \A t \in Target : puts[t] \in PutType
            BY DEF TypeOK, PutType
        <2>2. \A t \in Target : Waiting(t) => StartPut(puts[t], result[t].tokens) \in PutType
            BY <1>2, <2>1, StartPutTypes DEF Waiting
        <2>3. QED BY <2>1, <2>2, NoPutTypes DEF CleanUp, Verdicts
    <1>7. QED BY <1>1, <1>3, <1>4, <1>5, <1>6

\* tick_get_queries and cleanup_done_queries, as one step of the loop.
LEMMA TickGetsCleansUp ==
    ASSUME TypeOK, TickGets
    PROVE  \E result \in [Finished -> [nodes : SUBSET Node, tokens : SUBSET Node]] :
           \E evicted \in SUBSET Target : CleanUp(result, evicted)
    <1>1. PICK cut \in [Finished -> Cuts], evicted \in SUBSET Target :
              CleanUp([t \in Finished |-> LookupResult(Ticked(t), cut[t])], evicted)
        BY DEF TickGets
    <1>2. \A t \in Finished : LookupResult(Ticked(t), cut[t]) \in
              [nodes : SUBSET Node, tokens : SUBSET Node]
        <2> SUFFICES ASSUME NEW t \in Finished
                     PROVE  LookupResult(Ticked(t), cut[t]) \in
                                [nodes : SUBSET Node, tokens : SUBSET Node]
            OBVIOUS
        <2>1. Ticked(t) \in Lookup
            BY TickedTypes DEF Finished
        <2>2. QED BY <2>1, LookupResultTypes DEF LookupResult
    <1>3. QED BY <1>1, <1>2

\* The head of the mailbox is a message of a client about one of the calls.
LEMMA MailTypes ==
    ASSUME TypeOK, mailbox # <<>>
    PROVE  /\ Head(mailbox).client \in Client
           /\ Head(mailbox).call \in Calls
           /\ Tail(mailbox) \in Seq([client : Client, call : Calls])
    <1>1. mailbox \in Seq([client : Client, call : Calls])
        BY DEF TypeOK
    <1>2. /\ Head(mailbox) \in [client : Client, call : Calls]
          /\ Tail(mailbox) \in Seq([client : Client, call : Calls])
        BY <1>1, HeadTailProperties
    <1>3. QED BY <1>2

LEMMA ReceiveTypes ==
    ASSUME TypeOK, Receive
    PROVE  TypeOK'
    <1> DEFINE c == Head(mailbox).client
               call == Head(mailbox).call
    <1> USE DEF PutType
    <1>1. /\ c \in Client
          /\ call \in Calls
          /\ mailbox' \in Seq([client : Client, call : Calls])
        BY MailTypes DEF Receive
    <1>2. phase' \in Phase /\ UNCHANGED <<doneGets, donePuts, news, calls>>
        BY DEF Receive, Phase, reportVars
    <1>3. CASE call.op = "put"
        <2>1. ReceivePut(c, call)
            BY <1>3 DEF Receive
        <2>2. call.target \in Target /\ call.request \in PutRequest
            BY <1>1, <1>3, CallTypes, PutsAssumption DEF PutCall
        <2>3. lookups' \in [Target -> Lookup] /\ puts' \in [Target -> PutType]
            <3>1. CASE AdmitPut(call.target, call.request)
                BY <3>1, <2>2, AdmitTypes
            <3>2. CASE UNCHANGED <<puts, lookups>>
                BY <3>2 DEF TypeOK
            <3>3. QED BY <2>1, <3>1, <3>2 DEF ReceivePut, Listeners
        <2>4. replies' \in [Client -> Reply] /\ putSenders' \in [Target -> SUBSET Client]
            <3> DEFINE verdict == Admission(puts[call.target], call.request)
            <3>1. verdict \in PutError => Plain(verdict) \in Reply
                BY DEF Plain, Reply, PutResult
            <3> HIDE DEF verdict
            <3>2. CASE verdict \in PutError
                <4>1. /\ replies' = [replies EXCEPT ![c] = Plain(verdict)]
                      /\ putSenders' = putSenders
                    BY <2>1, <3>2 DEF ReceivePut, Listeners, verdict
                <4>2. QED BY <4>1, <3>1, <3>2, <1>1 DEF TypeOK
            <3>3. CASE verdict \notin PutError
                <4>1. /\ putSenders' = [putSenders EXCEPT ![call.target] = @ \cup {c}]
                      /\ replies' = replies
                    BY <2>1, <3>3 DEF ReceivePut, Listeners, verdict
                <4>2. QED BY <4>1, <2>2, <1>1 DEF TypeOK
            <3>4. QED BY <3>2, <3>3
        <2>5. UNCHANGED <<cached, getSenders, got>>
            BY <2>1 DEF ReceivePut, Listeners
        <2>6. QED BY <1>1, <1>2, <2>3, <2>4, <2>5 DEF TypeOK
    <1>4. CASE call.op = "get"
        <2>1. ReceiveGet(c, call)
            BY <1>4 DEF Receive
        <2>2. call.target \in Target /\ call.kind \in LookupKind
            BY <1>1, <1>4, CallTypes, GetsAssumption DEF GetCall
        <2>3. lookups' \in [Target -> Lookup]
            <3>1. PICK seeds \in SUBSET Node :
                      lookups' = [lookups EXCEPT ![call.target] =
                                    LookupAfterGet(call.target, call.kind, seeds)]
                BY <2>1 DEF ReceiveGet
            <3>2. QED BY <2>2, <3>1, GetTypes DEF TypeOK
        <2>4. Replay(call) \in [Source -> Nat]
            BY DEF Replay
        <2>5. got' \in [Client -> [Source -> Nat]] /\ getSenders' \in [Target -> SUBSET Client]
            BY <1>1, <2>1, <2>2, <2>4 DEF ReceiveGet, TypeOK
        <2>6. UNCHANGED <<puts, cached, putSenders, replies>>
            BY <2>1 DEF ReceiveGet
        <2>7. QED BY <1>1, <1>2, <2>3, <2>5, <2>6 DEF TypeOK
    <1>5. CASE call.op # "put" /\ call.op # "get"
        <2>1. ReceiveInfo(c)
            BY <1>5 DEF Receive
        <2>2. Plain("info") \in Reply
            BY DEF Plain, Reply
        <2>3. replies' \in [Client -> Reply]
            BY <1>1, <2>1, <2>2 DEF ReceiveInfo, TypeOK
        <2>4. QED BY <1>1, <1>2, <2>1, <2>3 DEF ReceiveInfo, TypeOK, rpcVars, senderVars
    <1>6. QED BY <1>3, <1>4, <1>5

LEMMA MessageTypes ==
    ASSUME TypeOK, Message
    PROVE  TypeOK'
    <1> USE DEF PutType
    <1>1. NoNews \in [target : Target, from : SUBSET Values]
        BY TargetAssumption DEF NoNews
    <1>2. CASE NoMessage
        BY <1>1, <1>2 DEF NoMessage, TypeOK, Phase, rpcVars, senderVars, callerVars
    <1>3. ASSUME NEW t \in Target, NEW r \in Requests, LookupAnswer(t, r)
          PROVE  TypeOK'
        <2>1. PICK nodes \in SUBSET Node, hasToken \in BOOLEAN, types \in SUBSET ValueType :
                  /\ lookups' = [lookups EXCEPT ![t] = Answered(@, r, nodes, hasToken, types)]
                  /\ news' = [target |-> t, from |-> {r} \X types]
            BY <1>3, AnswerChoices
        <2>2. Answered(lookups[t], r, nodes, hasToken, types) \in Lookup
            BY AnsweredTypes DEF TypeOK
        <2>3. lookups' \in [Target -> Lookup]
            BY <2>1, <2>2 DEF TypeOK
        <2>4. news' \in [target : Target, from : SUBSET Values]
            BY <2>1 DEF Values
        <2>5. QED
            BY <1>3, <2>3, <2>4 DEF LookupAnswer, TypeOK, Phase, senderVars, callerVars
    <1>5. ASSUME NEW t \in Target, NEW s \in Sends, PutAnswer(t, s)
          PROVE  TypeOK'
        <2> DEFINE put == Unanswered(puts[t], s)
        <2>1. put \in PutType
            BY UnansweredTypes DEF TypeOK
        <2>2. PICK after \in {put, Success(put)} \cup {Failure(put, e) : e \in ErrorCode} :
                  puts' = [puts EXCEPT ![t] = after]
            BY <1>5 DEF PutAnswer
        <2> HIDE DEF put
        <2>3. after \in PutType
            BY <2>1, <2>2, AnswerTypes DEF ErrorCode
        <2>4. puts' \in [Target -> PutType]
            BY <2>2, <2>3 DEF TypeOK
        <2>5. QED BY <1>1, <1>5, <2>4 DEF PutAnswer, TypeOK, Phase, senderVars, callerVars
    <1>6. QED BY <1>2, <1>3, <1>5 DEF Message

LEMMA ReportTypes ==
    ASSUME TypeOK, Report
    PROVE  TypeOK'
    <1>1. \A c \in Client, src \in Source : Forwarded(c, src) \in Nat
        BY DEF Forwarded
    <1>2. got' \in [Client -> [Source -> Nat]]
        BY <1>1 DEF Report, TypeOK
    <1>3. \A c \in Client : ReplyTo(c) \in Reply
        <2> SUFFICES ASSUME NEW c \in Client
                     PROVE  ReplyTo(c) \in Reply
            OBVIOUS
        <2>1. CASE EndedGet(c) # {}
            <3> DEFINE t == CHOOSE u \in EndedGet(c) : TRUE
            <3>1. t \in Target
                BY <2>1 DEF EndedGet
            <3>2. [what |-> "closest", nodes |-> doneGets[t].nodes,
                   tokens |-> doneGets[t].tokens] \in Reply
                BY <3>1 DEF TypeOK, Reply
            <3>3. Plain("closed") \in Reply
                BY DEF Plain, Reply
            <3>4. QED BY <2>1, <3>2, <3>3 DEF ReplyTo
        <2>2. CASE EndedGet(c) = {} /\ EndedPut(c) # {}
            <3> DEFINE t == CHOOSE u \in EndedPut(c) : TRUE
            <3>1. t \in Target /\ donePuts[t] # "pending"
                BY <2>2 DEF EndedPut
            <3>2. donePuts[t] \in PutResult
                BY <3>1 DEF TypeOK
            <3>3. Plain(donePuts[t]) \in Reply
                BY <3>2 DEF Plain, Reply
            <3>4. QED BY <2>2, <3>3 DEF ReplyTo
        <2>3. CASE EndedGet(c) = {} /\ EndedPut(c) = {}
            BY <2>3 DEF ReplyTo, TypeOK
        <2>4. QED BY <2>1, <2>2, <2>3
    <1>4. replies' \in [Client -> Reply]
        BY <1>3 DEF Report
    <1>5. /\ doneGets' \in [Target -> [ready : BOOLEAN, nodes : SUBSET Node, tokens : SUBSET Node]]
          /\ donePuts' \in [Target -> PutResult \cup {"pending"}]
          /\ news' \in [target : Target, from : SUBSET Values]
        BY TargetAssumption DEF Report, NoResult, NoNews
    <1>6. /\ getSenders' \in [Target -> SUBSET Client]
          /\ putSenders' \in [Target -> SUBSET Client]
        BY DEF Report, TypeOK
    <1>7. UNCHANGED <<lookups, puts, cached, mailbox, calls>> /\ phase' \in Phase
        BY DEF Report, rpcVars, Phase
    <1> HIDE DEF Report
    <1>8. QED BY <1>2, <1>4, <1>5, <1>6, <1>7 DEF TypeOK

LEMMA StepTypes == TypeOK /\ [Next]_vars => TypeOK'
    <1> SUFFICES ASSUME TypeOK, [Next]_vars PROVE TypeOK'
        OBVIOUS
    <1> USE DEF PutType
    <1>1. CASE Receive
        BY <1>1, ReceiveTypes
    <1>2. CASE ReceiveNothing
        BY <1>2 DEF ReceiveNothing, TypeOK, Phase, rpcVars, reportVars, senderVars, callerVars
    <1>3. CASE TickPuts
        <2>1. \A t \in Target : TickVerdict(puts[t]) \in PutResult \cup {"pending"}
            BY VerdictTypes DEF TypeOK
        <2>2. donePuts' \in [Target -> PutResult \cup {"pending"}]
            BY <1>3, <2>1 DEF TickPuts
        <2>3. QED BY <1>3, <2>2 DEF TickPuts, TypeOK, Phase, rpcVars, senderVars, callerVars
    <1>4. CASE TickGets
        <2>1. PICK result \in [Finished -> [nodes : SUBSET Node, tokens : SUBSET Node]],
                   evicted \in SUBSET Target : CleanUp(result, evicted)
            BY <1>4, TickGetsCleansUp
        <2>2. QED
            BY <1>4, <2>1, CleanUpTypes DEF TickGets, TypeOK, Phase, senderVars, callerVars
    <1>5. CASE Maintain
        <2>1. lookups' \in [Target -> Lookup]
            <3>1. CASE UNCHANGED lookups
                BY <3>1 DEF TypeOK
            <3>2. CASE \E t \in OwnIds, seeds \in SUBSET Node :
                          lookups' = [lookups EXCEPT ![t] = LookupAfterGet(t, "find_node", seeds)]
                <4>1. "find_node" \in LookupKind
                    BY DEF LookupKind
                <4>2. QED BY <3>2, <4>1, GetTypes, OwnIdsAssumption DEF TypeOK
            <3>3. QED BY <1>5, <3>1, <3>2 DEF Maintain
        <2>2. QED BY <1>5, <2>1 DEF Maintain, TypeOK, Phase, reportVars, senderVars, callerVars
    <1>6. CASE Message
        BY <1>6, MessageTypes
    <1>7. CASE Report
        BY <1>7, ReportTypes
    <1>8. ASSUME NEW t \in Target, NEW r \in Requests, ExpireLookup(t, r)
          PROVE  TypeOK'
        <2>1. lookups' \in [Target -> Lookup]
            BY <1>8, SettleTypes DEF ExpireLookup, TypeOK
        <2>2. QED BY <1>8, <2>1 DEF ExpireLookup, TypeOK, reportVars, senderVars, callerVars
    <1>9. ASSUME NEW t \in Target, NEW s \in Sends, ExpirePut(t, s)
          PROVE  TypeOK'
        <2>1. puts' \in [Target -> PutType]
            BY <1>9, UnansweredTypes DEF ExpirePut, TypeOK
        <2>2. QED BY <1>9, <2>1 DEF ExpirePut, TypeOK, reportVars, senderVars, callerVars
    <1>10. ASSUME NEW t \in Target, CacheAges(t)
           PROVE  TypeOK'
        <2>1. cached' \in [Target -> [nodes : SUBSET Node, tokens : SUBSET Node, fresh : BOOLEAN]]
            <3>1. cached[t] \in [nodes : SUBSET Node, tokens : SUBSET Node, fresh : BOOLEAN]
                BY DEF TypeOK
            <3>2. [cached[t] EXCEPT !.fresh = FALSE] \in
                      [nodes : SUBSET Node, tokens : SUBSET Node, fresh : BOOLEAN]
                BY <3>1
            <3>3. cached' = [cached EXCEPT ![t] = [cached[t] EXCEPT !.fresh = FALSE]]
                BY <1>10 DEF CacheAges
            <3>4. QED BY <3>2, <3>3 DEF TypeOK
        <2>2. QED BY <1>10, <2>1 DEF CacheAges, TypeOK, reportVars, senderVars, callerVars
    <1>11. ASSUME NEW c \in Client, Return(c)
           PROVE  TypeOK'
        <2>1. NoReply \in Reply /\ Nothing \in [Source -> Nat]
            BY DEF NoReply, Plain, Reply, Nothing
        <2>2. QED BY <1>11, <2>1 DEF Return, TypeOK, rpcVars, reportVars, senderVars
    <1>12. ASSUME NEW c \in Client, NEW call \in Calls, Call(c, call)
           PROVE  TypeOK'
        <2>1. [client |-> c, call |-> call] \in [client : Client, call : Calls]
            OBVIOUS
        <2>2. mailbox' \in Seq([client : Client, call : Calls])
            BY <1>12, <2>1, AppendProperties DEF Call, TypeOK
        <2>3. calls' \in [Client -> Calls \cup {NoCall}]
            BY <1>12 DEF Call, TypeOK
        <2>4. QED BY <1>12, <2>2, <2>3 DEF Call, TypeOK, rpcVars, reportVars, senderVars
    <1>13. CASE UNCHANGED vars
        BY <1>13 DEF TypeOK, vars, rpcVars, reportVars, senderVars, callerVars
    <1>14. QED
        BY <1>1, <1>2, <1>3, <1>4, <1>5, <1>6, <1>7, <1>8, <1>9, <1>10, <1>11, <1>12, <1>13
        DEF Next, Actor, Clock, Callers

\* Every variable keeps its type.
THEOREM TypeCorrect == Spec => []TypeOK
    BY InitTypes, StepTypes, PTL DEF Spec

-----------------------------------------------------------------------------
(* A waiting caller always has a query that will answer it.  The invariant   *)
(* is strengthened by the emptiness of the report outside the tick.          *)

SenderInv == TypeOK /\ ReportEmpty /\ SendersHaveQuery

LEMMA ReceiveKeepsQueries ==
    ASSUME SenderInv, Receive
    PROVE  ReportEmpty' /\ SendersHaveQuery'
    <1> DEFINE c == Head(mailbox).client
               call == Head(mailbox).call
    <1> USE DEF PutType
    <1>1. /\ c \in Client
          /\ call \in Calls
        BY MailTypes DEF Receive, SenderInv
    <1>2. ReportEmpty'
        BY DEF Receive, SenderInv, ReportEmpty, reportVars
    <1>3. TypeOK /\ UNCHANGED <<doneGets, donePuts>>
        BY DEF Receive, reportVars, SenderInv
    <1>4. CASE call.op = "put"
        <2> DEFINE t == call.target
                   verdict == Admission(puts[t], call.request)
        <2>1. ReceivePut(c, call)
            BY <1>4 DEF Receive
        <2>2. t \in Target /\ call.request \in PutRequest
            BY <1>1, <1>4, CallTypes, PutsAssumption DEF PutCall
        <2>3. /\ verdict \in {"new", "join", "replace"} \cup PutError
              /\ verdict = "join" => puts[t].live
            BY <1>3, <2>2, AdmissionTypes DEF TypeOK
        <2>4. /\ \A u \in Target : Active(u) => lookups'[u] = lookups[u]
              /\ \A u \in Target : puts[u].live => puts'[u].live
              /\ verdict \notin PutError => puts'[t].live
            <3>1. CASE verdict \in {"new", "replace"}
                <4>1. AdmitPut(t, call.request)
                    BY <2>1, <3>1 DEF ReceivePut, Listeners
                <4>2. QED BY <1>3, <2>2, <4>1, AdmitTypes
            <3>2. CASE verdict \notin {"new", "replace"}
                <4>1. UNCHANGED <<puts, lookups>>
                    BY <2>1, <3>2 DEF ReceivePut, Listeners
                <4>2. QED BY <2>3, <3>2, <4>1
            <3>3. QED BY <3>1, <3>2
        <2>5. /\ getSenders' = getSenders
              /\ \/ putSenders' = putSenders
                 \/ /\ verdict \notin PutError
                    /\ putSenders' = [putSenders EXCEPT ![t] = @ \cup {c}]
            BY <2>1 DEF ReceivePut, Listeners
        <2> HIDE DEF t, verdict
        <2>6. ASSUME NEW u \in Target
              PROVE  /\ getSenders'[u] # {} => Active(u)' \/ doneGets'[u].ready
                     /\ putSenders'[u] # {} => puts'[u].live \/ donePuts'[u] # "pending"
            <3>1. Active(u) => Active(u)'
                BY <2>4 DEF Active
            <3>2. u # t => putSenders'[u] = putSenders[u]
                BY <1>3, <2>2, <2>5 DEF TypeOK
            <3>3. CASE u = t
                BY <1>3, <2>4, <2>5, <3>1, <3>3 DEF SenderInv, SendersHaveQuery
            <3>4. CASE u # t
                BY <1>3, <2>4, <2>5, <3>1, <3>2, <3>4 DEF SenderInv, SendersHaveQuery
            <3>5. QED BY <3>3, <3>4
        <2>7. QED BY <1>2, <2>6 DEF SendersHaveQuery
    <1>5. CASE call.op = "get"
        <2>1. ReceiveGet(c, call)
            BY <1>5 DEF Receive
        <2>2. call.target \in Target /\ call.kind \in LookupKind
            BY <1>1, <1>5, CallTypes, GetsAssumption DEF GetCall
        <2>3. PICK seeds \in SUBSET Node :
                  lookups' = [lookups EXCEPT ![call.target] =
                                LookupAfterGet(call.target, call.kind, seeds)]
            BY <2>1 DEF ReceiveGet
        <2>4. LookupAfterGet(call.target, call.kind, seeds).kind # "none"
            BY <1>3, <2>2, GetTypes
        <2>5. \A u \in Target : Active(u)' <=> (Active(u) \/ u = call.target)
            BY <1>3, <2>2, <2>3, <2>4 DEF Active, TypeOK
        <2>6. /\ getSenders' = [getSenders EXCEPT ![call.target] = @ \cup {c}]
              /\ UNCHANGED <<puts, putSenders>>
            BY <2>1 DEF ReceiveGet
        <2>7. QED
            BY <1>2, <1>3, <2>2, <2>5, <2>6 DEF SenderInv, SendersHaveQuery, TypeOK
    <1>6. CASE call.op # "put" /\ call.op # "get"
        <2>1. UNCHANGED <<lookups, puts, getSenders, putSenders>>
            BY <1>6 DEF Receive, ReceiveInfo, rpcVars, senderVars
        <2>2. QED BY <1>2, <1>3, <2>1 DEF SenderInv, SendersHaveQuery, Active
    <1>7. QED BY <1>4, <1>5, <1>6

LEMMA TickGetsKeepsQueries ==
    ASSUME SenderInv, TickGets
    PROVE  ReportEmpty' /\ SendersHaveQuery'
    <1>1. TypeOK
        BY DEF SenderInv
    <1>2. PICK result \in [Finished -> [nodes : SUBSET Node, tokens : SUBSET Node]],
               evicted \in SUBSET Target : CleanUp(result, evicted)
        BY <1>1, TickGetsCleansUp
    <1>3. phase' = "maintain" /\ UNCHANGED <<getSenders, putSenders>>
        BY DEF TickGets, senderVars
    <1>4. ASSUME NEW t \in Target, getSenders[t] # {}
          PROVE  Active(t)' \/ doneGets'[t].ready
        <2>1. Active(t)
            BY <1>4 DEF SenderInv, SendersHaveQuery, ReportEmpty, TickGets
        <2>2. CASE t \in Finished
            BY <1>2, <2>2 DEF CleanUp, Verdicts
        <2>3. CASE t \notin Finished
            <3>1. lookups'[t].kind = lookups[t].kind
                BY <1>1, <1>2, <2>3, TickedTypes DEF CleanUp
            <3>2. QED BY <2>1, <3>1 DEF Active
        <2>4. QED BY <2>2, <2>3
    <1>5. ASSUME NEW t \in Target, putSenders[t] # {}
          PROVE  puts'[t].live \/ donePuts'[t] # "pending"
        <2>1. puts[t].live \/ donePuts[t] # "pending"
            BY <1>5 DEF SenderInv, SendersHaveQuery
        <2>2. CASE donePuts[t] # "pending" \/ (Waiting(t) /\ result[t].nodes = {})
            BY <1>2, <2>2 DEF CleanUp, Verdicts
        <2>3. CASE donePuts[t] = "pending" /\ ~(Waiting(t) /\ result[t].nodes = {})
            <3>1. puts'[t] = IF Waiting(t) THEN StartPut(puts[t], result[t].tokens) ELSE puts[t]
                BY <1>2, <2>3 DEF CleanUp, Verdicts
            <3>2. StartPut(puts[t], result[t].tokens).live = puts[t].live
                BY <1>1 DEF StartPut, TypeOK, Put
            <3>3. QED BY <2>1, <2>3, <3>1, <3>2
        <2>4. QED BY <2>2, <2>3
    <1>6. QED BY <1>3, <1>4, <1>5 DEF SendersHaveQuery, ReportEmpty

LEMMA MessageKeepsQueries ==
    ASSUME SenderInv, Message
    PROVE  ReportEmpty' /\ SendersHaveQuery'
    <1> USE DEF PutType
    <1>1. TypeOK
        BY DEF SenderInv
    <1>2. /\ \A u \in Target : Active(u) => Active(u)'
          /\ \A u \in Target : puts[u].live => puts'[u].live
          /\ phase' = "report"
          /\ UNCHANGED <<doneGets, donePuts, getSenders, putSenders>>
        <2>1. CASE NoMessage
            BY <2>1 DEF NoMessage, Active, rpcVars, senderVars
        <2>2. ASSUME NEW t \in Target, NEW r \in Requests, LookupAnswer(t, r)
              PROVE  /\ \A u \in Target : Active(u) => Active(u)'
                     /\ UNCHANGED puts
            <3>1. PICK nodes \in SUBSET Node, hasToken \in BOOLEAN, types \in SUBSET ValueType :
                      /\ lookups' = [lookups EXCEPT ![t] = Answered(@, r, nodes, hasToken, types)]
                      /\ news' = [target |-> t, from |-> {r} \X types]
                BY <2>2, AnswerChoices
            <3>2. lookups[t] \in Lookup
                BY <1>1 DEF TypeOK
            <3>3. lookups'[t].kind = lookups[t].kind
                <4>1. Answered(lookups[t], r, nodes, hasToken, types).kind = lookups[t].kind
                    BY <3>2, AnsweredTypes
                <4>2. QED BY <1>1, <3>1, <4>1 DEF TypeOK
            <3>4. \A u \in Target : u # t => lookups'[u] = lookups[u]
                BY <1>1, <3>1 DEF TypeOK
            <3>5. QED BY <2>2, <3>3, <3>4 DEF LookupAnswer, Active
        <2>3. ASSUME NEW t \in Target, NEW s \in Sends, PutAnswer(t, s)
              PROVE  /\ UNCHANGED lookups
                     /\ \A u \in Target : puts[u].live => puts'[u].live
            <3> DEFINE put == Unanswered(puts[t], s)
            <3>1. put \in PutType /\ put.live = puts[t].live
                BY <1>1, UnansweredTypes DEF TypeOK
            <3>2. PICK after \in {put, Success(put)} \cup {Failure(put, e) : e \in ErrorCode} :
                      puts' = [puts EXCEPT ![t] = after]
                BY <2>3 DEF PutAnswer
            <3> HIDE DEF put
            <3>3. after.live = puts[t].live
                BY <3>1, <3>2, AnswerTypes DEF ErrorCode
            <3>4. QED BY <1>1, <2>3, <3>2, <3>3 DEF PutAnswer, TypeOK
        <2>4. QED
            BY <2>1, <2>2, <2>3
            DEF Message, LookupAnswer, PutAnswer, senderVars, Active
    <1>3. QED BY <1>2 DEF SenderInv, SendersHaveQuery, ReportEmpty

LEMMA SenderStep == SenderInv /\ [Next]_vars => SenderInv'
    <1> SUFFICES ASSUME SenderInv, [Next]_vars PROVE SenderInv'
        OBVIOUS
    <1>1. TypeOK /\ TypeOK'
        BY StepTypes DEF SenderInv
    <1> SUFFICES ReportEmpty' /\ SendersHaveQuery'
        BY <1>1 DEF SenderInv
    <1>2. CASE Receive
        BY <1>2, ReceiveKeepsQueries
    <1>3. CASE ReceiveNothing
        BY <1>3 DEF ReceiveNothing, SenderInv, SendersHaveQuery, ReportEmpty, Active,
                    rpcVars, reportVars, senderVars
    <1>4. CASE TickPuts
        <2>1. \A t \in Target : putSenders[t] # {} => puts[t].live
            BY <1>4 DEF TickPuts, SenderInv, SendersHaveQuery, ReportEmpty
        <2>2. QED
            BY <1>4, <2>1 DEF TickPuts, SenderInv, SendersHaveQuery, ReportEmpty, Active,
                              rpcVars, senderVars
    <1>5. CASE TickGets
        BY <1>5, TickGetsKeepsQueries
    <1>6. CASE Maintain
        <2>1. \A u \in Target : Active(u) => lookups'[u] = lookups[u]
            <3>1. CASE UNCHANGED lookups
                BY <3>1
            <3>2. ASSUME NEW t \in OwnIds, NEW seeds \in SUBSET Node,
                         lookups' = [lookups EXCEPT ![t] = LookupAfterGet(t, "find_node", seeds)]
                  PROVE  \A u \in Target : Active(u) => lookups'[u] = lookups[u]
                BY <1>1, <3>2 DEF LookupAfterGet, TypeOK
            <3>3. QED BY <1>6, <3>1, <3>2 DEF Maintain
        <2>2. \A u \in Target : Active(u) => Active(u)'
            BY <2>1 DEF Active
        <2>3. QED
            BY <1>6, <2>2 DEF Maintain, SenderInv, SendersHaveQuery, ReportEmpty,
                              reportVars, senderVars
    <1>7. CASE Message
        BY <1>7, MessageKeepsQueries
    <1>8. CASE Report
        <2>1. ReportEmpty'
            BY <1>8 DEF Report, ReportEmpty, NoResult
        <2>2. ASSUME NEW t \in Target
              PROVE  /\ getSenders'[t] # {} => Active(t)' \/ doneGets'[t].ready
                     /\ putSenders'[t] # {} => puts'[t].live \/ donePuts'[t] # "pending"
            <3>1. UNCHANGED <<lookups, puts>>
                BY <1>8 DEF Report, rpcVars
            <3>2. /\ getSenders'[t] = IF doneGets[t].ready THEN {} ELSE getSenders[t]
                  /\ putSenders'[t] = IF donePuts[t] # "pending" THEN {} ELSE putSenders[t]
                BY <1>8 DEF Report
            <3>3. QED BY <3>1, <3>2 DEF SenderInv, SendersHaveQuery, Active
        <2>3. QED BY <2>1, <2>2 DEF SendersHaveQuery
    <1>9. ASSUME NEW t \in Target, NEW r \in Requests, ExpireLookup(t, r)
          PROVE  ReportEmpty' /\ SendersHaveQuery'
        <2>1. \A u \in Target : Active(u) => Active(u)'
            BY <1>1, <1>9, SettleTypes DEF ExpireLookup, TypeOK, Active
        <2>2. QED
            BY <1>9, <2>1 DEF ExpireLookup, SenderInv, SendersHaveQuery, ReportEmpty,
                              reportVars, senderVars
    <1>10. ASSUME NEW t \in Target, NEW s \in Sends, ExpirePut(t, s)
           PROVE  ReportEmpty' /\ SendersHaveQuery'
        <2>1. Unanswered(puts[t], s).live = puts[t].live
            BY <1>1, UnansweredTypes DEF TypeOK, PutType
        <2>2. \A u \in Target : puts[u].live => puts'[u].live
            BY <1>1, <1>10, <2>1 DEF ExpirePut, TypeOK
        <2>3. QED
            BY <1>10, <2>2 DEF ExpirePut, SenderInv, SendersHaveQuery, ReportEmpty, Active,
                               reportVars, senderVars
    <1>11. CASE \E t \in Target : CacheAges(t)
        BY <1>11 DEF CacheAges, SenderInv, SendersHaveQuery, ReportEmpty, Active,
                     reportVars, senderVars
    <1>12. CASE Callers
        BY <1>12 DEF Callers, Return, Call, SenderInv, SendersHaveQuery, ReportEmpty, Active,
                     rpcVars, reportVars, senderVars
    <1>13. CASE UNCHANGED vars
        BY <1>13 DEF vars, SenderInv, SendersHaveQuery, ReportEmpty, Active,
                     rpcVars, reportVars, senderVars
    <1>14. QED
        BY <1>2, <1>3, <1>4, <1>5, <1>6, <1>7, <1>8, <1>9, <1>10, <1>11, <1>12, <1>13
        DEF Next, Actor, Clock

\* No channel is left behind: whoever listens for a lookup or waits for a put
\* has one in the maps of the Rpc, or in the report about to be delivered.
THEOREM SendersAreServed == Spec => []SendersHaveQuery
    <1>1. Init => SenderInv
        <2> SUFFICES ASSUME Init PROVE ReportEmpty /\ SendersHaveQuery
            BY InitTypes DEF SenderInv
        <2>1. QED BY DEF Init, ReportEmpty, SendersHaveQuery, NoResult
    <1>2. SenderInv => SendersHaveQuery
        BY DEF SenderInv
    <1>3. QED BY <1>1, <1>2, SenderStep, PTL DEF Spec
-----------------------------------------------------------------------------
(* No caller is forgotten or answered twice. *)

\* Who has no call has no answer.
IdleUnanswered == \A c \in Client : calls[c] = NoCall => replies[c] = NoReply

CallerInv == TypeOK /\ NoCallerForgotten /\ IdleUnanswered

LEMMA CallsAreCalls == \A call \in Calls : call # NoCall
    BY PutsAssumption, GetsAssumption DEF Calls, PutCall, GetCall, InfoCall, NoCall

LEMMA AnswersAreAnswers == \A w : w # "none" => Plain(w) # NoReply
    BY DEF Plain, NoReply


\* A client whose place is free posts a message.
LEMMA CallKeepsCallers ==
    ASSUME CallerInv, NEW c \in Client, NEW call \in Calls, Call(c, call)
    PROVE  NoCallerForgotten' /\ IdleUnanswered'
    <1> DEFINE m == [client |-> c, call |-> call]
    <1>1. /\ calls[c] = NoCall
          /\ calls' = [calls EXCEPT ![c] = call]
          /\ mailbox' = Append(mailbox, m)
          /\ UNCHANGED <<getSenders, putSenders, replies>>
        BY DEF Call, senderVars
    <1>2. /\ mailbox \in Seq([client : Client, call : Calls])
          /\ m \in [client : Client, call : Calls]
        BY DEF TypeOK, CallerInv
    <1>3. /\ DOMAIN mailbox = 1 .. Len(mailbox) /\ Len(mailbox) \in Nat
          /\ DOMAIN mailbox' = 1 .. Len(mailbox) + 1
          /\ \A i \in 1 .. Len(mailbox) : mailbox'[i] = mailbox[i]
          /\ mailbox'[Len(mailbox) + 1] = m
        BY <1>1, <1>2, AppendProperties, LenProperties
    <1>4. m.client = c
        OBVIOUS
    <1> HIDE DEF m
    <1>5. Mailed' = Mailed \cup {c}
        BY <1>3, <1>4 DEF Mailed
    <1>6. replies[c] = NoReply /\ ~Blocked(c)
        BY <1>1 DEF CallerInv, IdleUnanswered, Blocked
    <1>7. /\ c \notin Mailed
          /\ \A t \in Target : c \notin getSenders[t] \cup putSenders[t]
        BY <1>6 DEF CallerInv, NoCallerForgotten
    <1>8. /\ calls'[c] # NoCall
          /\ \A d \in Client : d # c => calls'[d] = calls[d]
        BY <1>1, CallsAreCalls DEF CallerInv, TypeOK
    <1>9. ASSUME NEW d \in Client
          PROVE  Blocked(d)' <=> \/ d \in Mailed'
                                 \/ \E t \in Target : d \in getSenders'[t] \cup putSenders'[t]
        <2>1. CASE d = c
            BY <1>1, <1>5, <1>6, <1>8, <2>1 DEF Blocked
        <2>2. CASE d # c
            BY <1>1, <1>5, <1>8, <2>2 DEF Blocked, CallerInv, NoCallerForgotten
        <2>3. QED BY <2>1, <2>2
    <1>10. ASSUME NEW i \in DOMAIN mailbox', NEW j \in DOMAIN mailbox',
                  mailbox'[i].client = mailbox'[j].client
           PROVE  i = j
        <2>1. \A k \in 1 .. Len(mailbox) : mailbox[k].client # c
            BY <1>3, <1>7 DEF Mailed
        <2>2. QED BY <1>3, <1>4, <1>10, <2>1 DEF CallerInv, NoCallerForgotten
    <1>11. \A t \in Target : Mailed' \cap (getSenders'[t] \cup putSenders'[t]) = {}
        BY <1>1, <1>5, <1>7 DEF CallerInv, NoCallerForgotten
    <1>12. NoCallerForgotten'
        BY <1>1, <1>9, <1>10, <1>11 DEF CallerInv, NoCallerForgotten
    <1>13. IdleUnanswered'
        BY <1>1, <1>8 DEF CallerInv, IdleUnanswered
    <1>14. QED BY <1>12, <1>13

\* The actor takes the first message: its client leaves the mailbox, for one
\* list of senders or with its answer.
LEMMA ReceiveKeepsCallers ==
    ASSUME CallerInv, Receive
    PROVE  NoCallerForgotten' /\ IdleUnanswered'
    <1> DEFINE c == Head(mailbox).client
               call == Head(mailbox).call
    <1>1. /\ mailbox # <<>> /\ mailbox' = Tail(mailbox) /\ calls' = calls
          /\ mailbox \in Seq([client : Client, call : Calls])
        BY DEF Receive, CallerInv, TypeOK
    <1>2. /\ Len(mailbox) \in Nat \ {0}
          /\ DOMAIN mailbox = 1 .. Len(mailbox)
          /\ Head(mailbox) = mailbox[1]
          /\ DOMAIN mailbox' = 1 .. Len(mailbox) - 1
          /\ \A i \in 1 .. Len(mailbox) - 1 : mailbox'[i] = mailbox[i + 1]
        BY <1>1, HeadTailProperties, EmptySeq, LenProperties
    <1>3. c \in Client /\ call \in Calls /\ c \in Mailed
        <2>1. Head(mailbox) \in [client : Client, call : Calls]
            BY <1>1, HeadTailProperties
        <2>2. 1 \in DOMAIN mailbox
            BY <1>2
        <2>3. QED BY <1>2, <2>1, <2>2 DEF Mailed
    <1>4. Mailed' = Mailed \ {c}
        <2>1. ASSUME NEW d \in Mailed', d = c
              PROVE  FALSE
            <3>1. PICK i \in 1 .. Len(mailbox) - 1 : mailbox[i + 1].client = d
                BY <1>2 DEF Mailed
            <3>2. i + 1 \in DOMAIN mailbox /\ 1 \in DOMAIN mailbox /\ i + 1 # 1
                BY <1>2
            <3>3. QED BY <1>2, <2>1, <3>1, <3>2 DEF CallerInv, NoCallerForgotten
        <2>2. ASSUME NEW d \in Mailed'
              PROVE  d \in Mailed
            <3>1. PICK i \in 1 .. Len(mailbox) - 1 : mailbox[i + 1].client = d
                BY <1>2 DEF Mailed
            <3>2. i + 1 \in DOMAIN mailbox
                BY <1>2
            <3>3. QED BY <3>1, <3>2 DEF Mailed
        <2>3. ASSUME NEW d \in Mailed, d # c
              PROVE  d \in Mailed'
            <3>1. PICK i \in DOMAIN mailbox : mailbox[i].client = d
                BY DEF Mailed
            <3>2. i # 1
                BY <1>2, <2>3, <3>1
            <3>3. i - 1 \in DOMAIN mailbox' /\ mailbox'[i - 1] = mailbox[i]
                BY <1>2, <3>2
            <3>4. QED BY <3>1, <3>3 DEF Mailed
        <2>4. QED BY <2>1, <2>2, <2>3
    <1>5. \A i, j \in DOMAIN mailbox' : mailbox'[i].client = mailbox'[j].client => i = j
        <2>1. SUFFICES ASSUME NEW i \in DOMAIN mailbox', NEW j \in DOMAIN mailbox',
                              mailbox'[i].client = mailbox'[j].client
                       PROVE  i = j
            OBVIOUS
        <2>2. /\ i + 1 \in DOMAIN mailbox /\ j + 1 \in DOMAIN mailbox
              /\ i \in Nat /\ j \in Nat
              /\ mailbox[i + 1].client = mailbox[j + 1].client
            BY <1>2, <2>1
        <2>3. i + 1 = j + 1
            BY <2>2 DEF CallerInv, NoCallerForgotten
        <2>4. QED BY <2>2, <2>3
    <1>6. /\ Blocked(c) /\ calls[c] # NoCall
          /\ \A t \in Target : c \notin getSenders[t] \cup putSenders[t]
        BY <1>3 DEF CallerInv, NoCallerForgotten, Blocked
    <1>7. \/ \E t \in Target :
                /\ getSenders' = [getSenders EXCEPT ![t] = @ \cup {c}]
                /\ UNCHANGED <<putSenders, replies>>
          \/ \E t \in Target :
                /\ putSenders' = [putSenders EXCEPT ![t] = @ \cup {c}]
                /\ UNCHANGED <<getSenders, replies>>
          \/ \E r : /\ r # NoReply
                    /\ replies' = [replies EXCEPT ![c] = r]
                    /\ UNCHANGED <<getSenders, putSenders>>
        <2>1. CASE call.op = "put"
            <3>1. ReceivePut(c, call)
                BY <2>1 DEF Receive
            <3>2. call.target \in Target
                BY <1>3, <2>1, CallTypes, PutsAssumption DEF PutCall
            <3>3. CASE Admission(puts[call.target], call.request) \in PutError
                <4>1. /\ replies' = [replies EXCEPT ![c] =
                                Plain(Admission(puts[call.target], call.request))]
                      /\ UNCHANGED <<getSenders, putSenders>>
                    BY <3>1, <3>3 DEF ReceivePut
                <4>2. Plain(Admission(puts[call.target], call.request)) # NoReply
                    BY <3>3, AnswersAreAnswers DEF PutError
                <4>3. QED BY <4>1, <4>2
            <3>4. CASE Admission(puts[call.target], call.request) \notin PutError
                BY <3>1, <3>2, <3>4 DEF ReceivePut, Listeners
            <3>5. QED BY <3>3, <3>4
        <2>2. CASE call.op = "get"
            <3>1. ReceiveGet(c, call)
                BY <2>2 DEF Receive
            <3>2. call.target \in Target
                BY <1>3, <2>2, CallTypes, GetsAssumption DEF GetCall
            <3>3. QED BY <3>1, <3>2 DEF ReceiveGet
        <2>3. CASE call.op # "put" /\ call.op # "get"
            BY <2>3, AnswersAreAnswers DEF Receive, ReceiveInfo, senderVars
        <2>4. QED BY <2>1, <2>2, <2>3
    <1> HIDE DEF c, call
    <1>8. CASE \E t \in Target :
                /\ getSenders' = [getSenders EXCEPT ![t] = @ \cup {c}]
                /\ UNCHANGED <<putSenders, replies>>
        <2>1. PICK t \in Target :
                /\ getSenders' = [getSenders EXCEPT ![t] = @ \cup {c}]
                /\ UNCHANGED <<putSenders, replies>>
            BY <1>8
        <2>2. \A u \in Target : getSenders'[u] = IF u = t THEN getSenders[u] \cup {c}
                                                          ELSE getSenders[u]
            BY <2>1 DEF CallerInv, TypeOK
        <2>3. \A d \in Client :
                 Blocked(d)' <=> \/ d \in Mailed'
                                 \/ \E u \in Target : d \in getSenders'[u] \cup putSenders'[u]
            <3>1. SUFFICES ASSUME NEW d \in Client
                           PROVE  Blocked(d)' <=>
                                    \/ d \in Mailed'
                                    \/ \E u \in Target : d \in getSenders'[u] \cup putSenders'[u]
                OBVIOUS
            <3>2. Blocked(d)' <=> Blocked(d)
                BY <1>1, <2>1 DEF Blocked
            <3>3. CASE d = c
                BY <1>6, <2>2, <3>2, <3>3
            <3>4. CASE d # c
                <4>1. \A u \in Target : d \in getSenders'[u] \cup putSenders'[u]
                                          <=> d \in getSenders[u] \cup putSenders[u]
                    BY <2>1, <2>2, <3>4
                <4>2. d \in Mailed' <=> d \in Mailed
                    BY <1>4, <3>4
                <4>3. QED BY <3>2, <4>1, <4>2 DEF CallerInv, NoCallerForgotten
            <3>5. QED BY <3>3, <3>4
        <2>4. QED
            BY <1>1, <1>4, <1>5, <1>6, <2>1, <2>2, <2>3
            DEF CallerInv, NoCallerForgotten, IdleUnanswered
    <1>9. CASE \E t \in Target :
                /\ putSenders' = [putSenders EXCEPT ![t] = @ \cup {c}]
                /\ UNCHANGED <<getSenders, replies>>
        <2>1. PICK t \in Target :
                /\ putSenders' = [putSenders EXCEPT ![t] = @ \cup {c}]
                /\ UNCHANGED <<getSenders, replies>>
            BY <1>9
        <2>2. \A u \in Target : putSenders'[u] = IF u = t THEN putSenders[u] \cup {c}
                                                          ELSE putSenders[u]
            BY <2>1 DEF CallerInv, TypeOK
        <2>3. \A d \in Client :
                 Blocked(d)' <=> \/ d \in Mailed'
                                 \/ \E u \in Target : d \in getSenders'[u] \cup putSenders'[u]
            <3>1. SUFFICES ASSUME NEW d \in Client
                           PROVE  Blocked(d)' <=>
                                    \/ d \in Mailed'
                                    \/ \E u \in Target : d \in getSenders'[u] \cup putSenders'[u]
                OBVIOUS
            <3>2. Blocked(d)' <=> Blocked(d)
                BY <1>1, <2>1 DEF Blocked
            <3>3. CASE d = c
                BY <1>6, <2>2, <3>2, <3>3
            <3>4. CASE d # c
                <4>1. \A u \in Target : d \in getSenders'[u] \cup putSenders'[u]
                                          <=> d \in getSenders[u] \cup putSenders[u]
                    BY <2>1, <2>2, <3>4
                <4>2. d \in Mailed' <=> d \in Mailed
                    BY <1>4, <3>4
                <4>3. QED BY <3>2, <4>1, <4>2 DEF CallerInv, NoCallerForgotten
            <3>5. QED BY <3>3, <3>4
        <2>4. QED
            BY <1>1, <1>4, <1>5, <1>6, <2>1, <2>2, <2>3
            DEF CallerInv, NoCallerForgotten, IdleUnanswered
    <1>10. CASE \E r : /\ r # NoReply
                       /\ replies' = [replies EXCEPT ![c] = r]
                       /\ UNCHANGED <<getSenders, putSenders>>
        <2>1. PICK r : /\ r # NoReply
                       /\ replies' = [replies EXCEPT ![c] = r]
                       /\ UNCHANGED <<getSenders, putSenders>>
            BY <1>10
        <2>2. \A d \in Client : replies'[d] = IF d = c THEN r ELSE replies[d]
            BY <2>1 DEF CallerInv, TypeOK
        <2>3. \A d \in Client :
                 Blocked(d)' <=> \/ d \in Mailed'
                                 \/ \E u \in Target : d \in getSenders'[u] \cup putSenders'[u]
            BY <1>1, <1>4, <1>6, <2>1, <2>2 DEF CallerInv, NoCallerForgotten, Blocked
        <2>4. QED
            BY <1>1, <1>4, <1>5, <1>6, <2>1, <2>2, <2>3
            DEF CallerInv, NoCallerForgotten, IdleUnanswered
    <1>11. QED BY <1>7, <1>8, <1>9, <1>10

\* The report answers those who listen to what has ended, and no one else.
LEMMA ReportKeepsCallers ==
    ASSUME CallerInv, Report
    PROVE  NoCallerForgotten' /\ IdleUnanswered'
    <1>1. /\ UNCHANGED <<mailbox, calls>>
          /\ replies' = [c \in Client |-> ReplyTo(c)]
          /\ getSenders' = [t \in Target |-> IF doneGets[t].ready THEN {} ELSE getSenders[t]]
          /\ putSenders' = [t \in Target |->
                              IF donePuts[t] # "pending" THEN {} ELSE putSenders[t]]
        BY DEF Report
    <1>2. Mailed' = Mailed
        BY <1>1 DEF Mailed
    <1>3. ASSUME NEW c \in Client
          PROVE  /\ EndedGet(c) \cup EndedPut(c) # {} => replies'[c] # NoReply
                 /\ EndedGet(c) \cup EndedPut(c) = {} => replies'[c] = replies[c]
        <2>1. CASE EndedGet(c) # {}
            BY <1>1, <2>1 DEF ReplyTo, Plain, NoReply
        <2>2. CASE EndedGet(c) = {} /\ EndedPut(c) # {}
            <3>1. PICK t \in EndedPut(c) : ReplyTo(c) = Plain(donePuts[t])
                BY <2>2 DEF ReplyTo
            <3>2. donePuts[t] # "none"
                BY <3>1 DEF EndedPut, CallerInv, TypeOK, PutResult, PutError
            <3>3. QED BY <1>1, <2>2, <3>1, <3>2, AnswersAreAnswers
        <2>3. CASE EndedGet(c) = {} /\ EndedPut(c) = {}
            BY <1>1, <2>3 DEF ReplyTo
        <2>4. QED BY <2>1, <2>2, <2>3
    <1>4. ASSUME NEW c \in Client, EndedGet(c) \cup EndedPut(c) # {}
          PROVE  /\ calls[c] # NoCall
                 /\ c \notin Mailed
                 /\ \A t \in Target : c \notin getSenders'[t] \cup putSenders'[t]
        <2>1. Blocked(c) /\ c \notin Mailed
            BY <1>4 DEF EndedGet, EndedPut, CallerInv, NoCallerForgotten
        <2>2. \A t \in Target : c \notin getSenders'[t] \cup putSenders'[t]
            BY <1>1, <1>4 DEF EndedGet, EndedPut, CallerInv, NoCallerForgotten
        <2>3. QED BY <2>1, <2>2 DEF Blocked
    <1>5. ASSUME NEW c \in Client, EndedGet(c) \cup EndedPut(c) = {}
          PROVE  \A t \in Target :
                    c \in getSenders'[t] \cup putSenders'[t]
                        <=> c \in getSenders[t] \cup putSenders[t]
        BY <1>1, <1>5 DEF EndedGet, EndedPut
    <1>6. \A c \in Client :
             Blocked(c)' <=> \/ c \in Mailed'
                             \/ \E t \in Target : c \in getSenders'[t] \cup putSenders'[t]
        BY <1>1, <1>2, <1>3, <1>4, <1>5 DEF Blocked, CallerInv, NoCallerForgotten
    <1>7. \A t \in Target : getSenders'[t] \subseteq getSenders[t]
                            /\ putSenders'[t] \subseteq putSenders[t]
        BY <1>1
    <1>8. NoCallerForgotten'
        BY <1>1, <1>2, <1>6, <1>7 DEF CallerInv, NoCallerForgotten
    <1>9. IdleUnanswered'
        BY <1>1, <1>3, <1>4 DEF CallerInv, IdleUnanswered
    <1>10. QED BY <1>8, <1>9

\* Every other step leaves the callers and the channels alone.
LEMMA QuietKeepsCallers ==
    ASSUME CallerInv, UNCHANGED <<mailbox, getSenders, putSenders, calls, replies>>
    PROVE  NoCallerForgotten' /\ IdleUnanswered'
    BY DEF CallerInv, NoCallerForgotten, IdleUnanswered, Blocked, Mailed

LEMMA CallerStep == CallerInv /\ [Next]_vars => CallerInv'
    <1> SUFFICES ASSUME CallerInv, [Next]_vars PROVE CallerInv'
        OBVIOUS
    <1>1. TypeOK'
        BY StepTypes DEF CallerInv
    <1> SUFFICES NoCallerForgotten' /\ IdleUnanswered'
        BY <1>1 DEF CallerInv
    <1>2. CASE Receive
        BY <1>2, ReceiveKeepsCallers
    <1>3. CASE Report
        BY <1>3, ReportKeepsCallers
    <1>4. CASE ReceiveNothing \/ TickPuts \/ TickGets \/ Maintain \/ UNCHANGED vars
        BY <1>4, QuietKeepsCallers
        DEF ReceiveNothing, TickPuts, TickGets, Maintain, vars, senderVars, callerVars
    <1>5. CASE Message
        BY <1>5, QuietKeepsCallers
        DEF Message, NoMessage, LookupAnswer, PutAnswer, senderVars, callerVars
    <1>6. CASE Clock
        BY <1>6, QuietKeepsCallers
        DEF Clock, ExpireLookup, ExpirePut, CacheAges, senderVars, callerVars
    <1>7. ASSUME NEW c \in Client, Return(c)
          PROVE  NoCallerForgotten' /\ IdleUnanswered'
        <2>1. /\ replies[c] # NoReply
              /\ calls' = [calls EXCEPT ![c] = NoCall]
              /\ replies' = [replies EXCEPT ![c] = NoReply]
              /\ UNCHANGED <<mailbox, getSenders, putSenders>>
            BY <1>7 DEF Return, senderVars
        <2>2. /\ calls'[c] = NoCall /\ replies'[c] = NoReply
              /\ \A d \in Client : d # c => calls'[d] = calls[d] /\ replies'[d] = replies[d]
            BY <2>1 DEF CallerInv, TypeOK
        <2>3. \A d \in Client : Blocked(d)' <=> Blocked(d)
            BY <2>1, <2>2 DEF Blocked
        <2>4. Mailed' = Mailed
            BY <2>1 DEF Mailed
        <2>5. QED BY <2>1, <2>2, <2>3, <2>4 DEF CallerInv, NoCallerForgotten, IdleUnanswered
    <1>8. CASE \E c \in Client, call \in Calls : Call(c, call)
        BY <1>8, CallKeepsCallers
    <1>9. QED BY <1>2, <1>3, <1>4, <1>5, <1>6, <1>7, <1>8 DEF Next, Actor, Callers

\* A thread in a call waits in exactly one place until it is answered, and a
\* thread that is answered waits in none.
THEOREM CallersAreKept == Spec => []NoCallerForgotten
    <1>1. Init => CallerInv
        <2> SUFFICES ASSUME Init PROVE NoCallerForgotten /\ IdleUnanswered
            BY InitTypes DEF CallerInv
        <2>1. mailbox = <<>> /\ DOMAIN mailbox = {}
            BY DEF Init
        <2>2. Mailed = {}
            BY <2>1 DEF Mailed
        <2>3. QED BY <2>1, <2>2 DEF Init, NoCallerForgotten, IdleUnanswered, Blocked
    <1>2. CallerInv => NoCallerForgotten
        BY DEF CallerInv
    <1>3. QED BY <1>1, <1>2, CallerStep, PTL DEF Spec

\* dht.rs: the actor owes nobody an answer it does not hold a channel for, and holds no
\* channel that no report will serve.
THEOREM CallersServed == Spec => []CallersAreServed
    <1>1. SendersHaveQuery /\ NoCallerForgotten => CallersAreServed
        BY DEF CallersAreServed
    <1>2. QED BY <1>1, SendersAreServed, CallersAreKept, PTL

-----------------------------------------------------------------------------
(* Which call a client that waits is in. *)

\* A message is about the call its client is in; who waits for a put is in a
\* put, who listens to a lookup in a get; an answer is not blank.
MailFits ==
    /\ \A i \in DOMAIN mailbox : calls[mailbox[i].client] = mailbox[i].call
    /\ \A t \in Target : /\ \A c \in putSenders[t] : calls[c].op = "put"
                         /\ \A c \in getSenders[t] : calls[c].op = "get"
    /\ \A c \in Client : replies[c].what = "none" => replies[c] = NoReply

MailInv == SenderInv /\ CallerInv /\ MailFits

\* The mail, and who waits, when the loop takes a message.
LEMMA ReceiveKeepsMail ==
    ASSUME MailInv, Receive
    PROVE  MailFits'
    <1> DEFINE c == Head(mailbox).client
               call == Head(mailbox).call
    <1>1. /\ TypeOK /\ mailbox # <<>> /\ mailbox' = Tail(mailbox) /\ calls' = calls
          /\ MailFits
        BY DEF Receive, MailInv, SenderInv
    <1>2. c \in Client /\ call \in Calls
        BY <1>1, MailTypes
    <1>3. /\ mailbox \in Seq([client : Client, call : Calls])
          /\ Len(mailbox) \in Nat /\ Len(mailbox) # 0
          /\ DOMAIN mailbox = 1 .. Len(mailbox) /\ Head(mailbox) = mailbox[1]
        BY <1>1 DEF TypeOK
    <1>4. \A i \in DOMAIN mailbox' : i + 1 \in DOMAIN mailbox /\ mailbox'[i] = mailbox[i + 1]
        BY <1>1, <1>3, HeadTailProperties
    <1>5. \A i \in DOMAIN mailbox' : calls'[mailbox'[i].client] = mailbox'[i].call
        BY <1>1, <1>4 DEF MailFits
    <1>6. calls[c] = call
        BY <1>1, <1>3 DEF MailFits
    <1> HIDE DEF c, call
    <1>7. CASE call.op = "put"
        <2>1. ReceivePut(c, call)
            BY <1>7 DEF Receive, c, call
        <2>2. call.target \in Target /\ call.request \in PutRequest
            BY <1>2, <1>7, CallTypes, PutsAssumption DEF PutCall
        <2> DEFINE verdict == Admission(puts[call.target], call.request)
        <2>3. /\ getSenders' = getSenders
              /\ \/ putSenders' = putSenders
                 \/ putSenders' = [putSenders EXCEPT ![call.target] = @ \cup {c}]
              /\ replies' = replies \/ replies' = [replies EXCEPT ![c] = Plain(verdict)]
              /\ replies' # replies => verdict \in PutError
            BY <2>1 DEF ReceivePut, Listeners
        <2> HIDE DEF verdict
        <2>4. \A d \in Client : replies'[d].what = "none" => replies'[d] = NoReply
            <3>1. CASE replies' = replies
                BY <1>1, <3>1 DEF MailFits
            <3>2. CASE replies' # replies
                <4>1. \A d \in Client : replies'[d] = IF d = c THEN Plain(verdict)
                                                              ELSE replies[d]
                    BY <1>1, <2>3, <3>2 DEF TypeOK
                <4>2. Plain(verdict).what # "none"
                    BY <2>3, <3>2 DEF Plain, PutError
                <4>3. QED BY <1>1, <4>1, <4>2 DEF MailFits
            <3>3. QED BY <3>1, <3>2
        <2>5. \A t \in Target : \A d \in putSenders'[t] : d \in putSenders[t] \/ d = c
            <3>1. putSenders \in [Target -> SUBSET Client]
                BY <1>1 DEF TypeOK
            <3>2. QED BY <2>3, <3>1
        <2>6. QED BY <1>1, <1>5, <1>6, <1>7, <2>3, <2>4, <2>5 DEF MailFits
    <1>8. CASE call.op = "get"
        <2>1. ReceiveGet(c, call)
            BY <1>8 DEF Receive, c, call
        <2>2. /\ getSenders' = [getSenders EXCEPT ![call.target] = @ \cup {c}]
              /\ UNCHANGED <<putSenders, replies>>
            BY <2>1 DEF ReceiveGet
        <2>3. \A t \in Target : \A d \in getSenders'[t] : d \in getSenders[t] \/ d = c
            BY <1>1, <2>2 DEF TypeOK
        <2>4. QED BY <1>1, <1>5, <1>6, <1>8, <2>2, <2>3 DEF MailFits
    <1>9. CASE call.op \notin {"put", "get"}
        <2>1. ReceiveInfo(c)
            BY <1>9 DEF Receive, c, call
        <2>2. /\ replies' = [replies EXCEPT ![c] = Plain("info")]
              /\ UNCHANGED <<getSenders, putSenders>>
            BY <2>1 DEF ReceiveInfo, senderVars
        <2>3. \A d \in Client : replies'[d].what = "none" => replies'[d] = NoReply
            BY <1>1, <2>2 DEF MailFits, TypeOK, Plain
        <2>4. QED BY <1>1, <1>5, <2>2, <2>3 DEF MailFits
    <1>10. QED BY <1>7, <1>8, <1>9

\* A client without a message is not the client of one.
LEMMA MailIsOfOthers ==
    ASSUME TypeOK, NEW c, c \notin Mailed
    PROVE  \A i \in DOMAIN mailbox : mailbox[i].client \in Client \ {c}
    <1> SUFFICES ASSUME NEW i \in DOMAIN mailbox
                 PROVE  mailbox[i].client \in Client \ {c}
        OBVIOUS
    <1>1. mailbox \in Seq([client : Client, call : Calls])
        BY DEF TypeOK
    <1>2. mailbox[i] \in [client : Client, call : Calls]
        BY <1>1, ElementOfSeq, LenProperties
    <1>3. mailbox[i].client \in Mailed
        BY DEF Mailed
    <1>4. QED BY <1>2, <1>3

\* The mail when a client calls.
LEMMA CallKeepsMail ==
    ASSUME MailInv, NEW c \in Client, NEW call \in Calls, Call(c, call)
    PROVE  MailFits'
    <1> DEFINE m == [client |-> c, call |-> call]
    <1>1. /\ calls[c] = NoCall
          /\ calls' = [calls EXCEPT ![c] = call]
          /\ mailbox' = Append(mailbox, m)
          /\ UNCHANGED <<getSenders, putSenders, replies>>
          /\ TypeOK /\ MailFits /\ NoCallerForgotten
        BY DEF Call, senderVars, MailInv, SenderInv, CallerInv
    <1>2. /\ mailbox \in Seq([client : Client, call : Calls])
          /\ m \in [client : Client, call : Calls]
        BY <1>1 DEF TypeOK
    <1>3. /\ DOMAIN mailbox = 1 .. Len(mailbox) /\ Len(mailbox) \in Nat
          /\ DOMAIN mailbox' = 1 .. Len(mailbox) + 1
          /\ \A i \in 1 .. Len(mailbox) : mailbox'[i] = mailbox[i]
          /\ mailbox'[Len(mailbox) + 1] = m
        BY <1>1, <1>2, AppendProperties, LenProperties
    <1>4. m.client = c /\ m.call = call
        OBVIOUS
    <1> HIDE DEF m
    <1>5. /\ c \notin Mailed
          /\ \A t \in Target : c \notin getSenders[t] \cup putSenders[t]
        BY <1>1 DEF NoCallerForgotten, Blocked
    <1>6. \A d \in Client : calls'[d] = IF d = c THEN call ELSE calls[d]
        BY <1>1 DEF TypeOK
    <1>7. \A i \in DOMAIN mailbox : mailbox[i].client \in Client \ {c}
        BY <1>1, <1>5, MailIsOfOthers
    <1>8. \A i \in DOMAIN mailbox' : calls'[mailbox'[i].client] = mailbox'[i].call
        BY <1>1, <1>3, <1>4, <1>6, <1>7 DEF MailFits
    <1>9. \A t \in Target : getSenders[t] \subseteq Client \ {c}
                            /\ putSenders[t] \subseteq Client \ {c}
        BY <1>1, <1>5 DEF TypeOK
    <1>10. QED BY <1>1, <1>6, <1>8, <1>9 DEF MailFits

\* The mail when the method of c returns.
LEMMA ReturnKeepsMail ==
    ASSUME MailInv, NEW c \in Client, Return(c)
    PROVE  MailFits'
    <1>1. /\ replies[c] # NoReply
          /\ calls' = [calls EXCEPT ![c] = NoCall]
          /\ replies' = [replies EXCEPT ![c] = NoReply]
          /\ UNCHANGED <<mailbox, getSenders, putSenders>>
          /\ TypeOK /\ MailFits /\ NoCallerForgotten
        BY DEF Return, senderVars, MailInv, SenderInv, CallerInv
    <1>2. /\ c \notin Mailed
          /\ \A t \in Target : c \notin getSenders[t] \cup putSenders[t]
        BY <1>1 DEF NoCallerForgotten, Blocked
    <1>3. \A d \in Client : d # c => calls'[d] = calls[d] /\ replies'[d] = replies[d]
        BY <1>1 DEF TypeOK
    <1>5. \A i \in DOMAIN mailbox : mailbox[i].client \in Client \ {c}
        BY <1>1, <1>2, MailIsOfOthers
    <1>6. \A t \in Target : getSenders[t] \subseteq Client \ {c}
                            /\ putSenders[t] \subseteq Client \ {c}
        BY <1>1, <1>2 DEF TypeOK
    <1>7. replies'[c] = NoReply
        BY <1>1 DEF TypeOK
    <1>8. QED BY <1>1, <1>3, <1>5, <1>6, <1>7 DEF MailFits

\* The answer the report gives to c, if c stores something.
LEMMA ReportTells ==
    ASSUME MailInv, NEW c \in Client, calls[c].op = "put"
    PROVE  /\ EndedGet(c) = {}
           /\ \A t \in EndedPut(c) : ReplyTo(c) = Plain(donePuts[t])
           /\ EndedPut(c) = {} => ReplyTo(c) = replies[c]
    <1>1. EndedGet(c) = {}
        BY DEF MailInv, MailFits, EndedGet
    <1>2. \A t, u \in EndedPut(c) : t = u
        BY DEF MailInv, CallerInv, NoCallerForgotten, EndedPut
    <1>3. QED BY <1>1, <1>2 DEF ReplyTo

LEMMA ReportKeepsMail ==
    ASSUME MailInv, Report
    PROVE  MailFits'
    <1>1. /\ UNCHANGED <<mailbox, calls>>
          /\ replies' = [c \in Client |-> ReplyTo(c)]
          /\ getSenders' = [t \in Target |-> IF doneGets[t].ready THEN {} ELSE getSenders[t]]
          /\ putSenders' = [t \in Target |->
                              IF donePuts[t] # "pending" THEN {} ELSE putSenders[t]]
          /\ TypeOK /\ MailFits
        BY DEF Report, MailInv, SenderInv
    <1>2. ASSUME NEW c \in Client, replies'[c].what = "none"
          PROVE  replies'[c] = NoReply
        <2>1. CASE EndedGet(c) # {}
            BY <1>1, <1>2, <2>1 DEF ReplyTo, Plain
        <2>2. CASE EndedGet(c) = {} /\ EndedPut(c) # {}
            <3>1. PICK t \in EndedPut(c) : ReplyTo(c) = Plain(donePuts[t])
                BY <2>2 DEF ReplyTo
            <3>2. donePuts[t] # "none"
                BY <1>1, <3>1 DEF EndedPut, TypeOK, PutResult, PutError
            <3>3. QED BY <1>1, <1>2, <3>1, <3>2 DEF Plain
        <2>3. CASE EndedGet(c) = {} /\ EndedPut(c) = {}
            BY <1>1, <1>2, <2>3 DEF ReplyTo, MailFits
        <2>4. QED BY <2>1, <2>2, <2>3
    <1>3. \A t \in Target : getSenders'[t] \subseteq getSenders[t]
                            /\ putSenders'[t] \subseteq putSenders[t]
        BY <1>1
    <1>4. QED BY <1>1, <1>2, <1>3 DEF MailFits

LEMMA MailStep == MailInv /\ [Next]_vars => MailFits'
    <1> SUFFICES ASSUME MailInv, [Next]_vars PROVE MailFits'
        OBVIOUS
    <1>1. ASSUME UNCHANGED <<mailbox, getSenders, putSenders, calls, replies>>
          PROVE  MailFits'
        BY <1>1 DEF MailInv, MailFits
    <1>2. CASE ReceiveNothing \/ TickPuts \/ TickGets \/ Maintain \/ UNCHANGED vars
        BY <1>1, <1>2
        DEF ReceiveNothing, TickPuts, TickGets, Maintain, vars, senderVars, callerVars
    <1>3. CASE Message
        BY <1>1, <1>3
        DEF Message, NoMessage, LookupAnswer, PutAnswer, senderVars, callerVars
    <1>4. CASE Clock
        BY <1>1, <1>4 DEF Clock, ExpireLookup, ExpirePut, CacheAges, senderVars, callerVars
    <1>5. QED
        BY <1>2, <1>3, <1>4, ReceiveKeepsMail, CallKeepsMail, ReturnKeepsMail, ReportKeepsMail
        DEF Next, Actor, Callers

LEMMA MailInvHolds == Spec => []MailInv
    <1>1. Init => MailInv
        <2> SUFFICES ASSUME Init PROVE MailInv
            OBVIOUS
        <2>1. TypeOK
            BY InitTypes
        <2>2. SenderInv
            BY <2>1 DEF Init, SenderInv, ReportEmpty, SendersHaveQuery, NoResult
        <2>3. mailbox = <<>> /\ DOMAIN mailbox = {}
            BY DEF Init
        <2>4. Mailed = {}
            BY <2>3 DEF Mailed
        <2>5. CallerInv
            BY <2>1, <2>3, <2>4 DEF Init, CallerInv, NoCallerForgotten, IdleUnanswered, Blocked
        <2>6. MailFits
            BY <2>3 DEF Init, MailFits
        <2>7. QED BY <2>2, <2>5, <2>6 DEF MailInv
    <1>2. MailInv /\ [Next]_vars => MailInv'
        <2> SUFFICES ASSUME MailInv, [Next]_vars PROVE MailInv'
            OBVIOUS
        <2>1. SenderInv' /\ CallerInv'
            BY SenderStep, CallerStep DEF MailInv
        <2>2. QED BY <2>1, MailStep DEF MailInv
    <1>3. QED BY <1>1, <1>2, PTL DEF Spec

-----------------------------------------------------------------------------
(* Lookups end exhausted. *)

\* A lookup of which nothing is in flight after a visit has visited nobody new.
LEMMA NothingVisited ==
    ASSUME NEW lookup \in Lookup, LookupDone(VisitClosest(lookup))
    PROVE  /\ lookup.flying = {}
           /\ Nearest(K, lookup.closest) \subseteq lookup.visited
    <1> DEFINE fresh == Nearest(K, lookup.closest) \ lookup.visited
    <1>1. VisitClosest(lookup).flying = lookup.flying \cup (fresh \X {"query", "ping"})
        BY DEF VisitClosest, Visit, Lookup
    <1>2. lookup.flying = {} /\ fresh \X {"query", "ping"} = {}
        BY <1>1 DEF LookupDone
    <1>3. \A n \in fresh : <<n, "query">> \in fresh \X {"query", "ping"}
        OBVIOUS
    <1>4. fresh = {}
        BY <1>2, <1>3
    <1>5. QED BY <1>2, <1>4

\* Only the clean-up of the tick takes a lookup out of the map.
LEMMA OthersKeepLookups ==
    ASSUME TypeOK, [Next]_vars, ~TickGets, NEW t \in Target, Active(t)
    PROVE  lookups'[t].kind # "none"
    <1>1. /\ lookups[t].kind # "none"
          /\ lookups \in [Target -> Lookup]
        BY DEF Active, TypeOK
    <1>2. ASSUME UNCHANGED lookups PROVE lookups'[t].kind # "none"
        BY <1>1, <1>2
    <1>3. CASE \/ ReceiveNothing \/ TickPuts \/ NoMessage \/ Report \/ Callers
               \/ \E u \in Target, s \in Sends : PutAnswer(u, s) \/ ExpirePut(u, s)
               \/ \E u \in Target : CacheAges(u)
               \/ UNCHANGED vars
        BY <1>2, <1>3
        DEF ReceiveNothing, TickPuts, NoMessage, Report, Callers, Call, Return, PutAnswer,
            ExpirePut, CacheAges, vars, rpcVars
    <1>4. ASSUME NEW u \in Target, NEW kind \in LookupKind, NEW seeds \in SUBSET Node,
                 lookups' = [lookups EXCEPT ![u] = LookupAfterGet(u, kind, seeds)]
          PROVE  lookups'[t].kind # "none"
        BY <1>1, <1>4, GetTypes
    <1>5. CASE Receive
        <2> DEFINE call == Head(mailbox).call
        <2>1. call \in Calls
            BY <1>5, MailTypes DEF Receive
        <2>2. CASE call.op = "put"
            <3>1. call.target \in Target /\ call.request \in PutRequest
                BY <2>1, <2>2, CallTypes, PutsAssumption DEF PutCall
            <3>2. AdmitPut(call.target, call.request) \/ UNCHANGED lookups
                BY <1>5, <2>2 DEF Receive, ReceivePut
            <3>3. CASE AdmitPut(call.target, call.request)
                BY <1>1, <3>1, <3>3, AdmitTypes DEF Active
            <3>4. QED BY <1>2, <3>2, <3>3
        <2>3. CASE call.op = "get"
            <3>1. call.target \in Target /\ call.kind \in LookupKind
                BY <2>1, <2>3, CallTypes, GetsAssumption DEF GetCall
            <3>2. \E seeds \in SUBSET Node : lookups' =
                     [lookups EXCEPT ![call.target] =
                        LookupAfterGet(call.target, call.kind, seeds)]
                BY <1>5, <2>3 DEF Receive, ReceiveGet
            <3>3. QED BY <1>4, <3>1, <3>2
        <2>4. CASE call.op \notin {"put", "get"}
            BY <1>2, <1>5, <2>4 DEF Receive, ReceiveInfo, rpcVars
        <2>5. QED BY <2>2, <2>3, <2>4
    <1>6. CASE Maintain
        BY <1>2, <1>4, <1>6, OwnIdsAssumption DEF Maintain, LookupKind
    <1>7. ASSUME NEW u \in Target, NEW r,
                 lookups' = [lookups EXCEPT ![u] = Settle(@, r)]
          PROVE  lookups'[t].kind # "none"
        BY <1>1, <1>7, SettleTypes
    <1>8. ASSUME NEW u \in Target, NEW r \in Requests, LookupAnswer(u, r)
          PROVE  lookups'[t].kind # "none"
        <2>1. PICK nodes \in SUBSET Node, hasToken \in BOOLEAN, types \in SUBSET ValueType :
                  lookups' = [lookups EXCEPT ![u] = Answered(@, r, nodes, hasToken, types)]
            BY <1>8, AnswerChoices
        <2>2. Answered(lookups[u], r, nodes, hasToken, types).kind = lookups[u].kind
            BY <1>1, AnsweredTypes
        <2>3. QED BY <1>1, <2>1, <2>2
    <1>9. QED
        BY <1>3, <1>5, <1>6, <1>7, <1>8
        DEF Next, Actor, Message, Clock, ExpireLookup

\* query.rs and rpc.rs, tick_get_queries: a lookup ends only when nothing of it is in
\* flight and each of the closest candidates it knows has been asked.
THEOREM LookupsExhausted == Spec => LookupsEndExhausted
    <1> DEFINE Ends(t) == Active(t) /\ lookups'[t].kind = "none" =>
                             /\ lookups[t].flying = {}
                             /\ Nearest(K, lookups[t].closest) \subseteq lookups[t].visited
    <1>1. ASSUME TypeOK, [Next]_vars, NEW t \in Target
          PROVE  Ends(t)
        <2> SUFFICES ASSUME Active(t), lookups'[t].kind = "none"
                     PROVE  /\ lookups[t].flying = {}
                            /\ Nearest(K, lookups[t].closest) \subseteq lookups[t].visited
            OBVIOUS
        <2>1. TickGets
            BY <1>1, OthersKeepLookups
        <2>2. PICK result \in [Finished -> [nodes : SUBSET Node, tokens : SUBSET Node]],
                   evicted \in SUBSET Target : CleanUp(result, evicted)
            BY <1>1, <2>1, TickGetsCleansUp
        <2>3. t \in Finished
            BY <1>1, <2>2, TickedTypes DEF CleanUp, Active
        <2>4. LookupDone(VisitClosest(lookups[t]))
            BY <2>3 DEF Finished, Ticked
        <2>5. lookups[t] \in Lookup
            BY <1>1 DEF TypeOK
        <2>6. QED BY <2>4, <2>5, NothingVisited
    <1>2. TypeOK /\ [Next]_vars => [\A t \in Target : Ends(t)]_vars
        BY <1>1
    <1>3. QED BY <1>2, TypeCorrect, PTL DEF Spec, LookupsEndExhausted

-----------------------------------------------------------------------------
(* Nobody is asked twice. *)

\* What a lookup was and what it is a step later.  It knows what it knew; who is asked was
\* not asked before; who has newly answered was asked, and is no longer waited for.
Advances(old, new) ==
    /\ new.kind = old.kind
    /\ old.closest \subseteq new.closest /\ old.visited \subseteq new.visited
    /\ old.responders \subseteq new.responders /\ old.values \subseteq new.values
    /\ \A n \in Node, what \in {"query", "ping"} :
          <<n, what>> \in new.flying \ old.flying => n \in new.visited \ old.visited
    /\ \A n \in new.responders \ old.responders :
          \E what \in {"query", "ping"} : <<n, what>> \in old.flying \ new.flying
    /\ \A v \in new.values \ old.values : v[1] \in old.flying \ new.flying

\* iterative_query.rs, visit: as long as a lookup is in the map its kind stays, whoever
\* else asks for its target, and no node gets its request a second time: the answers it
\* counts are answers of nodes that were asked once.
NobodyAskedTwice ==
    [][\A t \in Target : Active(t) /\ Active(t)' => Advances(lookups[t], lookups'[t])]_vars

LEMMA VisitAdvances ==
    ASSUME NEW lookup \in Lookup
    PROVE  Advances(lookup, VisitClosest(lookup)) /\ Advances(lookup, lookup)
    <1> DEFINE new == Nearest(K, lookup.closest) \ lookup.visited
    <1>1. VisitClosest(lookup)
             = [lookup EXCEPT !.visited = @ \cup new, !.flying = @ \cup (new \X {"query", "ping"})]
        BY DEF VisitClosest, Visit
    <1>2. new \cap lookup.visited = {}
        OBVIOUS
    <1> HIDE DEF new
    <1>3. /\ VisitClosest(lookup).kind = lookup.kind
          /\ VisitClosest(lookup).closest = lookup.closest
          /\ VisitClosest(lookup).visited = lookup.visited \cup new
          /\ VisitClosest(lookup).flying = lookup.flying \cup (new \X {"query", "ping"})
          /\ VisitClosest(lookup).responders = lookup.responders
          /\ VisitClosest(lookup).values = lookup.values
        BY <1>1 DEF Lookup
    <1>4. \A n, what : <<n, what>> \in new \X {"query", "ping"} => n \in new
        OBVIOUS
    <1>5. QED BY <1>2, <1>3, <1>4 DEF Advances

LEMMA SettleAdvances ==
    ASSUME NEW lookup \in Lookup, NEW r
    PROVE  Advances(lookup, Settle(lookup, r))
    BY DEF Advances, Settle, Lookup

LEMMA AnsweredAdvances ==
    ASSUME NEW lookup \in Lookup, NEW r \in Requests, NEW nodes, NEW hasToken, NEW types,
           r \in lookup.flying
    PROVE  Advances(lookup, Answered(lookup, r, nodes, hasToken, types))
    <1> DEFINE after == Answered(lookup, r, nodes, hasToken, types)
    <1>1. /\ after.kind = lookup.kind /\ after.visited = lookup.visited
          /\ after.closest = lookup.closest \cup nodes
          /\ after.flying = lookup.flying \ {r}
          /\ lookup.responders \subseteq after.responders
          /\ after.responders \subseteq lookup.responders \cup {r[1]}
          /\ after.values = lookup.values \cup ({r} \X types)
        BY DEF Answered, Settle, Lookup
    <1> HIDE DEF after
    <1>2. PICK n \in Node, what \in {"query", "ping"} : r = <<n, what>>
        BY DEF Requests
    <1>3. \A m \in after.responders \ lookup.responders : m = n
        BY <1>1, <1>2
    <1>4. \A v \in after.values \ lookup.values : v[1] = r
        BY <1>1
    <1>5. Advances(lookup, after)
        BY <1>1, <1>2, <1>3, <1>4 DEF Advances
    <1>6. QED BY <1>5 DEF after

THEOREM NodesAreAskedOnce == Spec => NobodyAskedTwice
    <1>1. ASSUME TypeOK, [Next]_vars, NEW t \in Target, Active(t), Active(t)'
          PROVE  Advances(lookups[t], lookups'[t])
        <2>1. /\ lookups \in [Target -> Lookup] /\ lookups[t] \in Lookup
              /\ lookups[t].kind # "none" /\ lookups'[t].kind # "none"
            BY <1>1 DEF Active, TypeOK
        <2>2. ASSUME lookups'[t] = lookups[t] PROVE Advances(lookups[t], lookups'[t])
            BY <2>1, <2>2, VisitAdvances
        <2>3. CASE \/ ReceiveNothing \/ TickPuts \/ NoMessage \/ Report \/ Callers
                   \/ \E u \in Target, s \in Sends : PutAnswer(u, s) \/ ExpirePut(u, s)
                   \/ \E u \in Target : CacheAges(u)
                   \/ UNCHANGED vars
            BY <2>2, <2>3
            DEF ReceiveNothing, TickPuts, NoMessage, Report, Callers, Call, Return, PutAnswer,
                ExpirePut, CacheAges, vars, rpcVars
        <2>4. ASSUME NEW u, NEW kind, NEW seeds,
                     lookups' = [lookups EXCEPT ![u] = LookupAfterGet(u, kind, seeds)]
              PROVE  lookups'[t] = lookups[t]
            <3>1. LookupAfterGet(t, kind, seeds) = lookups[t]
                BY <1>1 DEF LookupAfterGet
            <3>2. QED BY <2>1, <2>4, <3>1
        <2>5. CASE Receive
            <3> DEFINE call == Head(mailbox).call
            <3>1. CASE call.op = "put"
                <4>1. AdmitPut(call.target, call.request) \/ UNCHANGED lookups
                    BY <2>5, <3>1 DEF Receive, ReceivePut
                <4>2. \/ UNCHANGED lookups
                      \/ \E seeds \in SUBSET Node : lookups' =
                            [lookups EXCEPT ![call.target] =
                                LookupAfterGet(call.target, "get_value", seeds)]
                    BY <4>1 DEF AdmitPut
                <4>3. QED BY <2>2, <2>4, <4>2
            <3>2. CASE call.op = "get"
                <4>1. \E seeds \in SUBSET Node : lookups' =
                         [lookups EXCEPT ![call.target] =
                            LookupAfterGet(call.target, call.kind, seeds)]
                    BY <2>5, <3>2 DEF Receive, ReceiveGet
                <4>2. QED BY <2>2, <2>4, <4>1
            <3>3. CASE call.op \notin {"put", "get"}
                BY <2>2, <2>5, <3>3 DEF Receive, ReceiveInfo, rpcVars
            <3>4. QED BY <3>1, <3>2, <3>3
        <2>6. CASE Maintain
            BY <2>2, <2>4, <2>6 DEF Maintain
        <2>7. CASE TickGets
            <3>1. PICK result \in [Finished -> [nodes : SUBSET Node, tokens : SUBSET Node]],
                       evicted \in SUBSET Target : CleanUp(result, evicted)
                BY <1>1, <2>7, TickGetsCleansUp
            <3>2. lookups'[t] = IF t \in Finished THEN NoLookup ELSE Ticked(t)
                BY <3>1 DEF CleanUp
            <3>3. lookups'[t] = VisitClosest(lookups[t])
                BY <1>1, <2>1, <3>2 DEF Ticked, NoLookup
            <3>4. QED BY <2>1, <3>3, VisitAdvances
        <2>8. ASSUME NEW u, NEW r, lookups' = [lookups EXCEPT ![u] = Settle(@, r)]
              PROVE  Advances(lookups[t], lookups'[t])
            BY <2>1, <2>2, <2>8, SettleAdvances
        <2>9. ASSUME NEW u \in Target, NEW r \in Requests, LookupAnswer(u, r)
              PROVE  Advances(lookups[t], lookups'[t])
            <3>1. PICK nodes \in SUBSET Node, hasToken \in BOOLEAN, types \in SUBSET ValueType :
                      lookups' = [lookups EXCEPT ![u] = Answered(@, r, nodes, hasToken, types)]
                BY <2>9, AnswerChoices
            <3>2. r \in lookups[u].flying
                BY <2>9 DEF LookupAnswer
            <3>3. QED BY <2>1, <2>2, <3>1, <3>2, AnsweredAdvances
        <2>10. QED
            BY <1>1, <2>3, <2>5, <2>6, <2>7, <2>8, <2>9
            DEF Next, Actor, Message, Clock, ExpireLookup
    <1>2. TypeOK /\ [Next]_vars =>
             [\A t \in Target : Active(t) /\ Active(t)' => Advances(lookups[t], lookups'[t])]_vars
        BY <1>1, Zenon
    <1>3. QED BY <1>2, TypeCorrect, PTL DEF Spec, NobodyAskedTwice

-----------------------------------------------------------------------------
(* Readers get every value once. *)

\* A request that flies has brought no value yet, and whoever was asked is not asked
\* again.
Fresh(lookup) ==
    /\ \A v \in lookup.values : v[1][1] \in lookup.visited /\ v[1] \notin lookup.flying
    /\ \A r \in lookup.flying : r[1] \in lookup.visited
    /\ lookup.kind = "none" => lookup.visited = {}

\* Between two reports a reader may miss the value that is the news, and no other.
\* Who listens to a lookup that is over is told so, whatever it has received.
ReadersServed ==
    \A t \in Target : ~doneGets[t].ready =>
        \A c \in getSenders[t] : \A s \in Values :
            got[c][s] = IF /\ Wants(calls[c], s)
                           /\ s \in lookups[t].values
                           /\ ~(news.target = t /\ s \in news.from)
                          THEN 1 ELSE 0

NewsFits ==
    /\ phase # "report" => news.from = {}
    /\ news.from \subseteq lookups[news.target].values

StreamInv == MailInv /\ (\A t \in Target : Fresh(lookups[t])) /\ NewsFits /\ ReadersServed

LEMMA VisitClosestFresh ==
    ASSUME NEW lookup \in Lookup, Fresh(lookup), lookup.kind # "none"
    PROVE  Fresh(VisitClosest(lookup)) /\ VisitClosest(lookup).values = lookup.values
    <1> DEFINE new == Nearest(K, lookup.closest) \ lookup.visited
    <1>1. /\ VisitClosest(lookup).visited = lookup.visited \cup new
          /\ VisitClosest(lookup).flying = lookup.flying \cup (new \X {"query", "ping"})
          /\ VisitClosest(lookup).values = lookup.values
          /\ VisitClosest(lookup).kind = lookup.kind
        BY DEF VisitClosest, Visit, Lookup
    <1> HIDE DEF new
    <1>2. \A r \in new \X {"query", "ping"} : r[1] \in new
        OBVIOUS
    <1>3. new \cap lookup.visited = {}
        BY DEF new
    <1>4. QED BY <1>1, <1>2, <1>3 DEF Fresh

LEMMA StartLookupFresh ==
    ASSUME NEW kind \in LookupKind, NEW seeds \in SUBSET Node,
           NEW cachedNodes \in SUBSET Node, NEW cachedTokens \in SUBSET Node
    PROVE  /\ Fresh(StartLookup(kind, seeds, cachedNodes, cachedTokens))
           /\ StartLookup(kind, seeds, cachedNodes, cachedTokens).values = {}
    <1> DEFINE few   == \/ seeds = {}
                        \/ Cardinality(seeds) < Cardinality(Bootstrap)
               asked == IF few THEN Visit(NewLookup(kind), Bootstrap) ELSE NewLookup(kind)
               full  == AddCandidates(asked, seeds \cup cachedNodes)
               start == [full EXCEPT !.tokened = cachedTokens \ seeds]
    <1>1. /\ NewLookup(kind) \in Lookup
          /\ NewLookup(kind).values = {} /\ NewLookup(kind).flying = {}
          /\ NewLookup(kind).kind = kind /\ kind # "none"
        BY DEF NewLookup, NoLookup, Lookup, LookupKind
    <1>2. /\ Visit(NewLookup(kind), Bootstrap) \in Lookup
          /\ Visit(NewLookup(kind), Bootstrap).values = {}
          /\ Visit(NewLookup(kind), Bootstrap).visited = Bootstrap
          /\ Visit(NewLookup(kind), Bootstrap).flying = Bootstrap \X {"query", "ping"}
          /\ Visit(NewLookup(kind), Bootstrap).kind = kind
        BY <1>1, BootstrapAssumption, ZenonT(60) DEF Visit, NewLookup, NoLookup, Lookup, Requests
    <1> HIDE DEF few
    <1>3. asked \in Lookup /\ asked.values = {} /\ Fresh(asked) /\ asked.kind = kind
        <2>1. CASE few
            BY <1>1, <1>2, <2>1 DEF Fresh
        <2>2. CASE ~few
            BY <1>1, <2>2 DEF Fresh
        <2>3. QED BY <2>1, <2>2
    <1> HIDE DEF asked
    <1>4. start \in Lookup /\ start.values = {} /\ Fresh(start) /\ start.kind = kind
        BY <1>3 DEF AddCandidates, Lookup, Fresh
    <1>5. StartLookup(kind, seeds, cachedNodes, cachedTokens) = VisitClosest(start)
        BY DEF StartLookup, few, asked
    <1> HIDE DEF start
    <1>6. QED BY <1>1, <1>4, <1>5, VisitClosestFresh

LEMMA SettleFresh ==
    ASSUME NEW lookup \in Lookup, Fresh(lookup), NEW r
    PROVE  Fresh(Settle(lookup, r)) /\ Settle(lookup, r).values = lookup.values
    BY DEF Settle, Lookup, Fresh

LEMMA AnsweredFresh ==
    ASSUME NEW lookup \in Lookup, Fresh(lookup), NEW r \in Requests, NEW nodes,
           NEW hasToken, NEW types, r \in lookup.flying
    PROVE  /\ Fresh(Answered(lookup, r, nodes, hasToken, types))
           /\ Answered(lookup, r, nodes, hasToken, types).values
                  = lookup.values \cup ({r} \X types)
           /\ lookup.values \cap ({r} \X types) = {}
    <1> DEFINE after == Answered(lookup, r, nodes, hasToken, types)
    <1>1. /\ after.visited = lookup.visited /\ after.kind = lookup.kind
          /\ after.flying = lookup.flying \ {r}
          /\ after.values = lookup.values \cup ({r} \X types)
        BY DEF Answered, Settle, Lookup
    <1>2. \A v \in {r} \X types : v[1] = r
        OBVIOUS
    <1> HIDE DEF after
    <1>3. Fresh(after)
        BY <1>1, <1>2 DEF Fresh
    <1>4. lookup.values \cap ({r} \X types) = {}
        BY <1>2 DEF Fresh
    <1>5. QED BY <1>1, <1>3, <1>4 DEF after

\* A lookup that is not in the map has seen no value.
LEMMA IdleIsEmpty ==
    ASSUME NEW t \in Target, Fresh(lookups[t]), ~Active(t)
    PROVE  lookups[t].values = {}
    BY DEF Fresh, Active

\* A new lookup where there was none, and the old one where there was.
LEMMA GetFresh ==
    ASSUME StreamInv, NEW t \in Target, NEW kind \in LookupKind, NEW seeds \in SUBSET Node
    PROVE  /\ Fresh(LookupAfterGet(t, kind, seeds))
           /\ Active(t) => LookupAfterGet(t, kind, seeds) = lookups[t]
           /\ ~Active(t) => LookupAfterGet(t, kind, seeds).values = {}
    <1>1. cached[t].nodes \in SUBSET Node /\ cached[t].tokens \in SUBSET Node
        BY DEF StreamInv, MailInv, SenderInv, TypeOK
    <1>2. CASE Active(t)
        BY <1>2 DEF LookupAfterGet, StreamInv
    <1>3. CASE ~Active(t)
        BY <1>1, <1>3, StartLookupFresh DEF LookupAfterGet
    <1>4. QED BY <1>2, <1>3

\* A step that changes no reader, and lookups only so that their values stay, or where
\* nobody reads.
LEMMA QuietKeepsReaders ==
    ASSUME StreamInv, UNCHANGED <<doneGets, getSenders, got, calls, news>>,
           phase' = "report" <=> phase = "report",
           \A t \in Target : /\ Fresh(lookups'[t])
                             /\ Active(t) => lookups'[t].values = lookups[t].values
                             /\ ~Active(t) => lookups[t].values \subseteq lookups'[t].values
    PROVE  (\A t \in Target : Fresh(lookups'[t])) /\ NewsFits' /\ ReadersServed'
    <1>1. \A t \in Target : ~doneGets[t].ready /\ getSenders[t] # {} => Active(t)
        BY DEF StreamInv, MailInv, SenderInv, SendersHaveQuery
    <1>2. ReadersServed'
        BY <1>1 DEF StreamInv, ReadersServed
    <1>3. news.target \in Target
        BY DEF StreamInv, MailInv, SenderInv, TypeOK
    <1>4. \A t \in Target : lookups[t].values \subseteq lookups'[t].values
        <2> TAKE t \in Target
        <2>1. CASE Active(t)
            BY <2>1
        <2>2. CASE ~Active(t)
            BY <2>2
        <2>3. QED BY <2>1, <2>2
    <1>5. NewsFits'
        BY <1>3, <1>4 DEF StreamInv, NewsFits
    <1>6. QED BY <1>2, <1>5

\* Rpc::get for a put, or for the node itself.
LEMMA AskKeepsReaders ==
    ASSUME StreamInv, UNCHANGED <<doneGets, getSenders, got, calls, news>>,
           phase # "report", phase' # "report",
           NEW u \in Target, NEW kind \in LookupKind, NEW seeds \in SUBSET Node,
           lookups' = [lookups EXCEPT ![u] = LookupAfterGet(u, kind, seeds)]
    PROVE  (\A t \in Target : Fresh(lookups'[t])) /\ NewsFits' /\ ReadersServed'
    <1>1. /\ lookups \in [Target -> Lookup]
          /\ \A t \in Target : Fresh(lookups[t])
          /\ news.from = {}
          /\ \A t \in Target : ~doneGets[t].ready /\ getSenders[t] # {} => Active(t)
        BY DEF StreamInv, MailInv, SenderInv, SendersHaveQuery, TypeOK, NewsFits
    <1>2. /\ \A t \in Target \ {u} : lookups'[t] = lookups[t]
          /\ Fresh(lookups'[u])
          /\ Active(u) => lookups'[u] = lookups[u]
        BY <1>1, GetFresh
    <1>3. NewsFits'
        BY <1>1 DEF NewsFits
    <1>4. ReadersServed'
        BY <1>1, <1>2 DEF StreamInv, ReadersServed
    <1>5. QED BY <1>1, <1>2, <1>3, <1>4

LEMMA ReceiveKeepsReaders ==
    ASSUME StreamInv, Receive
    PROVE  (\A t \in Target : Fresh(lookups'[t])) /\ NewsFits' /\ ReadersServed'
    <1> DEFINE c == Head(mailbox).client
               call == Head(mailbox).call
    <1>1. /\ TypeOK /\ mailbox # <<>> /\ MailFits /\ NoCallerForgotten
          /\ SendersHaveQuery /\ ReadersServed /\ NewsFits
          /\ UNCHANGED <<calls, doneGets, news>>
          /\ phase = "recv" /\ phase' = "puts"
          /\ \A t \in Target : ~doneGets[t].ready /\ Fresh(lookups[t])
        BY DEF Receive, StreamInv, MailInv, SenderInv, CallerInv, ReportEmpty, reportVars
    <1>2. c \in Client /\ call \in Calls
        BY <1>1, MailTypes
    <1>3. 1 \in DOMAIN mailbox /\ Head(mailbox) = mailbox[1]
        BY <1>1 DEF TypeOK
    <1>4. calls[c] = call /\ c \in Mailed
        BY <1>1, <1>3 DEF MailFits, Mailed
    <1>5. lookups \in [Target -> Lookup] /\ getSenders \in [Target -> SUBSET Client]
        BY <1>1 DEF TypeOK
    <1> HIDE DEF c, call
    <1>6. CASE call.op = "put"
        <2>1. call.target \in Target /\ call.request \in PutRequest
            BY <1>2, <1>6, CallTypes, PutsAssumption DEF PutCall
        <2>2. ReceivePut(c, call)
            BY <1>6 DEF Receive, c, call
        <2>3. UNCHANGED <<getSenders, got>>
            BY <2>2 DEF ReceivePut
        <2>4. \/ UNCHANGED lookups
              \/ \E seeds \in SUBSET Node : lookups' =
                    [lookups EXCEPT ![call.target] =
                        LookupAfterGet(call.target, "get_value", seeds)]
            BY <2>2 DEF ReceivePut, AdmitPut
        <2>5. CASE UNCHANGED lookups
            BY <1>1, <2>3, <2>5, QuietKeepsReaders
        <2>6. ASSUME NEW seeds \in SUBSET Node,
                     lookups' = [lookups EXCEPT ![call.target] =
                        LookupAfterGet(call.target, "get_value", seeds)]
              PROVE  (\A t \in Target : Fresh(lookups'[t])) /\ NewsFits' /\ ReadersServed'
            BY <1>1, <2>1, <2>3, <2>6, AskKeepsReaders DEF LookupKind
        <2>7. QED BY <2>4, <2>5, <2>6
    <1>7. CASE call.op = "get"
        <2> DEFINE u == call.target
        <2>1. u \in Target /\ call.kind \in LookupKind
            BY <1>2, <1>7, CallTypes, GetsAssumption DEF GetCall
        <2>2. ReceiveGet(c, call)
            BY <1>7 DEF Receive, c, call
        <2>3. PICK seeds \in SUBSET Node :
                  lookups' = [lookups EXCEPT ![u] = LookupAfterGet(u, call.kind, seeds)]
            BY <2>2 DEF ReceiveGet
        <2>4. /\ got' = [got EXCEPT ![c] = Replay(call)]
              /\ getSenders' = [getSenders EXCEPT ![u] = @ \cup {c}]
            BY <2>2 DEF ReceiveGet
        <2>5. \A s \in Values :
                 Replay(call)[s] = IF Wants(call, s) /\ s \in lookups[u].values THEN 1 ELSE 0
            <3>1. \A s \in Values : s \in Source /\ s # Own
                BY DEF Source, Values, Requests, Own
            <3>2. QED BY <3>1 DEF Replay
        <2>6. /\ Fresh(lookups'[u])
              /\ Active(u) => lookups'[u] = lookups[u]
              /\ ~Active(u) => lookups'[u].values = {}
              /\ \A t \in Target \ {u} : lookups'[t] = lookups[t]
            BY <1>5, <2>1, <2>3, GetFresh
        <2>7. /\ \A d \in Client \ {c} : got'[d] = got[d]
              /\ got'[c] = Replay(call)
            BY <1>1, <1>2, <2>4 DEF TypeOK
        <2>8. \A t \in Target : c \notin getSenders[t]
            BY <1>1, <1>4 DEF NoCallerForgotten
        <2> HIDE DEF u
        <2>9. ASSUME NEW t \in Target, NEW d \in getSenders'[t], NEW s \in Values
              PROVE  got'[d][s] = IF /\ Wants(calls'[d], s)
                                     /\ s \in lookups'[t].values
                                     /\ ~(news'.target = t /\ s \in news'.from)
                                    THEN 1 ELSE 0
            <3>1. news'.from = {} /\ calls' = calls
                BY <1>1 DEF NewsFits
            <3>2. CASE d = c
                <4>1. t = u
                    BY <1>5, <2>1, <2>4, <2>8, <3>2
                <4>2. CASE Active(u)
                    BY <1>4, <2>5, <2>6, <2>7, <3>1, <3>2, <4>1, <4>2
                <4>3. CASE ~Active(u)
                    <5>1. lookups[u].values = {}
                        BY <1>1, <2>1, <4>3, IdleIsEmpty
                    <5>2. QED BY <1>4, <2>5, <2>6, <2>7, <3>1, <3>2, <4>1, <4>3, <5>1
                <4>4. QED BY <4>2, <4>3
            <3>3. CASE d # c
                <4>1. d \in getSenders[t] /\ d \in Client
                    BY <1>2, <1>5, <2>1, <2>4, <3>3
                <4>2. Active(t)
                    BY <1>1, <4>1 DEF SendersHaveQuery
                <4>3. lookups'[t] = lookups[t]
                    BY <2>6, <4>2
                <4>4. got'[d] = got[d]
                    BY <2>7, <3>3, <4>1
                <4>5. got[d][s] = IF /\ Wants(calls[d], s)
                                     /\ s \in lookups[t].values
                                     /\ ~(news.target = t /\ s \in news.from)
                                    THEN 1 ELSE 0
                    BY <1>1, <4>1 DEF ReadersServed
                <4>6. QED BY <1>1, <4>3, <4>4, <4>5
            <3>4. QED BY <3>2, <3>3
        <2>10. ReadersServed'
            BY <2>9 DEF ReadersServed
        <2>11. \A t \in Target : Fresh(lookups'[t])
            BY <1>1, <2>6
        <2>12. NewsFits'
            BY <1>1 DEF NewsFits
        <2>13. QED BY <2>10, <2>11, <2>12
    <1>8. CASE call.op \notin {"put", "get"}
        <2>1. UNCHANGED <<lookups, getSenders, got>>
            BY <1>8 DEF Receive, ReceiveInfo, rpcVars, senderVars, c, call
        <2>2. QED BY <1>1, <2>1, QuietKeepsReaders
    <1>9. QED BY <1>6, <1>7, <1>8

\* The answer to a request of a lookup: it may bring the value that is the news of the
\* report.
LEMMA AnswerKeepsReaders ==
    ASSUME StreamInv, NEW t \in Target, NEW r \in Requests, LookupAnswer(t, r)
    PROVE  (\A u \in Target : Fresh(lookups'[u])) /\ NewsFits' /\ ReadersServed'
    <1>1. /\ TypeOK /\ SendersHaveQuery /\ ReadersServed
          /\ UNCHANGED <<calls, doneGets, getSenders, got>>
          /\ news.from = {} /\ phase' = "report"
          /\ r \in lookups[t].flying
          /\ lookups \in [Target -> Lookup]
          /\ \A u \in Target : Fresh(lookups[u])
        BY DEF LookupAnswer, StreamInv, MailInv, SenderInv, NewsFits, TypeOK, senderVars,
               callerVars
    <1>2. PICK nodes \in SUBSET Node, hasToken \in BOOLEAN, types \in SUBSET ValueType :
              /\ lookups' = [lookups EXCEPT ![t] = Answered(@, r, nodes, hasToken, types)]
              /\ news' = [target |-> t, from |-> {r} \X types]
        BY AnswerChoices
    <1>3. /\ lookups'[t] = Answered(lookups[t], r, nodes, hasToken, types)
          /\ \A u \in Target \ {t} : lookups'[u] = lookups[u]
        BY <1>1, <1>2
    <1>4. /\ Fresh(lookups'[t])
          /\ lookups'[t].values = lookups[t].values \cup ({r} \X types)
          /\ lookups[t].values \cap ({r} \X types) = {}
        BY <1>1, <1>3, AnsweredFresh
    <1>5. news'.target = t /\ news'.from = {r} \X types
        BY <1>2
    <1>6. NewsFits'
        BY <1>1, <1>4, <1>5 DEF NewsFits
    <1>7. ReadersServed'
        <2> SUFFICES ASSUME NEW u \in Target, ~doneGets[u].ready, NEW c \in getSenders[u],
                            NEW s \in Values
                     PROVE  got[c][s] = IF /\ Wants(calls[c], s)
                                           /\ s \in lookups'[u].values
                                           /\ ~(news'.target = u /\ s \in news'.from)
                                          THEN 1 ELSE 0
            BY <1>1 DEF ReadersServed
        <2>1. got[c][s] = IF Wants(calls[c], s) /\ s \in lookups[u].values THEN 1 ELSE 0
            BY <1>1 DEF ReadersServed
        <2>2. s \in lookups[u].values <=> /\ s \in lookups'[u].values
                                          /\ ~(news'.target = u /\ s \in news'.from)
            BY <1>3, <1>4, <1>5
        <2>3. QED BY <2>1, <2>2
    <1>8. \A u \in Target : Fresh(lookups'[u])
        BY <1>1, <1>3, <1>4
    <1>9. QED BY <1>6, <1>7, <1>8

LEMMA TickGetsKeepsReaders ==
    ASSUME StreamInv, TickGets
    PROVE  (\A t \in Target : Fresh(lookups'[t])) /\ NewsFits' /\ ReadersServed'
    <1>1. /\ TypeOK /\ ReadersServed /\ NewsFits
          /\ phase = "gets" /\ phase' = "maintain"
          /\ UNCHANGED <<getSenders, got, calls, news>>
          /\ \A t \in Target : Fresh(lookups[t]) /\ ~doneGets[t].ready
        BY DEF TickGets, StreamInv, MailInv, SenderInv, ReportEmpty, senderVars, callerVars
    <1>2. PICK result \in [Finished -> [nodes : SUBSET Node, tokens : SUBSET Node]],
               evicted \in SUBSET Target : CleanUp(result, evicted)
        BY <1>1, TickGetsCleansUp
    <1>3. ASSUME NEW t \in Target
          PROVE  /\ Fresh(lookups'[t])
                 /\ ~doneGets'[t].ready => lookups'[t].values = lookups[t].values
        <2>1. lookups[t] \in Lookup
            BY <1>1 DEF TypeOK
        <2>2. Fresh(Ticked(t)) /\ Ticked(t).values = lookups[t].values
            BY <1>1, <2>1, VisitClosestFresh DEF Ticked, Active
        <2>3. CASE t \in Finished
            <3>1. lookups'[t] = NoLookup /\ doneGets'[t].ready
                BY <1>2, <2>3 DEF CleanUp
            <3>2. Fresh(NoLookup)
                BY DEF NoLookup, Fresh
            <3>3. QED BY <3>1, <3>2
        <2>4. CASE t \notin Finished
            <3>1. lookups'[t] = Ticked(t)
                BY <1>2, <2>4 DEF CleanUp
            <3>2. QED BY <2>2, <3>1
        <2>5. QED BY <2>3, <2>4
    <1>4. NewsFits'
        BY <1>1 DEF NewsFits
    <1>5. ReadersServed'
        BY <1>1, <1>3 DEF ReadersServed
    <1>6. QED BY <1>3, <1>4, <1>5

\* The report hands the news to the readers who were there when it came.
LEMMA ReportKeepsReaders ==
    ASSUME StreamInv, Report
    PROVE  (\A t \in Target : Fresh(lookups'[t])) /\ NewsFits' /\ ReadersServed'
    <1>1. /\ TypeOK /\ ReadersServed /\ NewsFits /\ NoCallerForgotten
          /\ UNCHANGED <<lookups, calls>>
          /\ news'.from = {} /\ \A t \in Target : Fresh(lookups[t])
          /\ got' = [c \in Client |-> [s \in Source |-> got[c][s] + Forwarded(c, s)]]
          /\ getSenders' = [t \in Target |-> IF doneGets[t].ready THEN {} ELSE getSenders[t]]
        BY DEF Report, StreamInv, MailInv, SenderInv, CallerInv, rpcVars, NoNews
    <1>2. ASSUME NEW t \in Target, NEW c \in getSenders'[t], NEW s \in Values
          PROVE  got'[c][s] = IF Wants(calls[c], s) /\ s \in lookups[t].values THEN 1 ELSE 0
        <2>1. c \in getSenders[t] /\ c \in Client /\ ~doneGets[t].ready /\ s \in Source
            BY <1>1, <1>2 DEF TypeOK, Source
        <2>2. got[c][s] = IF /\ Wants(calls[c], s)
                             /\ s \in lookups[t].values
                             /\ ~(news.target = t /\ s \in news.from)
                            THEN 1 ELSE 0
            BY <1>1, <2>1 DEF ReadersServed
        <2>3. news.target \in Target
            BY <1>1 DEF TypeOK
        <2>4. c \in getSenders[news.target] <=> news.target = t
            BY <1>1, <2>1, <2>3 DEF NoCallerForgotten
        <2>5. Forwarded(c, s) = IF /\ news.target = t /\ s \in news.from
                                   /\ Wants(calls[c], s)
                                  THEN 1 ELSE 0
            BY <2>4 DEF Forwarded
        <2>6. news.target = t /\ s \in news.from => s \in lookups[t].values
            BY <1>1 DEF NewsFits
        <2>7. got'[c][s] = got[c][s] + Forwarded(c, s)
            BY <1>1, <2>1
        <2>8. QED BY <2>2, <2>5, <2>6, <2>7
    <1>3. ReadersServed'
        <2>1. UNCHANGED <<lookups, calls>> /\ news'.from = {}
            BY <1>1
        <2>2. QED BY <1>2, <2>1 DEF ReadersServed
    <1>4. NewsFits'
        BY <1>1 DEF NewsFits
    <1>5. QED BY <1>1, <1>3, <1>4

\* A call begins or ends: its client reads nothing then.
LEMMA CallersKeepReaders ==
    ASSUME StreamInv, Callers
    PROVE  (\A t \in Target : Fresh(lookups'[t])) /\ NewsFits' /\ ReadersServed'
    <1>1. PICK c \in Client : Return(c) \/ \E call \in Calls : Call(c, call)
        BY DEF Callers
    <1>2. /\ TypeOK /\ ReadersServed /\ NewsFits /\ NoCallerForgotten
          /\ UNCHANGED <<phase, lookups, doneGets, getSenders, news>>
          /\ \A t \in Target : Fresh(lookups[t])
        BY <1>1 DEF Call, Return, StreamInv, MailInv, SenderInv, CallerInv, rpcVars,
                    reportVars, senderVars
    <1>3. ~Blocked(c)
        BY <1>1 DEF Call, Return, Blocked
    <1>4. \A t \in Target : c \notin getSenders[t] /\ getSenders[t] \subseteq Client
        BY <1>2, <1>3 DEF NoCallerForgotten, TypeOK
    <1>5. \A d \in Client \ {c} : calls'[d] = calls[d] /\ got'[d] = got[d]
        BY <1>1, <1>2 DEF Call, Return, TypeOK
    <1>6. \A t \in Target : \A d \in getSenders[t] : calls'[d] = calls[d] /\ got'[d] = got[d]
        BY <1>4, <1>5
    <1>7. ReadersServed'
        BY <1>2, <1>6 DEF ReadersServed
    <1>8. NewsFits'
        BY <1>2 DEF NewsFits
    <1>9. QED BY <1>2, <1>7, <1>8

LEMMA StreamStep ==
    ASSUME StreamInv, [Next]_vars
    PROVE  (\A t \in Target : Fresh(lookups'[t])) /\ NewsFits' /\ ReadersServed'
    <1>1. /\ \A t \in Target : Fresh(lookups[t])
          /\ \A t \in Target : lookups[t] \in Lookup
          /\ TypeOK /\ NewsFits /\ ReadersServed
        BY DEF StreamInv, MailInv, SenderInv, TypeOK
    <1>2. CASE ReceiveNothing \/ TickPuts \/ UNCHANGED vars
        BY <1>1, <1>2, QuietKeepsReaders
        DEF ReceiveNothing, TickPuts, vars, rpcVars, reportVars, senderVars, callerVars
    <1>3. ASSUME phase = "message", news' = NoNews,
                 UNCHANGED <<lookups, doneGets, getSenders, got, calls>>
          PROVE  (\A t \in Target : Fresh(lookups'[t])) /\ NewsFits' /\ ReadersServed'
        <2>1. news.from = {} /\ news'.from = {}
            BY <1>1, <1>3 DEF NewsFits, NoNews
        <2>2. QED BY <1>1, <1>3, <2>1 DEF NewsFits, ReadersServed
    <1>4. CASE NoMessage \/ \E t \in Target, s \in Sends : PutAnswer(t, s)
        BY <1>3, <1>4 DEF NoMessage, PutAnswer, rpcVars, senderVars, callerVars
    <1>7. ASSUME NEW u \in Target, NEW r \in Requests, ExpireLookup(u, r)
          PROVE  (\A t \in Target : Fresh(lookups'[t])) /\ NewsFits' /\ ReadersServed'
        <2>1. /\ lookups' = [lookups EXCEPT ![u] = Settle(@, r)]
              /\ UNCHANGED <<phase, doneGets, getSenders, got, calls, news>>
            BY <1>7 DEF ExpireLookup, reportVars, senderVars, callerVars
        <2>2. \A t \in Target : /\ Fresh(lookups'[t])
                                /\ lookups'[t].values = lookups[t].values
            BY <1>1, <2>1, SettleFresh DEF TypeOK
        <2>3. QED BY <2>1, <2>2, QuietKeepsReaders
    <1>8. CASE \/ \E t \in Target, s \in Sends : ExpirePut(t, s)
               \/ \E t \in Target : CacheAges(t)
        BY <1>1, <1>8, QuietKeepsReaders
        DEF ExpirePut, CacheAges, rpcVars, reportVars, senderVars, callerVars
    <1>9. CASE Maintain
        <2>1. /\ UNCHANGED <<doneGets, getSenders, got, calls, news>>
              /\ phase = "maintain" /\ phase' = "message"
            BY <1>9 DEF Maintain, reportVars, senderVars, callerVars
        <2>2. CASE UNCHANGED lookups
            BY <1>1, <2>1, <2>2, QuietKeepsReaders
        <2>3. ASSUME NEW u \in OwnIds, NEW seeds \in SUBSET Node,
                     lookups' = [lookups EXCEPT ![u] = LookupAfterGet(u, "find_node", seeds)]
              PROVE  (\A t \in Target : Fresh(lookups'[t])) /\ NewsFits' /\ ReadersServed'
            BY <2>1, <2>3, AskKeepsReaders, OwnIdsAssumption DEF LookupKind
        <2>4. QED BY <1>9, <2>2, <2>3 DEF Maintain
    <1>10. QED
        BY <1>2, <1>4, <1>7, <1>8, <1>9, ReceiveKeepsReaders, AnswerKeepsReaders,
           TickGetsKeepsReaders, ReportKeepsReaders, CallersKeepReaders
        DEF Next, Actor, Message, Clock

\* rpc.rs, handle_response, and dht.rs, send: whoever reads has received each value of its
\* type that its lookup accepted -- from answers to queries and to pings, of whatever
\* kind -- once, those that came before it asked included.
THEOREM ReadersGetAll == Spec => []StreamsComplete
    <1>1. Init /\ MailInv => StreamInv
        <2> SUFFICES ASSUME Init, MailInv PROVE StreamInv
            OBVIOUS
        <2>1. \A t \in Target : Fresh(lookups[t])
            BY DEF Init, NoLookup, Fresh
        <2>2. NewsFits /\ ReadersServed
            BY DEF Init, NewsFits, NoNews, ReadersServed
        <2>3. QED BY <2>1, <2>2 DEF StreamInv
    <1>2. MailInv' /\ StreamInv /\ [Next]_vars => StreamInv'
        BY StreamStep DEF StreamInv
    <1>3. StreamInv => StreamsComplete
        BY DEF StreamInv, MailInv, SenderInv, ReportEmpty, NewsFits, ReadersServed,
               StreamsComplete
    <1>4. QED BY <1>1, <1>2, <1>3, MailInvHolds, PTL DEF Spec

-----------------------------------------------------------------------------
(* The invariant of the store service. *)

\* Only a request that was sent flies, only a put that was sent is answered, no put,
\* no request, and the first of the errors has been counted.
Sound(put) ==
    /\ put.flying \subseteq put.sent
    /\ put.sent = {} => Tallied(put) = {}
    /\ ~put.live => put.sent = {}
    /\ put.top # "none" => put.tally[put.top] > 0

\* Someone waits for every put that runs or is about to be reported.  A put that
\* ended in this tick is still in the map until the clean-up, and then is not.
ReportFits ==
    \A t \in Target :
        /\ puts[t].live => putSenders[t] # {}
        /\ donePuts[t] # "pending" =>
               /\ putSenders[t] # {}
               /\ IF phase = "gets" THEN Started(puts[t]) ELSE ~puts[t].live

StoreInv == /\ MailInv
            /\ \A t \in Target : Sound(puts[t])
            /\ ReportFits

-----------------------------------------------------------------------------
(* What the operators do to the record of a put. *)

LEMMA NewIsSound ==
    ASSUME NEW request \in PutRequest
    PROVE  Sound(NewPut(request)) /\ Tallied(NewPut(request)) = {}
    BY DEF NewPut, Sound, Tallied, ErrorCode

LEMMA NoneIsSound == Sound(NoPut) /\ Tallied(NoPut) = {}
    BY DEF NoPut, NewPut, Sound, Tallied, ErrorCode

LEMMA StartIsSound ==
    ASSUME NEW put \in PutType, Sound(put), ~Started(put), put.live, NEW tokens
    PROVE  /\ Sound(StartPut(put, tokens))
           /\ Tallied(StartPut(put, tokens)) = {}
           /\ StartPut(put, tokens).live
    <1>1. PICK sends : StartPut(put, tokens) = [put EXCEPT !.sent = sends, !.flying = sends]
        BY DEF StartPut
    <1>2. /\ StartPut(put, tokens).live /\ StartPut(put, tokens).storedAt = put.storedAt
          /\ StartPut(put, tokens).tally = put.tally /\ StartPut(put, tokens).top = put.top
          /\ StartPut(put, tokens).flying = StartPut(put, tokens).sent
        BY <1>1 DEF PutType, Put
    <1>3. Tallied(StartPut(put, tokens)) = Tallied(put)
        BY <1>2 DEF Tallied
    <1>4. Tallied(put) = {}
        BY DEF Sound, Started
    <1>5. QED BY <1>2, <1>3, <1>4 DEF Sound

LEMMA UnansweredIsSound ==
    ASSUME NEW put \in PutType, Sound(put), NEW send
    PROVE  /\ Sound(Unanswered(put, send))
           /\ Tallied(Unanswered(put, send)) = Tallied(put)
           /\ Unanswered(put, send).sent = put.sent
           /\ Unanswered(put, send).live = put.live
    <1>1. /\ Unanswered(put, send).live = put.live /\ Unanswered(put, send).sent = put.sent
          /\ Unanswered(put, send).storedAt = put.storedAt
          /\ Unanswered(put, send).tally = put.tally /\ Unanswered(put, send).top = put.top
          /\ Unanswered(put, send).flying \subseteq put.flying
        BY DEF Unanswered, PutType, Put
    <1>2. Tallied(Unanswered(put, send)) = Tallied(put)
        BY <1>1 DEF Tallied
    <1>3. QED BY <1>1, <1>2 DEF Sound

\* What the service hears of an answer: nothing, if it is another error.
Hears(before, after) ==
    \/ after = before
    \/ \E answer \in Store!Answer : after = before \cup {answer}

LEMMA SuccessIsSound ==
    ASSUME NEW put \in PutType, Sound(put), put.sent # {}
    PROVE  /\ Sound(Success(put)) /\ Success(put).sent = put.sent
           /\ Hears(Tallied(put), Tallied(Success(put)))
    <1>1. /\ Success(put).live = put.live /\ Success(put).sent = put.sent
          /\ Success(put).flying = put.flying /\ Success(put).storedAt = put.storedAt + 1
          /\ Success(put).tally = put.tally /\ Success(put).top = put.top
          /\ put.storedAt \in Nat
        BY DEF Success, PutType, Put
    <1>2. Tallied(Success(put)) = Tallied(put) \cup {"stored"}
        BY <1>1 DEF Tallied
    <1>3. QED BY <1>1, <1>2 DEF Sound, Hears, Store!Answer

LEMMA FailureIsSound ==
    ASSUME NEW put \in PutType, Sound(put), put.sent # {}, NEW code \in ErrorCode
    PROVE  /\ Sound(Failure(put, code)) /\ Failure(put, code).sent = put.sent
           /\ Hears(Tallied(put), Tallied(Failure(put, code)))
    <1> DEFINE n == put.tally[code] + 1
               top == IF put.top = "none" \/ n > put.tally[put.top] THEN code ELSE put.top
               after == Failure(put, code)
    <1>1. n \in Nat /\ n > 0 /\ put.tally \in [ErrorCode -> Nat]
        BY DEF PutType, Put
    <1>2. /\ after.live = put.live /\ after.sent = put.sent /\ after.flying = put.flying
          /\ after.storedAt = put.storedAt /\ after.top = top
          /\ after.tally = [put.tally EXCEPT ![code] = n]
        BY DEF Failure, PutType, Put
    <1> HIDE DEF n, after
    <1>3. \A e \in ErrorCode : after.tally[e] = IF e = code THEN n ELSE put.tally[e]
        BY <1>1, <1>2
    <1>4. top # "none" => after.tally[top] > 0
        <2>1. CASE top = code
            BY <1>1, <1>3, <2>1
        <2>2. CASE top # code
            <3>1. top = put.top /\ put.top # "none"
                BY <2>2
            <3>2. put.top \in ErrorCode /\ put.tally[put.top] > 0
                BY <3>1 DEF Sound, PutType, Put
            <3>3. QED BY <1>3, <2>2, <3>1, <3>2
        <2>3. QED BY <2>1, <2>2
    <1> HIDE DEF top
    <1>5. "301" \in ErrorCode /\ "302" \in ErrorCode
        BY DEF ErrorCode
    <1>6. CASE code = "301"
        <2>1. /\ after.tally["301"] > 0 /\ after.tally["302"] = put.tally["302"]
            BY <1>1, <1>3, <1>5, <1>6
        <2>2. Tallied(after) = Tallied(put) \cup {"cas_failed"}
            BY <1>2, <2>1 DEF Tallied
        <2>3. QED BY <1>2, <1>4, <2>2 DEF Sound, Hears, Store!Answer, after
    <1>7. CASE code = "302"
        <2>1. /\ after.tally["302"] > 0 /\ after.tally["301"] = put.tally["301"]
            BY <1>1, <1>3, <1>5, <1>7
        <2>2. Tallied(after) = Tallied(put) \cup {"not_most_recent"}
            BY <1>2, <2>1 DEF Tallied
        <2>3. QED BY <1>2, <1>4, <2>2 DEF Sound, Hears, Store!Answer, after
    <1>8. CASE code \notin {"301", "302"}
        <2>1. /\ after.tally["302"] = put.tally["302"] /\ after.tally["301"] = put.tally["301"]
            BY <1>3, <1>5, <1>8
        <2>2. Tallied(after) = Tallied(put)
            BY <1>2, <2>1 DEF Tallied
        <2>3. QED BY <1>2, <1>4, <2>2 DEF Sound, Hears, after
    <1>9. QED BY <1>6, <1>7, <1>8

\* A verdict follows from what the nodes have answered.
LEMMA VerdictFits ==
    ASSUME NEW put \in PutType, Sound(put), TickVerdict(put) # "pending"
    PROVE  /\ Started(put)
           /\ TickVerdict(put) \in Store!Outcome
           /\ Store!Justified(TickVerdict(put), Tallied(put))
    <1> USE DEF Store!Outcome, Store!Conflict
    <1>1. /\ MostCommonError(put) \in {"none", "cas_failed", "not_most_recent"}
          /\ MostCommonError(put) # "none" => MostCommonError(put) \in Tallied(put)
        BY DEF MostCommonError, Sound, Tallied
    <1>2. Started(put)
        BY DEF TickVerdict
    <1>3. put.storedAt \in Nat /\ ("stored" \in Tallied(put) <=> put.storedAt > 0)
        BY DEF PutType, Put, Tallied
    <1>4. CASE TickVerdict(put) = MostCommonError(put) /\ MostCommonError(put) # "none"
        BY <1>1, <1>2, <1>4 DEF Store!Justified
    <1>5. CASE TickVerdict(put) = "ok" /\ put.storedAt > 0
        BY <1>2, <1>3, <1>5 DEF Store!Justified
    <1>6. CASE TickVerdict(put) = "timeout" /\ ~(put.storedAt > 0)
        BY <1>2, <1>3, <1>6 DEF Store!Justified
    <1>7. CASE put.flying = {}
        <2>1. TickVerdict(put) = DoneVerdict(put)
            BY <1>2, <1>7 DEF TickVerdict
        <2>2. QED BY <1>1, <1>4, <1>5, <1>6, <2>1 DEF DoneVerdict
    <1>8. CASE put.flying # {}
        <2>1. MajorityRejected(put) /\ TickVerdict(put) = MostCommonError(put)
            BY <1>2, <1>8 DEF TickVerdict
        <2>2. MostCommonError(put) # "none"
            BY <2>1 DEF MajorityRejected
        <2>3. QED BY <1>4, <2>1, <2>2
    <1>9. QED BY <1>7, <1>8

\* The record Rpc::put leaves at the target, and elsewhere.
LEMMA AdmitIsSound ==
    ASSUME TypeOK, NEW t \in Target, NEW request \in PutRequest, AdmitPut(t, request)
    PROVE  /\ Sound(puts'[t]) /\ Tallied(puts'[t]) = {} /\ puts'[t].live
           /\ \A u \in Target \ {t} : puts'[u] = puts[u]
    <1>1. /\ NewPut(request) \in PutType /\ Sound(NewPut(request))
          /\ Tallied(NewPut(request)) = {} /\ NewPut(request).live
          /\ ~Started(NewPut(request))
        BY NewPutTypes, NewIsSound DEF NewPut, Started
    <1>2. PICK put : /\ puts' = [puts EXCEPT ![t] = put]
                     /\ \/ put = NewPut(request)
                        \/ put = StartPut(NewPut(request), cached[t].tokens)
        BY DEF AdmitPut
    <1>3. Sound(put) /\ Tallied(put) = {} /\ put.live
        BY <1>1, <1>2, StartIsSound
    <1>4. QED BY <1>2, <1>3 DEF TypeOK

-----------------------------------------------------------------------------
(* The invariant is kept. *)

LEMMA ReceiveKeepsReport ==
    ASSUME StoreInv, Receive
    PROVE  (\A u \in Target : Sound(puts'[u])) /\ ReportFits'
    <1> DEFINE c == Head(mailbox).client
               call == Head(mailbox).call
    <1>1. /\ TypeOK /\ mailbox # <<>> /\ ReportFits
          /\ \A u \in Target : Sound(puts[u])
          /\ \A u \in Target : donePuts'[u] = "pending"
        BY DEF Receive, StoreInv, MailInv, SenderInv, ReportEmpty, reportVars
    <1>2. c \in Client /\ call \in Calls
        BY <1>1, MailTypes
    <1>3. CASE UNCHANGED puts /\ \A u \in Target : putSenders[u] \subseteq putSenders'[u]
        BY <1>1, <1>3 DEF ReportFits
    <1>4. CASE call.op = "put"
        <2> DEFINE t == call.target
                   verdict == Admission(puts[t], call.request)
        <2>1. ReceivePut(c, call)
            BY <1>4 DEF Receive
        <2>2. t \in Target /\ call.request \in PutRequest
            BY <1>2, <1>4, CallTypes, PutsAssumption DEF PutCall
        <2>3. CASE verdict \in {"new", "replace"}
            <3>1. AdmitPut(t, call.request)
                BY <2>1, <2>3 DEF ReceivePut
            <3>2. putSenders' = [putSenders EXCEPT ![t] = @ \cup {c}]
                BY <2>1, <2>3 DEF ReceivePut, Listeners, PutError
            <3>3. /\ Sound(puts'[t])
                  /\ \A u \in Target \ {t} : puts'[u] = puts[u]
                BY <1>1, <2>2, <3>1, AdmitIsSound
            <3>4. putSenders'[t] # {} /\ \A u \in Target \ {t} : putSenders'[u] = putSenders[u]
                BY <1>1, <2>2, <3>2 DEF TypeOK
            <3> HIDE DEF t, verdict
            <3>5. QED BY <1>1, <3>3, <3>4 DEF ReportFits
        <2>4. CASE verdict \notin {"new", "replace"}
            <3>1. /\ UNCHANGED puts
                  /\ \/ putSenders' = putSenders
                     \/ putSenders' = [putSenders EXCEPT ![t] = @ \cup {c}]
                BY <2>1, <2>4 DEF ReceivePut, Listeners
            <3> HIDE DEF t, verdict
            <3>2. \A u \in Target : putSenders[u] \subseteq putSenders'[u]
                <4>1. putSenders \in [Target -> SUBSET Client]
                    BY <1>1 DEF TypeOK
                <4>2. QED BY <3>1, <4>1
            <3>3. QED BY <1>3, <3>1, <3>2
        <2>5. QED BY <2>3, <2>4
    <1>5. CASE call.op # "put"
        <2>1. UNCHANGED <<puts, putSenders>>
            BY <1>5 DEF Receive, ReceiveGet, ReceiveInfo, rpcVars, senderVars
        <2>2. QED BY <1>3, <2>1
    <1>6. QED BY <1>4, <1>5

LEMMA TickPutsKeepsReport ==
    ASSUME StoreInv, TickPuts
    PROVE  (\A u \in Target : Sound(puts'[u])) /\ ReportFits'
    <1>1. /\ TypeOK /\ ReportFits /\ phase' = "gets" /\ UNCHANGED <<puts, putSenders>>
          /\ \A u \in Target : Sound(puts[u])
          /\ \A u \in Target : donePuts'[u] = IF puts[u].live THEN TickVerdict(puts[u])
                                                              ELSE "pending"
        BY DEF TickPuts, StoreInv, MailInv, SenderInv, rpcVars, senderVars
    <1>2. \A u \in Target : puts[u] \in PutType
        BY <1>1 DEF TypeOK, PutType
    <1>3. \A u \in Target : donePuts'[u] # "pending" => puts[u].live /\ Started(puts[u])
        BY <1>1, <1>2, VerdictFits
    <1>4. \A u \in Target : Started(puts'[u]) <=> Started(puts[u])
        BY <1>1
    <1>5. QED BY <1>1, <1>3, <1>4 DEF ReportFits

\* cleanup_done_queries, target by target: the put is over, has been started, or is as
\* it was.
LEMMA CleanUpFits ==
    ASSUME StoreInv, TickGets
    PROVE  /\ phase = "gets" /\ phase' = "maintain"
           /\ UNCHANGED <<putSenders, calls, replies>>
           /\ \A u \in Target :
                 \/ puts'[u] = NoPut /\ donePuts[u] # "pending" /\ donePuts'[u] = donePuts[u]
                 \/ /\ puts'[u] = NoPut /\ donePuts'[u] = "no_closest_nodes"
                    /\ donePuts[u] = "pending" /\ puts[u].live /\ ~Started(puts[u])
                 \/ /\ donePuts[u] = "pending" /\ donePuts'[u] = "pending"
                    /\ puts[u].live /\ ~Started(puts[u])
                    /\ \E tokens : puts'[u] = StartPut(puts[u], tokens)
                 \/ /\ donePuts[u] = "pending" /\ donePuts'[u] = "pending"
                    /\ puts'[u] = puts[u]
    <1>1. TypeOK /\ ReportFits
        BY DEF StoreInv, MailInv, SenderInv
    <1>2. PICK result \in [Finished -> [nodes : SUBSET Node, tokens : SUBSET Node]],
               evicted \in SUBSET Target : CleanUp(result, evicted)
        BY <1>1, TickGetsCleansUp
    <1>3. phase = "gets" /\ phase' = "maintain" /\ UNCHANGED <<putSenders, calls, replies>>
        BY DEF TickGets, senderVars, callerVars
    <1>4. ASSUME NEW u \in Target, donePuts[u] # "pending"
          PROVE  puts'[u] = NoPut /\ donePuts'[u] = donePuts[u]
        <2>1. ~Waiting(u)
            BY <1>1, <1>3, <1>4 DEF Waiting, ReportFits
        <2>2. QED BY <1>2, <1>4, <2>1 DEF CleanUp, Verdicts
    <1>5. ASSUME NEW u \in Target, donePuts[u] = "pending", Waiting(u), result[u].nodes = {}
          PROVE  puts'[u] = NoPut /\ donePuts'[u] = "no_closest_nodes"
        BY <1>2, <1>5 DEF CleanUp, Verdicts
    <1>6. ASSUME NEW u \in Target, donePuts[u] = "pending", Waiting(u), result[u].nodes # {}
          PROVE  /\ puts'[u] = StartPut(puts[u], result[u].tokens)
                 /\ donePuts'[u] = "pending"
        BY <1>2, <1>6 DEF CleanUp, Verdicts
    <1>7. ASSUME NEW u \in Target, donePuts[u] = "pending", ~Waiting(u)
          PROVE  puts'[u] = puts[u] /\ donePuts'[u] = "pending"
        BY <1>2, <1>7 DEF CleanUp, Verdicts
    <1>8. QED BY <1>3, <1>4, <1>5, <1>6, <1>7 DEF Waiting

LEMMA TickGetsKeepsReport ==
    ASSUME StoreInv, TickGets
    PROVE  (\A u \in Target : Sound(puts'[u])) /\ ReportFits'
    <1>1. /\ phase' = "maintain" /\ UNCHANGED putSenders
          /\ \A u \in Target : Sound(puts[u]) /\ puts[u] \in PutType
          /\ ReportFits
        BY CleanUpFits DEF StoreInv, MailInv, SenderInv, TypeOK, PutType
    <1>2. ASSUME NEW u \in Target
          PROVE  /\ Sound(puts'[u])
                 /\ puts'[u].live => puts[u].live /\ donePuts'[u] = "pending"
                 /\ donePuts'[u] # "pending" => puts[u].live \/ donePuts[u] # "pending"
        <2>1. CASE puts'[u] = NoPut /\ (donePuts[u] # "pending" \/ puts[u].live)
            BY <2>1, NoneIsSound, NoPutTypes
        <2>2. CASE /\ puts[u].live /\ ~Started(puts[u]) /\ donePuts'[u] = "pending"
                   /\ \E tokens : puts'[u] = StartPut(puts[u], tokens)
            BY <1>1, <2>2, StartIsSound
        <2>3. CASE puts'[u] = puts[u] /\ donePuts'[u] = "pending"
            BY <1>1, <2>3
        <2>4. QED BY <2>1, <2>2, <2>3, CleanUpFits
    <1>3. QED BY <1>1, <1>2 DEF ReportFits

\* The answer to a request of a put: it ran, and now it has heard of one more node that
\* stores the value or refuses it, or of none.
LEMMA PutAnswerFits ==
    ASSUME StoreInv, NEW t \in Target, NEW s \in Sends, PutAnswer(t, s)
    PROVE  /\ puts[t].live /\ donePuts[t] = "pending"
           /\ Sound(puts'[t]) /\ puts'[t].live /\ puts'[t].sent = puts[t].sent
           /\ Hears(Tallied(puts[t]), Tallied(puts'[t]))
           /\ \A u \in Target \ {t} : puts'[u] = puts[u]
    <1> DEFINE put == Unanswered(puts[t], s)
    <1>1. /\ phase = "message" /\ s \in puts[t].flying
          /\ puts \in [Target -> PutType]
          /\ Sound(puts[t]) /\ ReportFits
        BY DEF PutAnswer, StoreInv, MailInv, SenderInv, TypeOK, PutType
    <1>2. puts[t].live /\ puts[t].sent # {}
        BY <1>1 DEF Sound
    <1>3. donePuts[t] = "pending"
        BY <1>1, <1>2 DEF ReportFits
    <1>4. /\ put \in PutType /\ Sound(put)
          /\ Tallied(put) = Tallied(puts[t]) /\ put.sent = puts[t].sent /\ put.live
        BY <1>1, <1>2, UnansweredTypes, UnansweredIsSound
    <1>5. PICK after \in {put, Success(put)} \cup {Failure(put, e) : e \in ErrorCode} :
              puts' = [puts EXCEPT ![t] = after]
        BY DEF PutAnswer
    <1> HIDE DEF put
    <1>6. /\ Sound(after) /\ after.live /\ after.sent = put.sent
          /\ Hears(Tallied(put), Tallied(after))
        <2>1. CASE after = put
            BY <1>4, <2>1 DEF Hears
        <2>2. CASE after = Success(put)
            BY <1>2, <1>4, <2>2, AnswerTypes, SuccessIsSound DEF ErrorCode
        <2>3. CASE \E e \in ErrorCode : after = Failure(put, e)
            BY <1>2, <1>4, <2>3, AnswerTypes, FailureIsSound
        <2>4. QED BY <1>5, <2>1, <2>2, <2>3
    <1>7. QED BY <1>1, <1>2, <1>3, <1>4, <1>5, <1>6

LEMMA RecordStep == StoreInv /\ [Next]_vars => (\A u \in Target : Sound(puts[u]))' /\ ReportFits'
    <1> SUFFICES ASSUME StoreInv, [Next]_vars
                 PROVE  (\A u \in Target : Sound(puts'[u])) /\ ReportFits'
        OBVIOUS
    <1>1. TypeOK /\ ReportFits /\ ReportEmpty /\ \A u \in Target : Sound(puts[u])
        BY DEF StoreInv, MailInv, SenderInv
    <1>2. ASSUME UNCHANGED <<puts, putSenders, donePuts>>, phase' # "gets",
                 phase = "gets" => phase' = phase
          PROVE  (\A u \in Target : Sound(puts'[u])) /\ ReportFits'
        BY <1>1, <1>2 DEF ReportFits
    <1>3. ASSUME UNCHANGED <<phase, puts, putSenders, donePuts>>
          PROVE  (\A u \in Target : Sound(puts'[u])) /\ ReportFits'
        BY <1>1, <1>3 DEF ReportFits, Started
    <1>4. CASE ReceiveNothing \/ Maintain \/ NoMessage
        BY <1>2, <1>4 DEF ReceiveNothing, Maintain, NoMessage, rpcVars, reportVars, senderVars
    <1>5. CASE \E t \in Target, r \in Requests : LookupAnswer(t, r)
        BY <1>2, <1>5 DEF LookupAnswer, senderVars
    <1>6. ASSUME NEW t \in Target, NEW s \in Sends, PutAnswer(t, s)
          PROVE  (\A u \in Target : Sound(puts'[u])) /\ ReportFits'
        <2>1. /\ UNCHANGED <<putSenders, donePuts>> /\ phase = "message" /\ phase' = "report"
            BY <1>6 DEF PutAnswer, senderVars
        <2>2. \A u \in Target : Sound(puts'[u]) /\ (puts'[u].live <=> puts[u].live)
            <3>1. /\ puts[t].live /\ Sound(puts'[t]) /\ puts'[t].live
                  /\ \A u \in Target \ {t} : puts'[u] = puts[u]
                BY <1>6, PutAnswerFits
            <3>2. QED BY <1>1, <3>1
        <2>3. QED BY <1>1, <2>1, <2>2 DEF ReportFits
    <1>7. CASE Report
        <2>1. /\ UNCHANGED puts /\ phase = "report"
              /\ \A u \in Target : donePuts'[u] = "pending"
              /\ \A u \in Target : donePuts[u] = "pending" => putSenders'[u] = putSenders[u]
            BY <1>7 DEF Report, rpcVars
        <2>2. QED BY <1>1, <2>1 DEF ReportFits
    <1>8. CASE (\E t \in Target, r \in Requests : ExpireLookup(t, r))
               \/ (\E t \in Target : CacheAges(t)) \/ Callers \/ UNCHANGED vars
        BY <1>3, <1>8 DEF ExpireLookup, CacheAges, Callers, Call, Return, vars, rpcVars,
                          reportVars, senderVars
    <1>9. ASSUME NEW t \in Target, NEW s \in Sends, ExpirePut(t, s)
          PROVE  (\A u \in Target : Sound(puts'[u])) /\ ReportFits'
        <2>1. /\ UNCHANGED <<phase, putSenders, donePuts>>
              /\ puts' = [puts EXCEPT ![t] = Unanswered(@, s)]
            BY <1>9 DEF ExpirePut, reportVars, senderVars
        <2>2. puts \in [Target -> PutType]
            BY <1>1 DEF TypeOK, PutType
        <2>3. \A u \in Target : /\ Sound(puts'[u]) /\ puts'[u].live = puts[u].live
                                /\ puts'[u].sent = puts[u].sent
            BY <1>1, <2>1, <2>2, UnansweredIsSound
        <2>4. QED BY <1>1, <2>1, <2>3 DEF ReportFits, Started
    <1>10. QED
        BY <1>4, <1>5, <1>6, <1>7, <1>8, <1>9, ReceiveKeepsReport, TickPutsKeepsReport,
           TickGetsKeepsReport
        DEF Next, Actor, Clock, Message

LEMMA StoreInvHolds == Spec => []StoreInv
    <1>1. Init /\ MailInv => StoreInv
        BY NoneIsSound, NoPutTypes DEF Init, ReportFits, StoreInv
    <1>2. MailInv' /\ StoreInv /\ [Next]_vars => StoreInv'
        BY RecordStep DEF StoreInv
    <1>3. QED BY <1>1, <1>2, MailInvHolds, PTL DEF Spec

-----------------------------------------------------------------------------
(* The refinement: heard, fate and told are what the service sees of a state. *)

heard == [t \in Target |-> Heard(t)]
fate == [t \in Target |-> Fate(t)]
told == [c \in Client |-> Told(c)]

\* Steps the service does not see.
LEMMA Unseen ==
    ASSUME UNCHANGED putSenders,
           \A t \in Target : Fate(t)' = Fate(t) /\ Heard(t)' = Heard(t),
           \A c \in Client : Told(c)' = Told(c)
    PROVE  UNCHANGED Store!vars
    BY DEF Store!vars

LEMMA QuietIsUnseen ==
    ASSUME UNCHANGED <<putSenders, donePuts, puts, calls, replies>>
    PROVE  UNCHANGED Store!vars
    <1>1. \A t \in Target : Fate(t)' = Fate(t) /\ Heard(t)' = Heard(t)
        BY DEF Fate, Heard, Tallied
    <1>2. \A c \in Client : Told(c)' = Told(c)
        BY DEF Told
    <1>3. QED BY <1>1, <1>2, Unseen

\* A put is taken, joined, replaced or refused.
LEMMA ReceiveImplements ==
    ASSUME StoreInv, Receive
    PROVE  [Store!Next]_Store!vars
    <1> DEFINE c == Head(mailbox).client
               call == Head(mailbox).call
    <1>1. /\ TypeOK /\ mailbox # <<>> /\ calls' = calls
          /\ MailFits /\ NoCallerForgotten /\ ReportFits
          /\ \A u \in Target : donePuts[u] = "pending" /\ donePuts'[u] = "pending"
        BY DEF Receive, StoreInv, MailInv, SenderInv, CallerInv, ReportEmpty, reportVars
    <1>2. c \in Client /\ call \in Calls
        BY <1>1, MailTypes
    <1>3. 1 \in DOMAIN mailbox /\ Head(mailbox) = mailbox[1]
        BY <1>1 DEF TypeOK
    <1>4. calls[c] = call /\ c \in Mailed
        BY <1>1, <1>3 DEF MailFits, Mailed
    <1>5. replies[c] = NoReply /\ \A u \in Target : c \notin putSenders[u]
        BY <1>1, <1>2, <1>4 DEF NoCallerForgotten, Blocked
    <1>6. \A u \in Target : /\ Fate(u) = "open" /\ Fate(u)' = "open"
                            /\ Heard(u) = IF puts[u].live THEN Tallied(puts[u]) ELSE {}
        BY <1>1 DEF Fate, Heard
    <1>7. \A u \in Target : Heard(u)' = IF puts'[u].live THEN Tallied(puts'[u]) ELSE {}
        BY <1>1 DEF Heard, Tallied
    <1> HIDE DEF c, call
    <1>8. CASE call.op = "put"
        <2> DEFINE t == call.target
                   verdict == Admission(puts[t], call.request)
        <2>1. ReceivePut(c, call)
            BY <1>8 DEF Receive, c, call
        <2>2. t \in Target /\ call.request \in PutRequest
            BY <1>2, <1>8, CallTypes, PutsAssumption DEF PutCall
        <2>3. verdict \in {"new", "join", "replace"} \cup PutError
            <3>1. puts[t] \in PutType
                BY <1>1, <2>2 DEF TypeOK, PutType
            <3>2. QED BY <2>2, <3>1, AdmissionTypes
        <2>4. Told(c) = "none"
            BY <1>5 DEF Told, NoReply, Plain
        <2>5. CASE verdict \notin PutError
            <3>1. /\ putSenders' = [putSenders EXCEPT ![t] = @ \cup {c}]
                  /\ replies' = replies
                BY <2>1, <2>5 DEF ReceivePut, Listeners
            <3>2. \A d \in Client : Told(d)' = Told(d)
                BY <1>1, <3>1 DEF Told
            <3>3. \/ \A u \in Target : Heard(u)' = Heard(u)
                  \/ \A u \in Target : Heard(u)' = IF u = t THEN {} ELSE Heard(u)
                <4>1. CASE verdict = "join"
                    <5>1. puts' = puts
                        BY <2>1, <4>1 DEF ReceivePut
                    <5>2. QED BY <1>6, <1>7, <5>1
                <4>2. CASE verdict \in {"new", "replace"}
                    <5>1. AdmitPut(t, call.request)
                        BY <2>1, <4>2 DEF ReceivePut
                    <5>2. /\ Tallied(puts'[t]) = {}
                          /\ \A u \in Target \ {t} : puts'[u] = puts[u]
                        BY <1>1, <2>2, <5>1, AdmitIsSound
                    <5> HIDE DEF t, verdict
                    <5>3. QED BY <1>6, <1>7, <5>2
                <4>3. QED BY <2>3, <2>5, <4>1, <4>2
            <3> HIDE DEF t, verdict
            <3>4. /\ told[c] = "none" /\ fate[t] = "open"
                  /\ told' = told /\ fate' = fate
                  /\ \/ heard' = heard
                     \/ heard' = [heard EXCEPT ![t] = {}]
                BY <1>2, <1>6, <2>2, <2>4, <3>2, <3>3 DEF heard, fate, told
            <3>5. Store!Admit(c, t)
                BY <1>5, <3>1, <3>4 DEF Store!Admit, heard, fate, told
            <3>6. QED BY <1>2, <2>2, <3>5 DEF Store!Next
        <2>6. CASE verdict \in PutError
            <3>1. /\ UNCHANGED <<putSenders, puts>>
                  /\ replies' = [replies EXCEPT ![c] = Plain(verdict)]
                BY <2>1, <2>6 DEF ReceivePut, PutError
            <3>2. puts[t].live /\ verdict \in Store!Conflict
                BY <2>6 DEF Admission, PutError, Store!Conflict
            <3> HIDE DEF t, verdict
            <3>3. putSenders[t] # {}
                BY <1>1, <2>2, <3>2 DEF ReportFits
            <3>4. \A d \in Client : Told(d)' = IF d = c THEN verdict ELSE Told(d)
                <4>1. \A d \in Client : replies'[d] = IF d = c THEN Plain(verdict)
                                                              ELSE replies[d]
                    BY <1>1, <3>1 DEF TypeOK
                <4>2. QED BY <1>1, <1>4, <1>8, <4>1 DEF Told, Plain
            <3>5. /\ told[c] = "none" /\ told' = [told EXCEPT ![c] = verdict]
                  /\ fate' = fate /\ heard' = heard
                BY <1>2, <1>6, <1>7, <2>4, <3>1, <3>4 DEF heard, fate, told
            <3>6. Store!Refuse(c, t)
                BY <1>5, <3>1, <3>2, <3>3, <3>5 DEF Store!Refuse, heard, fate, told
            <3>7. QED BY <1>2, <2>2, <3>6 DEF Store!Next
        <2>7. QED BY <2>5, <2>6
    <1>9. CASE call.op # "put"
        <2>1. /\ UNCHANGED <<puts, putSenders>>
              /\ replies' = replies \/ replies' = [replies EXCEPT ![c] = Plain("info")]
            BY <1>9 DEF Receive, ReceiveGet, ReceiveInfo, rpcVars, senderVars, c, call
        <2>2. \A d \in Client : Told(d)' = Told(d)
            <3>1. \A d \in Client : d # c => replies'[d] = replies[d]
                BY <1>1, <2>1 DEF TypeOK
            <3>2. QED BY <1>1, <1>4, <1>9, <3>1 DEF Told
        <2>3. \A u \in Target : Fate(u)' = Fate(u) /\ Heard(u)' = Heard(u)
            BY <1>6, <1>7, <2>1
        <2>4. QED BY <2>1, <2>2, <2>3, Unseen
    <1>10. QED BY <1>8, <1>9

\* The fates that are sealed are those of the report.
LEMMA Sealed ==
    ASSUME TypeOK, NEW t \in Target
    PROVE  /\ Fate(t) # "open" <=> donePuts[t] # "pending"
           /\ donePuts[t] # "pending" => Fate(t) = donePuts[t]
    BY DEF Fate, TypeOK, PutResult, PutError

\* The tick of the puts seals the fate of those that are over, the clean-up that of
\* those that found no nodes.
LEMMA Decides ==
    ASSUME TypeOK', UNCHANGED <<putSenders, calls, replies>>,
           NEW D \in SUBSET Target,
           \A t \in D : /\ putSenders[t] # {} /\ Fate(t) = "open"
                        /\ donePuts'[t] # "pending"
                        /\ Store!Justified(donePuts'[t], Heard(t)),
           \A t \in Target \ D : Fate(t)' = Fate(t) /\ Heard(t)' = Heard(t)
    PROVE  [Store!Next]_Store!vars
    <1> DEFINE verdict == [t \in D |-> donePuts'[t]]
    <1>1. \A t \in D : /\ Fate(t)' = donePuts'[t] /\ donePuts'[t] \in Store!Outcome
                       /\ Heard(t)' = {}
        BY DEF Fate, Heard, TypeOK, PutResult, PutError, Store!Outcome, Store!Conflict
    <1>2. verdict \in [D -> Store!Outcome]
        BY <1>1
    <1>3. fate' = [t \in Target |-> IF t \in D THEN verdict[t] ELSE fate[t]]
        BY <1>1 DEF fate
    <1>4. heard' = [t \in Target |-> IF t \in D THEN {} ELSE heard[t]]
        BY <1>1 DEF heard
    <1>5. told' = told
        BY DEF told, Told
    <1>6. \A t \in D : /\ putSenders[t] # {} /\ fate[t] = "open"
                       /\ Store!Justified(verdict[t], heard[t])
        BY DEF fate, heard
    <1> HIDE DEF verdict
    <1>7. Store!Decide(D)
        BY <1>2, <1>3, <1>4, <1>5, <1>6 DEF Store!Decide, heard, fate, told
    <1>8. QED BY <1>7 DEF Store!Next

LEMMA TickPutsImplements ==
    ASSUME StoreInv, TypeOK', TickPuts
    PROVE  [Store!Next]_Store!vars
    <1> DEFINE D == {t \in Target : donePuts'[t] # "pending"}
    <1>1. /\ TypeOK /\ ReportFits /\ UNCHANGED <<puts, putSenders, calls, replies>>
          /\ \A t \in Target : donePuts[t] = "pending" /\ Sound(puts[t])
          /\ \A t \in Target : donePuts'[t] = IF puts[t].live THEN TickVerdict(puts[t])
                                                              ELSE "pending"
        BY DEF TickPuts, StoreInv, MailInv, SenderInv, ReportEmpty, rpcVars, senderVars, callerVars
    <1>2. \A t \in Target : puts[t] \in PutType
        BY <1>1 DEF TypeOK, PutType
    <1>3. ASSUME NEW t \in D
          PROVE  /\ putSenders[t] # {} /\ Fate(t) = "open"
                 /\ Store!Justified(donePuts'[t], Heard(t))
        <2>1. /\ puts[t].live /\ donePuts'[t] = TickVerdict(puts[t])
              /\ TickVerdict(puts[t]) # "pending"
            BY <1>1
        <2>2. Fate(t) = "open" /\ Heard(t) = Tallied(puts[t])
            BY <1>1, <2>1 DEF Fate, Heard
        <2>3. Store!Justified(TickVerdict(puts[t]), Tallied(puts[t]))
            BY <1>1, <1>2, <2>1, VerdictFits
        <2>4. putSenders[t] # {}
            BY <1>1, <2>1 DEF ReportFits
        <2>5. QED BY <2>1, <2>2, <2>3, <2>4
    <1>4. \A t \in Target \ D : Fate(t)' = Fate(t) /\ Heard(t)' = Heard(t)
        BY <1>1 DEF Fate, Heard, Tallied
    <1>5. D \in SUBSET Target /\ \A t \in D : donePuts'[t] # "pending"
        OBVIOUS
    <1> HIDE DEF D
    <1>6. QED BY <1>1, <1>3, <1>4, <1>5, Decides

LEMMA TickGetsImplements ==
    ASSUME StoreInv, TypeOK', TickGets
    PROVE  [Store!Next]_Store!vars
    <1> DEFINE D == {t \in Target : donePuts[t] = "pending" /\ donePuts'[t] # "pending"}
    <1>1. /\ TypeOK /\ ReportFits /\ UNCHANGED <<putSenders, calls, replies>>
          /\ \A t \in Target : puts[t] \in PutType /\ Sound(puts[t])
        BY CleanUpFits DEF StoreInv, MailInv, SenderInv, TypeOK, PutType
    <1>2. ASSUME NEW t \in D
          PROVE  /\ putSenders[t] # {} /\ Fate(t) = "open"
                 /\ Store!Justified(donePuts'[t], Heard(t))
        <2>1. /\ donePuts'[t] = "no_closest_nodes" /\ donePuts[t] = "pending"
              /\ puts[t].live /\ ~Started(puts[t])
            BY CleanUpFits
        <2>2. Tallied(puts[t]) = {}
            BY <1>1, <2>1 DEF Sound, Started
        <2>3. Fate(t) = "open" /\ Heard(t) = {}
            BY <2>1, <2>2 DEF Fate, Heard
        <2>4. QED BY <1>1, <2>1, <2>3 DEF ReportFits, Store!Justified
    <1>3. ASSUME NEW t \in Target \ D PROVE Fate(t)' = Fate(t) /\ Heard(t)' = Heard(t)
        <2>1. CASE donePuts[t] # "pending"
            BY <2>1, CleanUpFits DEF Fate, Heard
        <2>2. CASE donePuts[t] = "pending"
            <3>1. donePuts'[t] = "pending" /\ Fate(t)' = Fate(t)
                BY <2>2 DEF Fate
            <3>2. CASE puts'[t] = puts[t]
                BY <2>2, <3>1, <3>2 DEF Heard, Tallied
            <3>3. CASE /\ puts[t].live /\ ~Started(puts[t])
                       /\ \E tokens : puts'[t] = StartPut(puts[t], tokens)
                <4>1. Tallied(puts'[t]) = {} /\ Tallied(puts[t]) = {}
                    BY <1>1, <3>3, StartIsSound DEF Sound, Started
                <4>2. Heard(t) = {} /\ Heard(t)' = {}
                    BY <4>1 DEF Heard, Tallied
                <4>3. QED BY <3>1, <4>2
            <3>4. QED BY <2>2, <3>1, <3>2, <3>3, CleanUpFits
        <2>3. QED BY <2>1, <2>2
    <1>4. D \in SUBSET Target /\ \A t \in D : donePuts'[t] # "pending"
        OBVIOUS
    <1> HIDE DEF D
    <1>5. QED BY <1>1, <1>2, <1>3, <1>4, Decides

\* What a node answers to a put is heard, or is no news.
LEMMA PutAnswerImplements ==
    ASSUME StoreInv, NEW t \in Target, NEW s \in Sends, PutAnswer(t, s)
    PROVE  [Store!Next]_Store!vars
    <1>1. /\ TypeOK /\ ReportFits /\ UNCHANGED <<putSenders, donePuts, calls, replies>>
        BY DEF PutAnswer, StoreInv, MailInv, SenderInv, senderVars, callerVars
    <1>2. /\ puts[t].live /\ puts'[t].live /\ donePuts[t] = "pending"
          /\ Hears(Tallied(puts[t]), Tallied(puts'[t]))
          /\ \A u \in Target \ {t} : puts'[u] = puts[u]
        BY PutAnswerFits
    <1>3. told' = told /\ \A c \in Client : Told(c)' = Told(c)
        BY <1>1 DEF told, Told
    <1>4. fate' = fate /\ \A u \in Target : Fate(u)' = Fate(u)
        BY <1>1 DEF fate, Fate
    <1>5. \A u \in Target \ {t} : Heard(u)' = Heard(u)
        BY <1>1, <1>2 DEF Heard, Tallied
    <1>6. /\ Heard(t) = Tallied(puts[t])
          /\ Heard(t)' = Tallied(puts'[t])
        BY <1>1, <1>2 DEF Heard, Tallied
    <1>7. CASE Heard(t)' = Heard(t)
        BY <1>1, <1>3, <1>4, <1>5, <1>7, Unseen
    <1>8. CASE Heard(t)' # Heard(t)
        <2>1. PICK answer \in Store!Answer : Heard(t)' = Heard(t) \cup {answer}
            BY <1>2, <1>6, <1>8 DEF Hears
        <2>2. heard' = [heard EXCEPT ![t] = @ \cup {answer}]
            BY <1>5, <2>1 DEF heard
        <2>3. fate[t] = "open" /\ putSenders[t] # {}
            BY <1>1, <1>2 DEF fate, Fate, ReportFits
        <2>4. Store!Hear(t, answer)
            BY <1>1, <1>3, <1>4, <2>2, <2>3 DEF Store!Hear, heard, fate, told
        <2>5. QED BY <2>1, <2>4 DEF Store!Next
    <1>9. QED BY <1>7, <1>8

\* The report tells all who wait for what is over.
LEMMA ReportImplements ==
    ASSUME StoreInv, Report
    PROVE  [Store!Next]_Store!vars
    <1> DEFINE D == {t \in Target : donePuts[t] # "pending"}
    <1>1. /\ TypeOK /\ MailFits /\ NoCallerForgotten /\ ReportFits
          /\ phase = "report" /\ UNCHANGED <<calls, puts>>
          /\ replies' = [c \in Client |-> ReplyTo(c)]
          /\ putSenders' = [t \in Target |-> IF t \in D THEN {} ELSE putSenders[t]]
          /\ \A t \in Target : donePuts'[t] = "pending"
        BY DEF Report, StoreInv, MailInv, SenderInv, CallerInv, rpcVars
    <1>2. D = {t \in Target : fate[t] # "open"}
        BY <1>1, Sealed DEF fate
    <1>3. \A t \in Target : Fate(t)' = "open" /\ Heard(t)' = Heard(t)
        BY <1>1 DEF Fate, Heard, Tallied, ReportFits
    <1>4. \A c \in Client : EndedPut(c) = {t \in D : c \in putSenders[t]}
        BY DEF EndedPut
    <1>5. \A t \in D : fate[t] = donePuts[t]
        BY <1>1, Sealed DEF fate
    <1>6. \A c \in Client : \A t, u \in D : c \in putSenders[t] /\ c \in putSenders[u] => t = u
        BY <1>1 DEF NoCallerForgotten
    <1> HIDE DEF D
    <1>7. ASSUME NEW c \in Client
          PROVE  Told(c)' = IF \E t \in D : c \in putSenders[t]
                              THEN fate[CHOOSE t \in D : c \in putSenders[t]]
                              ELSE Told(c)
        <2>1. CASE calls[c].op # "put"
            <3>1. \A t \in Target : c \notin putSenders[t]
                BY <1>1, <2>1 DEF MailFits
            <3>2. ~ \E t \in D : c \in putSenders[t]
                BY <1>2, <3>1
            <3>3. QED BY <1>1, <2>1, <3>2 DEF Told
        <2>2. CASE calls[c].op = "put" /\ EndedPut(c) = {}
            <3>1. replies'[c] = replies[c]
                BY <1>1, <2>2, ReportTells DEF StoreInv
            <3>2. QED BY <1>1, <1>4, <2>2, <3>1 DEF Told
        <2>3. CASE calls[c].op = "put" /\ EndedPut(c) # {}
            <3>1. PICK t \in EndedPut(c) : TRUE
                BY <2>3
            <3>2. replies'[c] = Plain(donePuts[t])
                BY <1>1, <2>3, <3>1, ReportTells DEF StoreInv
            <3>3. t \in D /\ c \in putSenders[t]
                BY <1>4, <3>1
            <3>4. t = CHOOSE u \in D : c \in putSenders[u]
                BY <1>6, <3>3
            <3>5. Told(c)' = donePuts[t]
                BY <1>1, <2>3, <3>2 DEF Told, Plain
            <3>6. QED BY <1>5, <3>3, <3>4, <3>5
        <2>4. QED BY <2>1, <2>2, <2>3
    <1>8. CASE D = {}
        <2>1. putSenders' = putSenders
            BY <1>1, <1>8 DEF TypeOK
        <2>2. \A t \in Target : Fate(t)' = Fate(t)
            BY <1>2, <1>3, <1>8 DEF fate
        <2>3. QED BY <1>3, <1>7, <1>8, <2>1, <2>2, Unseen
    <1>9. CASE D # {}
        <2>1. fate' = [t \in Target |-> "open"] /\ heard' = heard
            BY <1>3 DEF fate, heard
        <2>2. told' = [c \in Client |-> IF \E t \in D : c \in putSenders[t]
                                          THEN fate[CHOOSE t \in D : c \in putSenders[t]]
                                          ELSE told[c]]
            BY <1>7 DEF told
        <2>3. LET E == {t \in Target : fate[t] # "open"} IN
              /\ E # {}
              /\ putSenders' = [t \in Target |-> IF t \in E THEN {} ELSE putSenders[t]]
              /\ fate' = [t \in Target |-> "open"]
              /\ told' = [c \in Client |-> IF \E t \in E : c \in putSenders[t]
                                             THEN fate[CHOOSE t \in E : c \in putSenders[t]]
                                             ELSE told[c]]
            BY <1>1, <1>2, <1>9, <2>1, <2>2
        <2>4. Store!Deliver
            BY <2>1, <2>3 DEF Store!Deliver, heard, fate, told
        <2>5. QED BY <2>4 DEF Store!Next
    <1>10. QED BY <1>8, <1>9

LEMMA CallImplements ==
    ASSUME StoreInv, NEW c \in Client, NEW call \in Calls, Call(c, call)
    PROVE  UNCHANGED Store!vars
    <1>1. /\ TypeOK /\ replies[c] = NoReply /\ calls[c] = NoCall
          /\ calls' = [calls EXCEPT ![c] = call]
          /\ UNCHANGED <<putSenders, puts, donePuts, replies>>
        BY DEF Call, StoreInv, MailInv, SenderInv, CallerInv, IdleUnanswered, rpcVars, reportVars,
               senderVars
    <1>2. \A d \in Client \ {c} : calls'[d] = calls[d]
        BY <1>1 DEF TypeOK
    <1>3. \A d \in Client : Told(d)' = Told(d)
        BY <1>1, <1>2 DEF Told, NoCall, NoReply, Plain
    <1>4. \A t \in Target : Fate(t)' = Fate(t) /\ Heard(t)' = Heard(t)
        BY <1>1 DEF Fate, Heard, Tallied
    <1>5. QED BY <1>1, <1>3, <1>4, Unseen

LEMMA ReturnImplements ==
    ASSUME StoreInv, NEW c \in Client, Return(c)
    PROVE  [Store!Next]_Store!vars
    <1>1. /\ TypeOK /\ MailFits /\ replies[c] # NoReply
          /\ calls' = [calls EXCEPT ![c] = NoCall]
          /\ replies' = [replies EXCEPT ![c] = NoReply]
          /\ UNCHANGED <<putSenders, puts, donePuts>>
        BY DEF Return, StoreInv, MailInv, SenderInv, rpcVars, reportVars, senderVars
    <1>2. \A d \in Client \ {c} : calls'[d] = calls[d] /\ replies'[d] = replies[d]
        BY <1>1 DEF TypeOK
    <1>3. calls'[c] = NoCall
        BY <1>1 DEF TypeOK
    <1>4. \A d \in Client : Told(d)' = IF d = c THEN "none" ELSE Told(d)
        BY <1>2, <1>3 DEF Told, NoCall
    <1>5. \A t \in Target : Fate(t)' = Fate(t) /\ Heard(t)' = Heard(t)
        BY <1>1 DEF Fate, Heard, Tallied
    <1>6. CASE calls[c].op = "put"
        <2>1. Told(c) # "none"
            BY <1>1, <1>6 DEF Told, MailFits
        <2>2. /\ told[c] # "none" /\ told' = [told EXCEPT ![c] = "none"]
              /\ fate' = fate /\ heard' = heard
            BY <1>4, <1>5, <2>1 DEF heard, fate, told
        <2>3. Store!Return(c)
            BY <1>1, <2>2 DEF Store!Return, heard, fate, told
        <2>4. QED BY <2>3 DEF Store!Next
    <1>7. CASE calls[c].op # "put"
        <2>1. \A d \in Client : Told(d)' = Told(d)
            BY <1>4, <1>7 DEF Told
        <2>2. QED BY <1>1, <1>5, <2>1, Unseen
    <1>8. QED BY <1>6, <1>7

LEMMA ExpirePutImplements ==
    ASSUME StoreInv, NEW t \in Target, NEW s \in Sends, ExpirePut(t, s)
    PROVE  UNCHANGED Store!vars
    <1>1. /\ TypeOK /\ \A u \in Target : Sound(puts[u]) /\ puts[u] \in PutType
          /\ puts' = [puts EXCEPT ![t] = Unanswered(@, s)]
          /\ UNCHANGED <<putSenders, donePuts, calls, replies>>
        BY DEF ExpirePut, StoreInv, MailInv, SenderInv, TypeOK, PutType, reportVars, senderVars,
               callerVars
    <1>2. \A u \in Target : /\ puts'[u].live = puts[u].live
                            /\ Tallied(puts'[u]) = Tallied(puts[u])
        BY <1>1, UnansweredIsSound DEF TypeOK
    <1>3. \A u \in Target : Fate(u)' = Fate(u) /\ Heard(u)' = Heard(u)
        BY <1>1, <1>2 DEF Fate, Heard, Tallied
    <1>4. \A c \in Client : Told(c)' = Told(c)
        BY <1>1 DEF Told
    <1>5. QED BY <1>1, <1>3, <1>4, Unseen

LEMMA StepImplements ==
    ASSUME StoreInv, TypeOK', [Next]_vars
    PROVE  [Store!Next]_Store!vars
    <1>1. CASE ReceiveNothing \/ Maintain \/ UNCHANGED vars
        BY <1>1, QuietIsUnseen
        DEF ReceiveNothing, Maintain, vars, rpcVars, reportVars, senderVars, callerVars
    <1>2. CASE \/ NoMessage
               \/ \E t \in Target, r \in Requests : LookupAnswer(t, r)
        BY <1>2, QuietIsUnseen
        DEF NoMessage, LookupAnswer, rpcVars, senderVars, callerVars
    <1>3. CASE \/ \E t \in Target, r \in Requests : ExpireLookup(t, r)
               \/ \E t \in Target : CacheAges(t)
        BY <1>3, QuietIsUnseen
        DEF ExpireLookup, CacheAges, rpcVars, reportVars, senderVars, callerVars
    <1>4. CASE \E t \in Target, s \in Sends : PutAnswer(t, s)
        BY <1>4, PutAnswerImplements
    <1>5. CASE \E t \in Target, s \in Sends : ExpirePut(t, s)
        BY <1>5, ExpirePutImplements
    <1>6. CASE Callers
        BY <1>6, CallImplements, ReturnImplements DEF Callers
    <1>7. CASE Receive
        BY <1>7, ReceiveImplements
    <1>8. CASE TickPuts
        BY <1>8, TickPutsImplements
    <1>9. CASE TickGets
        BY <1>9, TickGetsImplements
    <1>10. CASE Report
        BY <1>10, ReportImplements
    <1>11. QED
        BY <1>1, <1>2, <1>3, <1>4, <1>5, <1>6, <1>7, <1>8, <1>9, <1>10
        DEF Next, Actor, Clock, Message

\* dht.rs, Dht::put and the reports of the loop: all who store at a target share one
\* fate, and they all learn it together, once.  It follows from what the nodes answered,
\* each error code counted for itself: Ok only if one has stored the value, a
\* concurrency error only if one has refused it with that error, "no nodes" only if none
\* has answered, and "timeout" only if none has stored the value.
THEOREM StoreIsKept == Spec => StorePromise
    <1>1. Init => Store!Init
        <2> SUFFICES ASSUME Init PROVE Store!Init
            OBVIOUS
        <2>1. \A t \in Target : Fate(t) = "open" /\ Heard(t) = {}
            BY NoPutTypes DEF Init, Fate, Heard
        <2>2. \A c \in Client : Told(c) = "none"
            BY DEF Init, Told, NoCall
        <2>3. QED BY <2>1, <2>2 DEF Init, Store!Init
    <1>2. StoreInv /\ TypeOK' /\ [Next]_vars => [Store!Next]_Store!vars
        BY StepImplements
    <1>3. StoreInv => TypeOK
        BY DEF StoreInv, MailInv, SenderInv
    <1>4. QED BY <1>1, <1>2, <1>3, StoreInvHolds, PTL DEF Spec, StorePromise, Store!Spec
-----------------------------------------------------------------------------
(* A put that waits has a lookup to start it, as long as no find_node is     *)
(* made on a target that is stored at: by a caller or for an own id.         *)

StoredAt == {call.target : call \in Puts}

NoneCrawls ==
    /\ StoredAt \cap OwnIds = {}
    /\ \A call \in Gets : call.kind = "find_node" => call.target \notin StoredAt

\* A lookup of values or peers finds the nodes it has tokens of, so a put that is
\* started from what it cached is sent to somebody.
Clear(t) ==
    /\ lookups[t].kind # "find_node"
    /\ cached[t].tokens = cached[t].nodes
    /\ puts[t].live /\ ~Started(puts[t]) => Active(t)

ClearInv == \A t \in Target : IF t \in StoredAt THEN Clear(t) ELSE ~puts[t].live

LEMMA StartIsStarted ==
    ASSUME NEW put \in PutType, NEW tokens, tokens # {}
    PROVE  Started(StartPut(put, tokens))
    <1> DEFINE extra == put.request.extra \X {"extra"}
    <1>1. PICK n \in tokens : TRUE
        OBVIOUS
    <1>2. <<n, "closest">> \in tokens \X {"closest"}
        OBVIOUS
    <1>3. StartPut(put, tokens).sent = (tokens \X {"closest"}) \cup extra
        BY DEF StartPut, PutType, Put
    <1>4. QED BY <1>2, <1>3 DEF Started

\* What a step leaves alone when it neither starts nor ends anything.
SameQueries(t) ==
    /\ lookups'[t].kind = lookups[t].kind
    /\ cached'[t].nodes = cached[t].nodes /\ cached'[t].tokens = cached[t].tokens
    /\ puts'[t].live = puts[t].live /\ puts'[t].sent = puts[t].sent

LEMMA PutsKeepTheirSends ==
    ASSUME NEW put \in PutType
    PROVE  /\ \A send : /\ Unanswered(put, send).live = put.live
                        /\ Unanswered(put, send).sent = put.sent
           /\ Success(put).live = put.live /\ Success(put).sent = put.sent
           /\ \A code \in ErrorCode : /\ Failure(put, code).live = put.live
                                      /\ Failure(put, code).sent = put.sent
    BY DEF Unanswered, Success, Failure, PutType, Put

LEMMA MessageStarts ==
    ASSUME TypeOK, Message, NEW t \in Target
    PROVE  SameQueries(t)
    <1> USE DEF PutType
    <1>1. lookups \in [Target -> Lookup] /\ puts \in [Target -> PutType]
        BY DEF TypeOK
    <1>2. CASE NoMessage
        BY <1>2 DEF NoMessage, rpcVars, SameQueries
    <1>3. ASSUME NEW u \in Target, NEW r \in Requests, LookupAnswer(u, r)
          PROVE  SameQueries(t)
        <2>1. PICK nodes \in SUBSET Node, hasToken \in BOOLEAN, types \in SUBSET ValueType :
                  lookups' = [lookups EXCEPT ![u] = Answered(@, r, nodes, hasToken, types)]
            BY <1>3, AnswerChoices
        <2>2. lookups'[t].kind = lookups[t].kind
            BY <1>1, <2>1, AnsweredTypes
        <2>3. QED BY <1>3, <2>2 DEF LookupAnswer, SameQueries
    <1>4. ASSUME NEW u \in Target, NEW s \in Sends, PutAnswer(u, s)
          PROVE  SameQueries(t)
        <2> DEFINE put == Unanswered(puts[u], s)
        <2>1. put \in PutType /\ put.live = puts[u].live /\ put.sent = puts[u].sent
            BY <1>1, UnansweredTypes, PutsKeepTheirSends
        <2>2. PICK after \in {put, Success(put)} \cup {Failure(put, e) : e \in ErrorCode} :
                  puts' = [puts EXCEPT ![u] = after]
            BY <1>4 DEF PutAnswer
        <2> HIDE DEF put
        <2>3. after.live = puts[u].live /\ after.sent = puts[u].sent
            BY <2>1, <2>2, PutsKeepTheirSends
        <2>4. QED BY <1>1, <1>4, <2>2, <2>3 DEF PutAnswer, SameQueries
    <1>5. QED BY <1>2, <1>3, <1>4 DEF Message

LEMMA ReceiveStarts ==
    ASSUME TypeOK, ClearInv, NoneCrawls, Receive
    PROVE  ClearInv'
    <1> USE DEF PutType
    <1> DEFINE c == Head(mailbox).client
               call == Head(mailbox).call
               t == call.target
    <1>1. call \in Calls /\ cached' = cached
        BY MailTypes DEF Receive, ReceivePut, ReceiveGet, ReceiveInfo, rpcVars
    <1>2. lookups \in [Target -> Lookup] /\ puts \in [Target -> PutType]
        BY DEF TypeOK
    <1>3. ASSUME UNCHANGED <<lookups, puts>> PROVE ClearInv'
        BY <1>1, <1>3 DEF ClearInv, Clear, Active
    <1>4. CASE call.op = "put"
        <2>1. t \in Target /\ call.request \in PutRequest /\ t \in StoredAt
            BY <1>1, <1>4, CallTypes, PutsAssumption DEF PutCall, StoredAt
        <2>2. AdmitPut(t, call.request) \/ UNCHANGED <<lookups, puts>>
            BY <1>4 DEF Receive, ReceivePut
        <2>3. CASE AdmitPut(t, call.request)
            <3>1. NewPut(call.request) \in PutType
                BY <2>1, NewPutTypes
            <3>2. CASE cached[t].nodes # {} /\ cached[t].fresh
                <4>1. Started(StartPut(NewPut(call.request), cached[t].tokens))
                    BY <2>1, <3>1, <3>2, StartIsStarted DEF ClearInv, Clear
                <4>2. QED
                    BY <1>1, <1>2, <2>1, <2>3, <3>2, <4>1 DEF AdmitPut, ClearInv, Clear, Active
            <3>3. CASE ~(cached[t].nodes # {} /\ cached[t].fresh)
                <4>1. PICK seeds \in SUBSET Node :
                          lookups' = [lookups EXCEPT ![t] = LookupAfterGet(t, "get_value", seeds)]
                    BY <2>3, <3>3 DEF AdmitPut
                <4>2. LookupAfterGet(t, "get_value", seeds).kind \notin {"none", "find_node"}
                    BY <2>1, GetTypes DEF LookupKind, ClearInv, Clear
                <4>3. puts' = [puts EXCEPT ![t] = NewPut(call.request)]
                    BY <2>3, <3>3 DEF AdmitPut
                <4>4. QED BY <1>1, <1>2, <2>1, <4>1, <4>2, <4>3 DEF ClearInv, Clear, Active
            <3>4. QED BY <3>2, <3>3
        <2>4. QED BY <1>3, <2>2, <2>3
    <1>5. CASE call.op = "get"
        <2>1. t \in Target /\ call.kind \in LookupKind /\ call \in Gets
            BY <1>1, <1>5, CallTypes, GetsAssumption DEF GetCall
        <2>2. PICK seeds \in SUBSET Node :
                  lookups' = [lookups EXCEPT ![t] = LookupAfterGet(t, call.kind, seeds)]
            BY <1>5 DEF Receive, ReceiveGet
        <2>3. puts' = puts
            BY <1>5 DEF Receive, ReceiveGet
        <2>4. /\ LookupAfterGet(t, call.kind, seeds).kind # "none"
              /\ t \in StoredAt => LookupAfterGet(t, call.kind, seeds).kind # "find_node"
            BY <2>1, GetTypes DEF NoneCrawls, ClearInv, Clear
        <2>5. QED BY <1>1, <1>2, <2>1, <2>2, <2>3, <2>4 DEF ClearInv, Clear, Active
    <1>6. CASE call.op \notin {"put", "get"}
        BY <1>3, <1>6 DEF Receive, ReceiveInfo, rpcVars
    <1>7. QED BY <1>4, <1>5, <1>6

LEMMA TickGetsStarts ==
    ASSUME TypeOK, ClearInv, TickGets
    PROVE  ClearInv'
    <1> USE DEF PutType
    <1>1. PICK cut \in [Finished -> Cuts], evicted \in SUBSET Target :
              CleanUp([t \in Finished |-> LookupResult(Ticked(t), cut[t])], evicted)
        BY DEF TickGets
    <1> DEFINE result == [t \in Finished |-> LookupResult(Ticked(t), cut[t])]
    <1>2. \A t \in Target : Ticked(t).kind = lookups[t].kind /\ puts[t] \in PutType
        BY TickedTypes DEF TypeOK
    <1>3. \A t \in Finished : lookups[t].kind # "find_node" => result[t].tokens = result[t].nodes
        BY <1>2 DEF LookupResult, Finished
    <1> HIDE DEF result
    <1>4. CleanUp(result, evicted)
        BY <1>1 DEF result
    <1>5. ASSUME NEW t \in Target, t \notin StoredAt
          PROVE  ~puts'[t].live
        <2>1. ~puts[t].live /\ ~Waiting(t)
            BY <1>5 DEF ClearInv, Waiting
        <2>2. puts'[t] \in {NoPut, puts[t]}
            BY <1>4, <2>1 DEF CleanUp
        <2>3. QED BY <2>1, <2>2, NoPutTypes
    <1>6. ASSUME NEW t \in Target, t \in StoredAt
          PROVE  Clear(t)'
        <2>1. Clear(t)
            BY <1>6 DEF ClearInv
        <2>2. lookups'[t].kind = IF t \in Finished THEN "none" ELSE lookups[t].kind
            BY <1>2, <1>4 DEF CleanUp, NoLookup
        <2>3. cached'[t].tokens = cached'[t].nodes
            BY <1>3, <1>4, <2>1 DEF CleanUp, NotCached, Clear
        <2>4. ASSUME puts'[t].live, ~Started(puts'[t])
              PROVE  lookups'[t].kind # "none"
            <3>1. /\ donePuts[t] = "pending" /\ ~(Waiting(t) /\ result[t].nodes = {})
                  /\ puts'[t] = IF Waiting(t) THEN StartPut(puts[t], result[t].tokens) ELSE puts[t]
                BY <1>4, <2>4, NoPutTypes DEF CleanUp
            <3>2. ~Waiting(t)
                <4> SUFFICES ASSUME Waiting(t) PROVE FALSE
                    OBVIOUS
                <4>1. result[t].tokens # {}
                    BY <1>3, <2>1, <3>1 DEF Waiting, Clear
                <4>2. QED BY <1>2, <2>4, <3>1, <4>1, StartIsStarted
            <3>3. puts[t].live /\ ~Started(puts[t]) /\ Active(t)
                BY <2>1, <2>4, <3>1, <3>2 DEF Clear
            <3>4. t \notin Finished
                BY <2>1, <3>2, <3>3 DEF Waiting, Clear
            <3>5. QED BY <2>2, <3>3, <3>4 DEF Active
        <2>5. QED BY <2>1, <2>2, <2>3, <2>4 DEF Clear, Active
    <1>7. QED BY <1>5, <1>6 DEF ClearInv

LEMMA ClearStep ==
    ASSUME TypeOK, ClearInv, NoneCrawls, [Next]_vars
    PROVE  ClearInv'
    <1> USE DEF PutType
    <1>1. ASSUME \A t \in Target : SameQueries(t) PROVE ClearInv'
        BY <1>1 DEF SameQueries, ClearInv, Clear, Started, Active
    <1>2. lookups \in [Target -> Lookup] /\ puts \in [Target -> PutType]
        BY DEF TypeOK
    <1>3. CASE Receive
        BY <1>3, ReceiveStarts
    <1>4. CASE TickGets
        BY <1>4, TickGetsStarts
    <1>5. CASE Maintain
        <2>1. UNCHANGED <<puts, cached>>
            BY <1>5 DEF Maintain
        <2>2. \A t \in StoredAt \cap Target : lookups'[t] = lookups[t]
            <3>1. ASSUME NEW u \in OwnIds, NEW one,
                         lookups' = [lookups EXCEPT ![u] = one]
                  PROVE  \A t \in StoredAt \cap Target : lookups'[t] = lookups[t]
                BY <1>2, <3>1 DEF NoneCrawls
            <3>2. QED BY <1>5, <3>1 DEF Maintain
        <2>3. \A t \in StoredAt \cap Target : Clear(t) => Clear(t)'
            BY <2>1, <2>2 DEF Clear, Active
        <2>4. QED BY <2>1, <2>3 DEF ClearInv
    <1>6. CASE Message
        BY <1>1, <1>6, MessageStarts
    <1>7. ASSUME NEW u \in Target, NEW r, ExpireLookup(u, r)
          PROVE  \A t \in Target : SameQueries(t)
        BY <1>2, <1>7, SettleTypes DEF ExpireLookup, SameQueries
    <1>8. ASSUME NEW u \in Target, NEW s, ExpirePut(u, s)
          PROVE  \A t \in Target : SameQueries(t)
        <2>1. /\ Unanswered(puts[u], s).live = puts[u].live
              /\ Unanswered(puts[u], s).sent = puts[u].sent
            BY <1>2, PutsKeepTheirSends
        <2>2. QED BY <1>2, <1>8, <2>1 DEF ExpirePut, SameQueries
    <1>9. ASSUME NEW u \in Target, CacheAges(u)
          PROVE  \A t \in Target : SameQueries(t)
        BY <1>9 DEF CacheAges, SameQueries, TypeOK
    <1>10. CASE ReceiveNothing \/ TickPuts \/ Report \/ Callers \/ UNCHANGED vars
        <2>1. UNCHANGED <<lookups, puts, cached>>
            BY <1>10 DEF ReceiveNothing, TickPuts, Report, Callers, Call, Return, vars, rpcVars
        <2>2. QED BY <1>1, <2>1 DEF SameQueries
    <1>11. QED
        BY <1>1, <1>3, <1>4, <1>5, <1>6, <1>7, <1>8, <1>9, <1>10 DEF Next, Actor, Clock

\* rpc.rs, Rpc::put and cleanup_done_queries: a put that has sent nothing yet has a
\* lookup under way that will start it, wherever no find_node is made on a target that
\* is stored at.  (Where one is, the put may wait for ever.)
THEOREM WaitingPutsAreStarted == NoneCrawls => (Spec => []UnstartedPutHasLookup)
    <1> SUFFICES ASSUME NoneCrawls PROVE Spec => []UnstartedPutHasLookup
        OBVIOUS
    <1>1. Init => ClearInv
        <2> SUFFICES ASSUME Init PROVE ClearInv
            OBVIOUS
        <2>1. QED
            BY NoPutTypes DEF Init, ClearInv, Clear, NoLookup, NotCached
    <1>2. TypeOK /\ ClearInv /\ [Next]_vars => ClearInv'
        BY ClearStep
    <1>3. ClearInv => UnstartedPutHasLookup
        BY DEF ClearInv, Clear, UnstartedPutHasLookup
    <1>4. QED BY <1>1, <1>2, <1>3, TypeCorrect, PTL DEF Spec

=============================================================================
