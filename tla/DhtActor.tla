------------------------------ MODULE DhtActor ------------------------------
(***************************************************************************)
(* The DHT node as its callers see it (rust/mainline): the Dht handle      *)
(* sends messages to the one actor thread, whose loop takes at most one    *)
(* message and then runs one Rpc::tick -- store queries, lookups and their *)
(* clean-up, maintenance, one datagram -- and reports what finished to the *)
(* channels of the callers.                                                *)
(*                                                                         *)
(* "phase" is where the loop stands.  Callers, the clock (a request that   *)
(* times out, a token that ages) and the network act between any two       *)
(* phases.  The network is a choice made when the loop reads a datagram:   *)
(* the socket hands over an answer only to a request it still counts as in *)
(* flight, so the requests in flight say which answers can arrive; a lost  *)
(* or late answer is an expired request.                                   *)
(*                                                                         *)
(* What the routing table contributes to a lookup, its closest nodes, is   *)
(* any set of nodes: the table is another component.                       *)
(***************************************************************************)
EXTENDS IterativeQuery, Sequences

CONSTANTS
    Target,     \* the ids looked up and stored at
    OwnIds,     \* the ids the node looks up by itself: its own, old or new
    Client,     \* the callers of a Dht handle: each stands for one channel at a time
    Signature,  \* one per signed mutable item
    OtherCode,  \* the error codes of answers other than 301 and 302
    Carries,    \* the types of values that nodes send
    Puts,       \* the put calls that clients may make
    Gets        \* the get calls that clients may make

INSTANCE PutQuery

PutCall == [op : {"put"}, target : Target, request : PutRequest]

\* find_node is (find_node, closest), get_closest_nodes (get_value, closest),
\* get_peers (get_peers, peers), get_immutable and get_mutable (get_value, value).
GetCall == [op : {"get"}, target : Target, kind : LookupKind,
            want : {"closest", "peers", "value"}]

\* Info, Check, ToBootstrap and SeedRouting: answered when they are received.
InfoCall == [op |-> "info"]

NoCall == [op |-> "none"]

ASSUME TargetAssumption == Target # {}
ASSUME OwnIdsAssumption == OwnIds \subseteq Target
ASSUME PutsAssumption == Puts \subseteq PutCall
ASSUME GetsAssumption == Gets \subseteq GetCall
ASSUME CarriesAssumption == Carries \subseteq ValueType
ASSUME CodeAssumption == OtherCode \cap {"301", "302"} = {}

\* stored_at and the counts of errors are bytes, and PutQuery::start panics when it
\* is given more than 255 nodes: the requests of one put stay below that.
ASSUME ByteAssumption == IsFiniteSet(Node) /\ Cardinality(Sends) <= 255

Calls == Puts \cup Gets \cup {InfoCall}

PutResult == PutError \cup {"ok"}

Reply == [what : PutResult \cup {"none", "info", "closest", "closed"},
          nodes : SUBSET Node, tokens : SUBSET Node]

Plain(w) == [what |-> w, nodes |-> {}, tokens |-> {}]
NoReply  == Plain("none")

\* A request slot of the put_queries map that holds no query.
BlankRequest == [kind |-> "immutable", sig |-> CHOOSE s \in Signature : TRUE,
                 seq |-> 0, hasCas |-> FALSE, cas |-> 0, extra |-> {}]
NoPut == [NewPut(BlankRequest) EXCEPT !.live = FALSE]

ASSUME SignatureAssumption == Signature # {}

Phase == {"recv", "puts", "gets", "maintain", "message", "report"}

VARIABLES
    phase,       \* where the loop of the actor thread stands
    lookups,     \* iterative_queries: Target -> Lookup
    puts,        \* put_queries: Target -> Put
    cached,      \* cached_iterative_queries: the nodes kept for each target
    doneGets,    \* done_get_queries of the tick being run
    donePuts,    \* done_put_queries of the tick being run
    news,        \* new_query_response of the tick being run
    mailbox,     \* the channel from the handles to the actor
    getSenders,  \* get_senders: Target -> the callers listening to its lookup
    putSenders,  \* put_senders: Target -> the callers waiting for its put
    calls,       \* the call each client is blocked in
    got,         \* the values each caller has received, with their count
    replies      \* the final answer each caller has received

rpcVars    == <<lookups, puts, cached>>
reportVars == <<doneGets, donePuts, news>>
senderVars == <<getSenders, putSenders>>
callerVars == <<calls, got, replies>>
vars == <<phase, rpcVars, reportVars, mailbox, senderVars, callerVars>>

\* The value of the put in flight, echoed to a reader: it answers no request.
Own == <<<<"own", "put">>, "value">>

Source == Values \cup {Own}

NoResult == [ready |-> FALSE, nodes |-> {}, tokens |-> {}]
NoNews   == [target |-> CHOOSE t \in Target : TRUE, from |-> {}]
NotCached == [nodes |-> {}, tokens |-> {}, fresh |-> FALSE]
Nothing  == [s \in Source |-> 0]

Active(t) == lookups[t].kind # "none"

Init ==
    /\ phase = "recv"
    /\ lookups = [t \in Target |-> NoLookup]
    /\ puts = [t \in Target |-> NoPut]
    /\ cached = [t \in Target |-> NotCached]
    /\ doneGets = [t \in Target |-> NoResult]
    /\ donePuts = [t \in Target |-> "pending"]
    /\ news = NoNews
    /\ mailbox = <<>>
    /\ getSenders = [t \in Target |-> {}]
    /\ putSenders = [t \in Target |-> {}]
    /\ calls = [c \in Client |-> NoCall]
    /\ got = [c \in Client |-> Nothing]
    /\ replies = [c \in Client |-> NoReply]

-----------------------------------------------------------------------------
(* Callers.  A call blocks its client until it has an answer. *)

\* A method of Dht: send the message and wait on a fresh channel.
Call(c, call) ==
    /\ calls[c] = NoCall
    /\ calls' = [calls EXCEPT ![c] = call]
    /\ mailbox' = Append(mailbox, [client |-> c, call |-> call])
    /\ UNCHANGED <<phase, rpcVars, reportVars, senderVars, got, replies>>

\* The method returns: the channel is gone with what it held.
Return(c) ==
    /\ replies[c] # NoReply
    /\ calls' = [calls EXCEPT ![c] = NoCall]
    /\ got' = [got EXCEPT ![c] = Nothing]
    /\ replies' = [replies EXCEPT ![c] = NoReply]
    /\ UNCHANGED <<phase, rpcVars, reportVars, mailbox, senderVars>>

-----------------------------------------------------------------------------
(* The clock. *)

\* A request of a lookup reaches the request timeout of the socket.
ExpireLookup(t, r) ==
    /\ r \in lookups[t].flying
    /\ lookups' = [lookups EXCEPT ![t] = Settle(@, r)]
    /\ UNCHANGED <<phase, puts, cached, reportVars, mailbox, senderVars, callerVars>>

\* A request of a put reaches it.
ExpirePut(t, s) ==
    /\ s \in puts[t].flying
    /\ puts' = [puts EXCEPT ![t] = Unanswered(@, s)]
    /\ UNCHANGED <<phase, lookups, cached, reportVars, mailbox, senderVars, callerVars>>

\* The nodes cached for t were all seen more than TOKEN_ROTATE_INTERVAL ago.
CacheAges(t) ==
    /\ cached[t].fresh
    /\ cached' = [cached EXCEPT ![t].fresh = FALSE]
    /\ UNCHANGED <<phase, lookups, puts, reportVars, mailbox, senderVars, callerVars>>

-----------------------------------------------------------------------------
(* The loop takes a message, or none. *)

\* Rpc::get: a target with a lookup keeps it, whatever its kind.  "seeds" are
\* the closest nodes of the routing table.
LookupAfterGet(t, kind, seeds) ==
    IF Active(t) THEN lookups[t]
    ELSE StartLookup(kind, seeds, cached[t].nodes, cached[t].tokens)

\* A value goes into a channel of its own type only.
Wants(call, s) == call.want = s[2]

\* The values handed to a caller at once: those the running lookup has seen
\* and the item of a mutable put in flight.
Replay(call) ==
    LET t == call.target
        seen == lookups[t].values \cup
                IF puts[t].live /\ puts[t].request.kind = "mutable" THEN {Own} ELSE {}
    IN  [s \in Source |-> IF Wants(call, s) /\ s \in seen THEN 1 ELSE 0]

ReceiveGet(c, call) ==
    LET t == call.target IN
    /\ \E seeds \in SUBSET Node :
          lookups' = [lookups EXCEPT ![t] = LookupAfterGet(t, call.kind, seeds)]
    /\ got' = [got EXCEPT ![c] = Replay(call)]
    /\ getSenders' = [getSenders EXCEPT ![t] = @ \cup {c}]
    /\ UNCHANGED <<puts, cached, putSenders, replies>>

\* The put is started from the nodes cached for the target if one of them was
\* seen recently, and otherwise waits for a lookup of the target.
AdmitPut(t, request) ==
    IF cached[t].nodes # {} /\ cached[t].fresh
      THEN /\ puts' = [puts EXCEPT ![t] = StartPut(NewPut(request), cached[t].tokens)]
           /\ UNCHANGED lookups
      ELSE /\ puts' = [puts EXCEPT ![t] = NewPut(request)]
           /\ \E seeds \in SUBSET Node :
                 lookups' = [lookups EXCEPT ![t] = LookupAfterGet(t, "get_value", seeds)]

\* Mutant: a caller that joins the put in flight is not entered in put_senders.
ListenersWithoutJoiners(t, c, verdict) ==
    IF verdict = "join" THEN putSenders[t] ELSE putSenders[t] \cup {c}

\* The sender of every admitted call waits for the put of its target.
Listeners(t, c, verdict) == putSenders[t] \cup {c}

ReceivePut(c, call) ==
    LET t == call.target
        verdict == Admission(puts[t], call.request)
    IN  /\ IF verdict \in {"new", "replace"} THEN AdmitPut(t, call.request)
                                             ELSE UNCHANGED <<puts, lookups>>
        /\ IF verdict \in PutError
             THEN /\ replies' = [replies EXCEPT ![c] = Plain(verdict)]
                  /\ UNCHANGED putSenders
             ELSE /\ putSenders' = [putSenders EXCEPT ![t] = Listeners(t, c, verdict)]
                  /\ UNCHANGED replies
        /\ UNCHANGED <<cached, getSenders, got>>

ReceiveInfo(c) ==
    /\ replies' = [replies EXCEPT ![c] = Plain("info")]
    /\ UNCHANGED <<rpcVars, senderVars, got>>

Receive ==
    /\ phase = "recv"
    /\ mailbox # <<>>
    /\ LET c == Head(mailbox).client
           call == Head(mailbox).call
       IN  CASE call.op = "put" -> ReceivePut(c, call)
             [] call.op = "get" -> ReceiveGet(c, call)
             [] OTHER           -> ReceiveInfo(c)
    /\ mailbox' = Tail(mailbox)
    /\ phase' = "puts"
    /\ UNCHANGED <<reportVars, calls>>

ReceiveNothing ==
    /\ phase = "recv"
    /\ mailbox = <<>>
    /\ phase' = "puts"
    /\ UNCHANGED <<rpcVars, reportVars, mailbox, senderVars, callerVars>>

-----------------------------------------------------------------------------
(* Rpc::tick. *)

TickPuts ==
    /\ phase = "puts"
    /\ donePuts' = [t \in Target |->
                      IF puts[t].live THEN TickVerdict(puts[t]) ELSE "pending"]
    /\ phase' = "gets"
    /\ UNCHANGED <<rpcVars, doneGets, news, mailbox, senderVars, callerVars>>

\* tick_get_queries: every lookup visits its new closest candidates, then is
\* done if nothing of it is in flight.
Ticked(t) == IF Active(t) THEN VisitClosest(lookups[t]) ELSE lookups[t]

\* Mutant: a lookup is judged before it visits its new candidates.
FinishedEarly == {t \in Target : Active(t) /\ LookupDone(lookups[t])}

Finished == {t \in Target : Active(t) /\ LookupDone(Ticked(t))}

\* Mutant: only a lookup of peers starts the put that waits for it.
WaitingOfPeers(t) ==
    /\ t \in Finished
    /\ lookups[t].kind = "get_peers"
    /\ puts[t].live
    /\ ~Started(puts[t])

\* cleanup_done_queries: whose put the finished lookup of t was waiting for.
Waiting(t) ==
    /\ t \in Finished
    /\ lookups[t].kind # "find_node"
    /\ puts[t].live
    /\ ~Started(puts[t])

\* The puts the tick ended, and those that could not be started.
Verdicts(failed) ==
    [t \in Target |-> IF t \in failed THEN "no_closest_nodes" ELSE donePuts[t]]

\* The two loops of cleanup_done_queries, given the result of each lookup.
CleanUp(result, evicted) ==
    LET failed == {t \in Target : Waiting(t) /\ result[t].nodes = {}}
        ended  == failed \cup {t \in Target : donePuts[t] # "pending"}
    IN  /\ lookups' = [t \in Target |->
                         IF t \in Finished THEN NoLookup ELSE Ticked(t)]
        /\ cached' = [t \in Target |->
                        IF t \in Finished /\ Ticked(t).closest # {}
                          THEN [nodes |-> result[t].nodes,
                                tokens |-> result[t].tokens,
                                fresh |-> result[t].nodes # {}]
                        ELSE IF t \in evicted THEN NotCached ELSE cached[t]]
        /\ puts' = [t \in Target |->
                      IF t \in ended THEN NoPut
                      ELSE IF Waiting(t) THEN StartPut(puts[t], result[t].tokens)
                      ELSE puts[t]]
        /\ donePuts' = Verdicts(failed)
        /\ doneGets' = [t \in Target |->
                          IF t \in Finished
                            THEN [ready |-> TRUE, nodes |-> result[t].nodes,
                                  tokens |-> result[t].tokens]
                            ELSE NoResult]

\* The cache is an LRU of bounded size: each finished lookup may push one
\* other target out of it.
TickGets ==
    /\ phase = "gets"
    /\ \E cut \in [Finished -> Cuts] :
       \E evicted \in SUBSET Target :
          /\ Cardinality(evicted) <= Cardinality(Finished)
          /\ CleanUp([t \in Finished |-> LookupResult(Ticked(t), cut[t])], evicted)
    /\ phase' = "maintain"
    /\ UNCHANGED <<news, mailbox, senderVars, callerVars>>

\* periodic_node_maintenance: populate, when it is due, looks up the own id.
Maintain ==
    /\ phase = "maintain"
    /\ \/ UNCHANGED lookups
       \/ \E t \in OwnIds, seeds \in SUBSET Node :
             lookups' = [lookups EXCEPT ![t] = LookupAfterGet(t, "find_node", seeds)]
    /\ phase' = "message"
    /\ UNCHANGED <<puts, cached, reportVars, mailbox, senderVars, callerVars>>

\* handle_message: nothing to read, or a message that belongs to no query: a
\* request of another node, an answer nobody waits for any more.
NoMessage ==
    /\ phase = "message"
    /\ news' = NoNews
    /\ phase' = "report"
    /\ UNCHANGED <<rpcVars, doneGets, donePuts, mailbox, senderVars, callerVars>>

\* What a message can hold for a lookup: peers, an item that passed the checks, or
\* no value.
Carried == {{}} \cup {{type} : type \in Carries}

\* The answer to a request of the lookup of t, the query or the ping of a visit.  It
\* can be of any kind: messages with a value carry a token, a message of a node
\* that calls itself read-only is ignored.  A value goes on to the callers.
LookupAnswer(t, r) ==
    /\ phase = "message"
    /\ r \in lookups[t].flying
    /\ \E nodes \in SUBSET Node, hasToken \in BOOLEAN, types \in Carried :
          /\ types # {} => hasToken
          /\ lookups' = [lookups EXCEPT ![t] = Answered(@, r, nodes, hasToken, types)]
          /\ news' = [target |-> t, from |-> {r} \X types]
    /\ phase' = "report"
    /\ UNCHANGED <<puts, cached, doneGets, donePuts, mailbox, senderVars, callerVars>>

\* The answer to a request of the put of t: stored, refused with an error, or
\* anything else, which only settles the request.
PutAnswer(t, s) ==
    /\ phase = "message"
    /\ s \in puts[t].flying
    /\ LET put == Unanswered(puts[t], s) IN
       \E after \in {put, Success(put)} \cup {Failure(put, e) : e \in ErrorCode} :
          puts' = [puts EXCEPT ![t] = after]
    /\ news' = NoNews
    /\ phase' = "report"
    /\ UNCHANGED <<lookups, cached, doneGets, donePuts, mailbox, senderVars, callerVars>>

-----------------------------------------------------------------------------
(* The loop reports what the tick returned. *)

\* Mutant: values go to every caller that listens to the target.
ForwardedToAll(c, s) ==
    IF s \in news.from /\ c \in getSenders[news.target] THEN 1 ELSE 0

\* The value that just arrived, for callers of its type.  When several changes
\* of one report reach a caller, the value comes first.
Forwarded(c, s) ==
    IF /\ s \in news.from
       /\ c \in getSenders[news.target]
       /\ Wants(calls[c], s)
      THEN 1 ELSE 0

EndedGet(c) == {t \in Target : doneGets[t].ready /\ c \in getSenders[t]}

EndedPut(c) == {t \in Target : donePuts[t] # "pending" /\ c \in putSenders[t]}

ReplyTo(c) ==
    IF EndedGet(c) # {}
      THEN LET t == CHOOSE t \in EndedGet(c) : TRUE IN
           IF calls[c].want = "closest"
             THEN [what |-> "closest", nodes |-> doneGets[t].nodes,
                   tokens |-> doneGets[t].tokens]
             ELSE Plain("closed")
    ELSE IF EndedPut(c) # {}
      THEN LET t == CHOOSE t \in EndedPut(c) : TRUE IN Plain(donePuts[t])
    ELSE replies[c]

Report ==
    /\ phase = "report"
    /\ got' = [c \in Client |-> [s \in Source |-> got[c][s] + Forwarded(c, s)]]
    /\ replies' = [c \in Client |-> ReplyTo(c)]
    /\ getSenders' = [t \in Target |-> IF doneGets[t].ready THEN {} ELSE getSenders[t]]
    /\ putSenders' = [t \in Target |->
                        IF donePuts[t] # "pending" THEN {} ELSE putSenders[t]]
    /\ doneGets' = [t \in Target |-> NoResult]
    /\ donePuts' = [t \in Target |-> "pending"]
    /\ news' = NoNews
    /\ phase' = "recv"
    /\ UNCHANGED <<rpcVars, mailbox, calls>>

-----------------------------------------------------------------------------

Message == \/ NoMessage
           \/ \E t \in Target, r \in Requests : LookupAnswer(t, r)
           \/ \E t \in Target, s \in Sends : PutAnswer(t, s)

Actor == Receive \/ ReceiveNothing \/ TickPuts \/ TickGets \/ Maintain \/ Message \/ Report

Clock == \/ \E t \in Target, r \in Requests : ExpireLookup(t, r)
         \/ \E t \in Target, s \in Sends : ExpirePut(t, s)
         \/ \E t \in Target : CacheAges(t)

Callers == \E c \in Client : Return(c) \/ \E call \in Calls : Call(c, call)

Next == Actor \/ Clock \/ Callers

\* The actor thread never blocks for long, and time passes: a request that is
\* not answered expires.  Nothing is assumed of callers or of the network.
Fairness ==
    /\ WF_vars(Actor)
    /\ \A t \in Target, r \in Requests : WF_vars(ExpireLookup(t, r))
    /\ \A t \in Target, s \in Sends : WF_vars(ExpirePut(t, s))

Spec == Init /\ [][Next]_vars
FairSpec == Spec /\ Fairness

-----------------------------------------------------------------------------
(* Properties. *)

TypeOK ==
    /\ phase \in Phase
    /\ lookups \in [Target -> Lookup]
    /\ puts \in [Target -> Put(PutRequest)]
    /\ cached \in [Target -> [nodes : SUBSET Node, tokens : SUBSET Node, fresh : BOOLEAN]]
    /\ doneGets \in [Target -> [ready : BOOLEAN, nodes : SUBSET Node, tokens : SUBSET Node]]
    /\ donePuts \in [Target -> PutResult \cup {"pending"}]
    /\ news \in [target : Target, from : SUBSET Values]
    /\ mailbox \in Seq([client : Client, call : Calls])
    /\ getSenders \in [Target -> SUBSET Client]
    /\ putSenders \in [Target -> SUBSET Client]
    /\ calls \in [Client -> Calls \cup {NoCall}]
    /\ got \in [Client -> [Source -> Nat]]
    /\ replies \in [Client -> Reply]

\* The report of a tick is empty until the tick fills it.
ReportEmpty ==
    /\ phase \in {"recv", "puts", "gets"} => \A t \in Target : ~doneGets[t].ready
    /\ phase \in {"recv", "puts"} => \A t \in Target : donePuts[t] = "pending"

\* Every channel in get_senders belongs to a lookup that is running or just
\* done, every channel in put_senders to a put that is: the report that would
\* answer it is still to come.
SendersHaveQuery ==
    \A t \in Target :
        /\ getSenders[t] # {} => Active(t) \/ doneGets[t].ready
        /\ putSenders[t] # {} => puts[t].live \/ donePuts[t] # "pending"

Blocked(c) == calls[c] # NoCall /\ replies[c] = NoReply

\* The clients with a message in the channel.
Mailed == {mailbox[i].client : i \in DOMAIN mailbox}

\* A client whose call has no answer waits in exactly one place -- the mailbox,
\* the get senders or the put senders of one target -- and any other client in
\* none: no caller is forgotten, and none is answered twice on a channel of
\* capacity one, which would block the actor thread for ever.
NoCallerForgotten ==
    /\ \A c \in Client :
          Blocked(c) <=> \/ c \in Mailed
                         \/ \E t \in Target : c \in getSenders[t] \cup putSenders[t]
    /\ \A i, j \in DOMAIN mailbox : mailbox[i].client = mailbox[j].client => i = j
    /\ \A t \in Target : Mailed \cap (getSenders[t] \cup putSenders[t]) = {}
    /\ \A t, u \in Target :
          /\ getSenders[t] \cap putSenders[u] = {}
          /\ t # u => /\ getSenders[t] \cap getSenders[u] = {}
                      /\ putSenders[t] \cap putSenders[u] = {}

\* dht.rs, get_senders and put_senders: the actor answers every caller it holds, and
\* holds every caller it owes an answer.
CallersAreServed == SendersHaveQuery /\ NoCallerForgotten

\* A put that has sent nothing yet has a lookup under way that will start it.
UnstartedPutHasLookup ==
    \A t \in Target :
        puts[t].live /\ ~Started(puts[t]) =>
            Active(t) /\ lookups[t].kind # "find_node"

\* A reader has received each value its lookup accepted that is of its type, from
\* whatever answer, exactly once, those that came before it asked included.
StreamsComplete ==
    phase = "recv" =>
        \A t \in Target : \A c \in getSenders[t] : \A s \in Values :
            got[c][s] = IF Wants(calls[c], s) /\ s \in lookups[t].values THEN 1 ELSE 0

\* A lookup leaves the map only when nothing of it is in flight and each of the
\* K closest candidates it knows has been asked.
LookupsEndExhausted ==
    [][\A t \in Target :
          Active(t) /\ lookups'[t].kind = "none" =>
              /\ lookups[t].flying = {}
              /\ Nearest(K, lookups[t].closest) \subseteq lookups[t].visited]_vars

\* Every call is answered.
EveryCallAnswered ==
    \A c \in Client : calls[c] # NoCall ~> replies[c] # NoReply

=============================================================================
