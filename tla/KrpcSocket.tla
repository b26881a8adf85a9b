----------------------------- MODULE KrpcSocket -----------------------------
(***************************************************************************)
(* The KRPC sockets of some nodes and the network between them             *)
(* (rust/mainline/src/rpc/socket.rs, socket/inflight_requests.rs): numbered*)
(* requests, the table of requests in flight, the match of responses and   *)
(* errors with it, and the decoding of what arrives.                       *)
(*                                                                         *)
(* The network loses, duplicates, delays and reorders datagrams, and a     *)
(* node may be seen under several addresses.  The server above the socket  *)
(* answers a request in the call that receives it, with any message.       *)
(***************************************************************************)
EXTENDS WireFormat, FiniteSets, TLC

CONSTANTS
    Node,           \* nodes with a socket
    Server,         \* those in server mode
    Addresses,      \* the addresses a node is seen under, [ip, port]
    Targets,        \* the addresses a node asks
    Asks, Answers,  \* what is sent: messages without tid, ip and ro
    Samples,        \* messages the code builds
    Foreign,        \* the fields that responses of other programs carry
    NodeLists,      \* lists of nodes in them
    Timeout,        \* request_timeout
    CleanUpEvery,   \* INFLIGHT_CLEANUP_INTERVAL
    TidSpace,       \* 2^32: the transaction ids wrap around
    MaxAsks,        \* bound: requests sent
    MaxNet,         \* bound: datagrams under way
    MaxNow          \* bound: the clock

ASSUME SocketAssumption ==
    /\ Server \subseteq Node
    /\ {Timeout, TidSpace, MaxAsks, MaxNet} \subseteq Nat \ {0}
    /\ {CleanUpEvery, MaxNow} \subseteq Nat
    \* An address is one node's and not the unspecified one; requests, and the response
    \* or error that a server answers with, are such as the code builds.
    /\ \A n, m \in Node : \A one \in Addresses[n], other \in Addresses[m] :
          one.ip # "any" /\ (one.ip = other.ip /\ one.port = other.port => n = m)
    /\ \A body \in Asks : body.y = "q" /\ Built(body.y, body.what, body.args)
    /\ \A body \in Answers : body.y # "q" /\ Built(body.y, body.what, body.args)

ASSUME SampleAssumption ==
    /\ \A m \in Samples : IsMessage(m)
    /\ \A fields \in Foreign : "id" \in fields
    /\ \A nodes \in NodeLists : IsNodeList(nodes)

VARIABLES
    now,
    nextTid,        \* next_tid of each node
    inflight,       \* inflight_requests: per tid, the address asked and when
    lastCleanUp,    \* last_cleanup
    net,            \* datagrams: [from, to, wire, of]
    asked           \* history: the requests, [by, to, tid, at, got, reply]

vars == <<now, nextTid, inflight, lastCleanUp, net, asked>>

\* History: a datagram names the request it is or answers, a table entry the one it
\* waits for.
Asked == 1 .. Len(asked)

Init ==
    /\ now = 0
    /\ nextTid = [n \in Node |-> 0]
    /\ inflight = [n \in Node |-> Empty]
    /\ lastCleanUp = [n \in Node |-> 0]
    /\ net = {}
    /\ asked = <<>>

-----------------------------------------------------------------------------
(* The table of requests in flight.                                        *)

LiveOnTime(entry) == now - entry.at <= Timeout
Live(entry) == now - entry.at < Timeout

InFlight(n, tid) == tid \in DOMAIN inflight[n] /\ Live(inflight[n][tid])

DoesMatch(entry, from) ==
    entry.to.port = from.port /\ (entry.to.ip = "any" \/ entry.to.ip = from.ip)

Retained(table) == Restrict(table, {tid \in DOMAIN table : table[tid].at > now - Timeout})

With(table, tid, entry) ==
    [t \in DOMAIN table \cup {tid} |-> IF t = tid THEN entry ELSE table[t]]

WithoutNone(table, tid) == table
Without(table, tid) == Restrict(table, DOMAIN table \ {tid})

\* recv_from starts by dropping expired requests, now and then.
CleanUpDue(n) == now - lastCleanUp[n] > CleanUpEvery
Table(n) == IF CleanUpDue(n) THEN Retained(inflight[n]) ELSE inflight[n]

CleansUp(n) == lastCleanUp' = IF CleanUpDue(n) THEN [lastCleanUp EXCEPT ![n] = now]
                              ELSE lastCleanUp

-----------------------------------------------------------------------------
(* Sending.                                                                *)

NextTid(n) == (nextTid[n] + 1) % TidSpace

RequestMessage(n, body) ==
    [tid |-> nextTid[n], ip |-> NoIp, ro |-> n \notin Server,
     y |-> "q", what |-> body.what, args |-> body.args]

ResponseMessage(n, to, tid, body) ==
    [tid |-> tid, ip |-> to, ro |-> n \notin Server,
     y |-> body.y, what |-> body.what, args |-> body.args]

\* What the code takes for granted: of 2^32 ids, one is not needed again while its
\* last request may be answered.
IdIsFree(n) ==
    /\ ~InFlight(n, nextTid[n])
    /\ \A d \in net : asked[d.of].by = n => asked[d.of].tid # nextTid[n]

Request(n, to, body, from) ==
    /\ Len(asked) < MaxAsks /\ Cardinality(net) < MaxNet
    /\ IdIsFree(n)
    /\ nextTid' = [nextTid EXCEPT ![n] = NextTid(n)]
    /\ inflight' = [inflight EXCEPT ![n] =
          With(@, nextTid[n], [to |-> to, at |-> now, of |-> Len(asked) + 1])]
    /\ net' = net \cup {[from |-> from, to |-> to, of |-> Len(asked) + 1,
                         wire |-> Encode(RequestMessage(n, body))]}
    /\ asked' = Append(asked, [by |-> n, to |-> to, tid |-> nextTid[n], at |-> now,
                               got |-> 0, reply |-> Empty])
    /\ UNCHANGED <<now, lastCleanUp>>

-----------------------------------------------------------------------------
(* Receiving.  Each action is one call of recv_from that reads a datagram, *)
(* and what the node does with the message before the next call.           *)

\* To an unspecified ip the system delivers on the host of the sender.
Reaches(d, n) ==
    \E a \in Addresses[n] : a.port = d.to.port /\ d.to.ip \in {a.ip, "any"}

\* The datagram is read; the network may keep a copy of it.
Consumes(d, more) ==
    \E copies \in SUBSET {d} : net' = (net \ {d}) \cup copies \cup more

Receives(n, d) == d \in net /\ Reaches(d, n) /\ CleansUp(n) /\ UNCHANGED <<now, nextTid>>

\* A request always passes.  A server answers it at once, under one of its addresses;
\* a node that is none does not.
ReceiveRequest(n, d) ==
    LET message == Decode(d.wire) IN
    /\ Receives(n, d)
    /\ message.y = "q"
    /\ inflight' = [inflight EXCEPT ![n] = Table(n)]
    /\ \/ n \notin Server /\ Consumes(d, {})
       \/ /\ n \in Server /\ Cardinality(net) < MaxNet
          /\ \E body \in Answers, from \in Addresses[n] :
               Consumes(d, {[from |-> from, to |-> d.from, of |-> d.of,
                             wire |-> Encode(ResponseMessage(n, d.from, message.tid, body))]})
    /\ UNCHANGED asked

\* remove: an expired entry goes, an entry of another address stays.
Expected(table, tid, from) ==
    tid \in DOMAIN table /\ Live(table[tid]) /\ DoesMatch(table[tid], from)

ReceiveExpected(n, d) ==
    LET message == Decode(d.wire) IN
    /\ Receives(n, d)
    /\ message.y \in {"r", "e"}
    /\ Expected(Table(n), message.tid, d.from)
    /\ inflight' = [inflight EXCEPT ![n] = Without(Table(n), message.tid)]
    /\ asked' = [asked EXCEPT ![Table(n)[message.tid].of].got = @ + 1,
                              ![Table(n)[message.tid].of].reply = <<d.of, message>>]
    /\ Consumes(d, {})

ReceiveUnexpected(n, d) ==
    LET message == Decode(d.wire) IN
    /\ Receives(n, d)
    /\ message.y \in {"r", "e"}
    /\ ~Expected(Table(n), message.tid, d.from)
    /\ inflight' = [inflight EXCEPT ![n] =
          IF message.tid \in DOMAIN Table(n) /\ ~Live(Table(n)[message.tid])
          THEN Without(Table(n), message.tid) ELSE Table(n)]
    /\ Consumes(d, {})
    /\ UNCHANGED asked

\* recv_from runs into READ_TIMEOUT, or reads what it drops unseen: a datagram from
\* port 0, over IPv6, or that does not decode.
ReceiveNothing(n) ==
    /\ CleanUpDue(n)
    /\ CleansUp(n)
    /\ inflight' = [inflight EXCEPT ![n] = Table(n)]
    /\ UNCHANGED <<now, nextTid, net, asked>>

-----------------------------------------------------------------------------
Lose(d) == d \in net /\ net' = net \ {d}
           /\ UNCHANGED <<now, nextTid, inflight, lastCleanUp, asked>>

Tick == now < MaxNow /\ now' = now + 1
        /\ UNCHANGED <<nextTid, inflight, lastCleanUp, net, asked>>

Next ==
    \/ Tick
    \/ \E d \in net : Lose(d)
    \/ \E n \in Node :
         \/ ReceiveNothing(n)
         \/ \E to \in Targets[n], body \in Asks, from \in Addresses[n] :
              Request(n, to, body, from)
         \/ \E d \in net : \/ ReceiveRequest(n, d) \/ ReceiveExpected(n, d)
                           \/ ReceiveUnexpected(n, d)

Spec == Init /\ [][Next]_vars

-----------------------------------------------------------------------------
(* Properties.                                                             *)

Outcome(s) ==
    IF asked[s].got > 0 THEN "answered"
    ELSE IF now - asked[s].at >= Timeout THEN "expired"
    ELSE "open"

TypeOK ==
    /\ now \in 0 .. MaxNow
    /\ nextTid \in [Node -> 0 .. TidSpace - 1]
    /\ lastCleanUp \in [Node -> 0 .. now]
    /\ \A n \in Node :
         /\ DOMAIN inflight[n] \subseteq 0 .. TidSpace - 1
         /\ \A tid \in DOMAIN inflight[n] :
              /\ inflight[n][tid].of \in Asked
              /\ inflight[n][tid].to \in Targets[n]
              /\ inflight[n][tid].at \in 0 .. now
    /\ Cardinality(net) <= MaxNet /\ \A d \in net : d.of \in Asked

\* socket.rs, tid and is_expected_response: whatever is lost, late, repeated or sent
\* from another address, and although the ids wrap around, a request is settled at
\* most once and by an answer to that very request, decoded as it was sent; the
\* address in it, which Rpc counts as a vote, is one of the asker.
AnswersBelong ==
    \A s \in Asked :
        /\ asked[s].got <= 1
        /\ asked[s].got = 1 =>
             LET answer == asked[s].reply[2] IN
             /\ asked[s].reply[1] = s
             /\ answer.ip \in Addresses[asked[s].by]
             /\ \E body \in Answers : answer.what = body.what /\ answer.args = body.args

\* inflight_requests.rs: contains, remove and cleanup measure time in three ways
\* (elapsed < timeout, elapsed >= timeout, sent_at > now - timeout), at moments of
\* their own; to the queries a request is in flight until it is answered or expires.
InFlightIsOpen ==
    \A s \in Asked :
        Outcome(s) = "open" <=>
            /\ InFlight(asked[s].by, asked[s].tid)
            /\ inflight[asked[s].by][asked[s].tid].of = s

\* socket.rs, recv_from and inflight: the answer a request gets is its own, and the
\* queries see it in flight exactly as long as it has none and its time is not over.
RequestsSettleOnce == TypeOK /\ AnswersBelong /\ InFlightIsOpen

\* messages.rs, into_serde_message and from_serde_message: whatever message the code
\* builds, with any of its optional arguments, is read back as the same message.
MessagesSurvive == \A m \in Samples : Survives(m)

\* internal.rs, DHTResponseSpecific: "This means order matters! Order these from most
\* to least detailed".  Whatever fields a foreign response carries, it is not taken for
\* a kind that says less than another kind that fits, and no nodes or token are lost.
OrderMatters ==
    \A fields \in Foreign, nodes \in NodeLists :
        MostDetailed(fields) /\ ReadsAll(fields, nodes)

\* The two conversions between a message and the bytes.  (No state matters to them: they
\* are looked at before the first request.)
ConversionsAgree == asked = <<>> => MessagesSurvive /\ OrderMatters

\* What queries rely on: a request is open, and then either answered or expired for
\* good (Asking).
Requests == INSTANCE Asking WITH outcome <- [s \in Asked |-> Outcome(s)]
KeepsRequests == Requests!Spec
=============================================================================
