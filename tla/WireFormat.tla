----------------------------- MODULE WireFormat -----------------------------
(***************************************************************************)
(* KRPC messages and what they become on the wire                          *)
(* (rust/mainline/src/common/messages.rs and messages/internal.rs).        *)
(*                                                                         *)
(* A message is [tid, ip, ro, y, what, args]: the transaction, the address *)
(* of the requester as the responder sees it, the read-only flag, whether  *)
(* it is a request "q", a response "r" or an error "e", its kind, and a    *)
(* function from the names of its arguments to their values; an optional   *)
(* argument that is None is outside the domain.  On the wire it is a       *)
(* dictionary with the keys of BEP 5: the kind of a request is its "q",    *)
(* that of a response is not written at all, a list of nodes is a string   *)
(* of bytes.  Ids, tokens, values, keys and signatures are opaque.         *)
(***************************************************************************)
EXTENDS Naturals, SequencesExt, Functions

Empty == <<>>
NoIp == [ip |-> "none", port |-> 0]
Error == [tid |-> 0, ip |-> NoIp, ro |-> FALSE, y |-> "none", what |-> "error",
          args |-> Empty]

\* The arguments that a message of each kind has, and those it may have.
RequestArgs == [
    ping          |-> {"id"},
    find_node     |-> {"id", "target"},
    get_peers     |-> {"id", "info_hash"},
    get_value     |-> {"id", "target"},
    announce_peer |-> {"id", "token", "info_hash", "port"},
    put_immutable |-> {"id", "token", "target", "v"},
    put_mutable   |-> {"id", "token", "target", "v", "k", "seq", "sig"}]

RequestOptions == [kind \in DOMAIN RequestArgs |->
    CASE kind = "get_value"     -> {"seq", "salt"}
      [] kind = "announce_peer" -> {"implied_port"}
      [] kind = "put_mutable"   -> {"salt", "cas"}
      [] OTHER                  -> {}]

ResponseArgs == [
    ping           |-> {"id"},
    find_node      |-> {"id", "nodes"},
    get_peers      |-> {"id", "token", "values"},
    get_immutable  |-> {"id", "token", "v"},
    get_mutable    |-> {"id", "token", "v", "k", "seq", "sig"},
    no_values      |-> {"id", "token"},
    no_more_recent |-> {"id", "token", "seq"}]

ResponseOptions == [kind \in DOMAIN ResponseArgs |->
    IF kind \in {"ping", "find_node"} THEN {} ELSE {"nodes"}]

-----------------------------------------------------------------------------
(* Addresses and nodes.  An address is six bytes and a node twenty more:   *)
(* here a list of nodes is flattened into ids, ips and ports.              *)

NodeSize == 3

\* The bytes of a list, a part of a node each.
Bytes(nodes, PartsOf(_)) ==
    [b \in 1 .. NodeSize * Len(nodes) |->
        PartsOf(nodes[(b - 1) \div NodeSize + 1])[((b - 1) % NodeSize) + 1]]

NodesToBytesPortFirst(nodes) ==
    Bytes(nodes, LAMBDA node : <<node.id, node.address.port, node.address.ip>>)

NodesToBytes(nodes) ==
    Bytes(nodes, LAMBDA node : <<node.id, node.address.ip, node.address.port>>)

WholeNodes(bytes) == Len(bytes) % NodeSize = 0

BytesToNodes(bytes) == [i \in 1 .. Len(bytes) \div NodeSize |->
    LET at == (i - 1) * NodeSize IN
    [id |-> bytes[at + 1], address |-> [ip |-> bytes[at + 2], port |-> bytes[at + 3]]]]

\* What becomes of the arguments of a response, either way.
ArgsToBytes(args) ==
    [f \in DOMAIN args |-> IF f = "nodes" THEN NodesToBytes(args[f]) ELSE args[f]]

ArgsFromBytes(args) ==
    [f \in DOMAIN args |-> IF f = "nodes" THEN BytesToNodes(args[f]) ELSE args[f]]

-----------------------------------------------------------------------------
(* Requests.                                                               *)

WireName(kind) ==
    CASE kind = "get_value"                        -> "get"
      [] kind \in {"put_immutable", "put_mutable"} -> "put"
      [] OTHER                                     -> kind

\* The salt of a get is for the asker alone.  implied_port is always written, 1
\* for any value it has.
RequestToWire(kind, args) ==
    CASE kind = "get_value" ->
            Restrict(args, DOMAIN args \ {"salt"})
      [] kind = "announce_peer" ->
            [f \in DOMAIN args \cup {"implied_port"} |->
                IF f # "implied_port" THEN args[f]
                ELSE IF f \in DOMAIN args THEN 1 ELSE 0]
      [] OTHER -> args

\* A put with a key is that of a mutable value.
KindOfRequest(name, args) ==
    CASE name = "get" -> "get_value"
      [] name = "put" -> IF "k" \in DOMAIN args THEN "put_mutable" ELSE "put_immutable"
      [] OTHER        -> name

RequestFromWire(kind, args) ==
    LET known == RequestArgs[kind] \cup (RequestOptions[kind] \ IF kind = "get_value" THEN {"salt"} ELSE {})
    IN  [f \in DOMAIN args \cap known |->
            IF f = "implied_port" THEN args[f] # 0 ELSE args[f]]

-----------------------------------------------------------------------------
(* Responses.  They are written without their kind: the decoder takes the  *)
(* first kind, in this order, whose arguments are all there.               *)

ResponseOrderNodesFirst == <<"get_mutable", "no_more_recent", "get_immutable", "get_peers",
                             "find_node", "no_values", "ping">>

ResponseOrder == <<"get_mutable", "no_more_recent", "get_immutable", "get_peers",
                   "no_values", "find_node", "ping">>

Fits(kind, fields) == ResponseArgs[kind] \subseteq fields

KindOfResponse(fields) ==
    ResponseOrder[SelectInSeq(ResponseOrder, LAMBDA kind : Fits(kind, fields))]

ResponseFromWire(kind, args) ==
    ArgsFromBytes([f \in DOMAIN args \cap (ResponseArgs[kind] \cup ResponseOptions[kind])
                      |-> args[f]])

-----------------------------------------------------------------------------
(* Messages.                                                               *)

Encode(m) ==
    [t |-> m.tid, ip |-> m.ip, ro |-> IF m.ro THEN 1 ELSE 0, y |-> m.y,
     q |-> IF m.y = "q" THEN WireName(m.what) ELSE "",
     body |-> CASE m.y = "q" -> RequestToWire(m.what, m.args)
                [] m.y = "r" -> ArgsToBytes(m.args)
                [] m.y = "e" -> m.args]

Panic == [Error EXCEPT !.what = "panic"]

\* A request that lacks an argument is malformed; but the sequence number and the
\* signature of a put with a key are expected, and the decoder panics without them.
DecodeRequest(wire) ==
    LET kind  == KindOfRequest(wire.q, wire.body)
        lacks == RequestArgs[kind] \ DOMAIN wire.body IN
    IF lacks = {}
    THEN [tid |-> wire.t, ip |-> wire.ip, ro |-> wire.ro > 0, y |-> "q", what |-> kind,
          args |-> RequestFromWire(kind, wire.body)]
    ELSE IF lacks \subseteq {"seq", "sig"} THEN Panic ELSE Error

DecodeResponse(wire) ==
    LET kind == KindOfResponse(DOMAIN wire.body) IN
    IF "nodes" \in DOMAIN wire.body /\ ~WholeNodes(wire.body["nodes"]) THEN Error
    ELSE [tid |-> wire.t, ip |-> wire.ip, ro |-> wire.ro > 0, y |-> "r", what |-> kind,
          args |-> ResponseFromWire(kind, wire.body)]

DecodeError(wire) ==
    [tid |-> wire.t, ip |-> wire.ip, ro |-> wire.ro > 0, y |-> "e", what |-> "error",
     args |-> wire.body]

Decode(wire) ==
    CASE wire.y = "q" -> DecodeRequest(wire)
      [] wire.y = "r" -> DecodeResponse(wire)
      [] wire.y = "e" -> DecodeError(wire)

\* What a requester reads off a message.
AuthorId(m) == IF m.y = "e" THEN "none" ELSE m.args["id"]
CloserNodes(m) == IF m.y = "r" /\ "nodes" \in DOMAIN m.args THEN m.args["nodes"] ELSE Empty
TokenOf(m) == IF m.y = "r" /\ "token" \in DOMAIN m.args THEN m.args["token"] ELSE "none"

-----------------------------------------------------------------------------
(* Properties of the two conversions.                                      *)

IsNodeList(nodes) ==
    /\ Len(nodes) \in Nat
    /\ nodes = [i \in 1 .. Len(nodes) |->
          [id |-> nodes[i].id,
           address |-> [ip |-> nodes[i].address.ip, port |-> nodes[i].address.port]]]

HasArgs(args, needed, options) ==
    /\ args = [f \in DOMAIN args |-> args[f]]
    /\ needed \subseteq DOMAIN args /\ DOMAIN args \subseteq needed \cup options

\* What the code builds: the arguments of a kind and some of those it may have;
\* announce_peer says implied_port when it is true, and else leaves it out.
Built(y, what, args) ==
    \/ /\ y = "q" /\ what \in DOMAIN RequestArgs
       /\ HasArgs(args, RequestArgs[what], RequestOptions[what])
       /\ "implied_port" \in DOMAIN args => args["implied_port"] = TRUE
    \/ /\ y = "r" /\ what \in DOMAIN ResponseArgs
       /\ HasArgs(args, ResponseArgs[what], ResponseOptions[what])
       /\ "nodes" \in DOMAIN args => IsNodeList(args["nodes"])
    \/ y = "e" /\ what = "error"

IsMessage(m) ==
    /\ m = [tid |-> m.tid, ip |-> m.ip, ro |-> m.ro, y |-> m.y, what |-> m.what, args |-> m.args]
    /\ m.ro \in BOOLEAN /\ Built(m.y, m.what, m.args)

\* A message as its receiver gets it: the salt of a get is not sent, and an
\* announcement without implied_port arrives with implied_port = 0.
Normal(m) ==
    [m EXCEPT !.args =
        CASE m.what = "get_value" -> Restrict(@, DOMAIN @ \ {"salt"})
          [] m.what = "announce_peer" ->
                [f \in DOMAIN @ \cup {"implied_port"} |->
                    IF f \in DOMAIN @ THEN @[f] ELSE FALSE]
          [] OTHER -> @]

Survives(m) == Decode(Encode(m)) = Normal(m)

\* internal.rs, DHTResponseSpecific: "This means order matters! Order these from most
\* to least detailed".  Whatever other fields a response carries, it is never read as
\* a kind with fewer arguments than another kind that fits as well, ...
MostDetailed(fields) ==
    \A kind \in DOMAIN ResponseArgs :
        Fits(kind, fields) =>
            ~(ResponseArgs[KindOfResponse(fields)] \subseteq ResponseArgs[kind]
              /\ ResponseArgs[KindOfResponse(fields)] # ResponseArgs[kind])

\* ... and what a lookup lives on, the nodes and the token, is not lost with its kind.
ReadsAll(fields, nodes) ==
    LET wire == [t |-> 0, ip |-> NoIp, ro |-> 0, y |-> "r", q |-> "",
                 body |-> [f \in fields |-> IF f = "nodes" THEN NodesToBytes(nodes) ELSE f]]
        message == Decode(wire)
    IN  /\ AuthorId(message) = "id"
        /\ "nodes" \in fields => CloserNodes(message) = nodes
        /\ "token" \in fields => TokenOf(message) = "token"
=============================================================================
