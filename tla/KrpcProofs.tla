----------------------------- MODULE KrpcProofs -----------------------------
(***************************************************************************)
(* What the queries above a socket rely on, for all nodes, addresses,      *)
(* messages, time-outs and sizes of the id space: the table of requests in *)
(* flight agrees with what became of each request, and the socket          *)
(* implements Asking.                                                      *)
(***************************************************************************)
EXTENDS KrpcSocket, SequenceTheorems, FiniteSetTheorems, TLAPS

-----------------------------------------------------------------------------
(* The conversions.                                                        *)

LEMMA MinIs ==
    ASSUME NEW S \in SUBSET Int, NEW k \in S, \A i \in S : k <= i
    PROVE  Min(S) = k
<1>1. \E x \in S : \A y \in S : x <= y
  OBVIOUS
<1>2. Min(S) \in S /\ \A y \in S : Min(S) <= y
  BY <1>1, Zenon DEF Min
<1>3. \A m : m \in S /\ (\A y \in S : m <= y) => m = k
  OBVIOUS
<1> QED BY <1>2, <1>3, Zenon

\* The kinds are tried in their order.
LEMMA FirstThatFits ==
    ASSUME NEW fields, NEW k \in 1 .. 7, Fits(ResponseOrder[k], fields),
           \A i \in 1 .. k - 1 : ~Fits(ResponseOrder[i], fields)
    PROVE  KindOfResponse(fields) = ResponseOrder[k]
<1> DEFINE I == {i \in 1 .. Len(ResponseOrder) : Fits(ResponseOrder[i], fields)}
<1>1. Len(ResponseOrder) = 7
  BY DEF ResponseOrder
<1>2. k \in I /\ \A i \in I : k <= i
  BY <1>1
<1>3. Min(I) = k
  <2>1. I \subseteq Int
    BY <1>1
  <2> HIDE DEF I
  <2> QED BY <1>2, <2>1, MinIs
<1>4. SelectInSeq(ResponseOrder, LAMBDA kind : Fits(kind, fields)) = k
  BY <1>2, <1>3 DEF SelectInSeq
<1> QED BY <1>4 DEF KindOfResponse

\* A response is read as the kind it was written as: what tells the kinds apart is never
\* among the arguments another kind may have.
LEMMA KindIsKept ==
    ASSUME NEW kind \in DOMAIN ResponseArgs, NEW fields,
           ResponseArgs[kind] \subseteq fields,
           fields \subseteq ResponseArgs[kind] \cup ResponseOptions[kind]
    PROVE  KindOfResponse(fields) = kind
<1> DEFINE Has(i) == Fits(ResponseOrder[i], fields)
<1>1. /\ Has(1) <=> {"id", "token", "v", "k", "seq", "sig"} \subseteq fields
      /\ Has(2) <=> {"id", "token", "seq"} \subseteq fields
      /\ Has(3) <=> {"id", "token", "v"} \subseteq fields
      /\ Has(4) <=> {"id", "token", "values"} \subseteq fields
      /\ Has(5) <=> {"id", "token"} \subseteq fields
      /\ Has(6) <=> {"id", "nodes"} \subseteq fields
      /\ Has(7) <=> {"id"} \subseteq fields
  BY DEF Fits, ResponseOrder, ResponseArgs
<1>2. \E k \in 1 .. 7 : ResponseOrder[k] = kind /\ Has(k) /\ \A i \in 1 .. k - 1 : ~Has(i)
  <2> HIDE DEF Has
  <2>1. CASE kind = "get_mutable"
    <3>1. ResponseOrder[1] = kind /\ Has(1)
      BY <1>1, <2>1 DEF ResponseArgs, ResponseOptions, ResponseOrder
    <3> QED BY <3>1
  <2>2. CASE kind = "no_more_recent"
    <3>1. ResponseOrder[2] = kind /\ Has(2) /\ ~Has(1)
      BY <1>1, <2>2 DEF ResponseArgs, ResponseOptions, ResponseOrder
    <3> QED BY <3>1
  <2>3. CASE kind = "get_immutable"
    <3>1. ResponseOrder[3] = kind /\ Has(3) /\ ~Has(1) /\ ~Has(2)
      BY <1>1, <2>3 DEF ResponseArgs, ResponseOptions, ResponseOrder
    <3> QED BY <3>1
  <2>4. CASE kind = "get_peers"
    <3>1. ResponseOrder[4] = kind /\ Has(4) /\ ~Has(1) /\ ~Has(2) /\ ~Has(3)
      BY <1>1, <2>4 DEF ResponseArgs, ResponseOptions, ResponseOrder
    <3> QED BY <3>1
  <2>5. CASE kind = "no_values"
    <3>1. ResponseOrder[5] = kind /\ Has(5) /\ ~Has(1) /\ ~Has(2) /\ ~Has(3) /\ ~Has(4)
      BY <1>1, <2>5 DEF ResponseArgs, ResponseOptions, ResponseOrder
    <3> QED BY <3>1
  <2>6. CASE kind = "find_node"
    <3>1. /\ ResponseOrder[6] = kind /\ Has(6) /\ ~Has(1) /\ ~Has(2) /\ ~Has(3) /\ ~Has(4)
          /\ ~Has(5)
      BY <1>1, <2>6 DEF ResponseArgs, ResponseOptions, ResponseOrder
    <3> QED BY <3>1
  <2>7. CASE kind = "ping"
    <3>1. /\ ResponseOrder[7] = kind /\ Has(7) /\ ~Has(1) /\ ~Has(2) /\ ~Has(3) /\ ~Has(4)
          /\ ~Has(5) /\ ~Has(6)
      BY <1>1, <2>7 DEF ResponseArgs, ResponseOptions, ResponseOrder
    <3> QED BY <3>1
  <2> QED BY <2>1, <2>2, <2>3, <2>4, <2>5, <2>6, <2>7 DEF ResponseArgs
<1> QED BY <1>2, FirstThatFits

LEMMA ByteOf ==
    ASSUME NEW nodes, IsNodeList(nodes), NEW b \in 1 .. 3 * Len(nodes),
           NEW q \in Int, NEW r \in 1 .. 3, b - 1 = 3 * (q - 1) + (r - 1)
    PROVE  /\ NodesToBytes(nodes)[b]
                = <<nodes[q].id, nodes[q].address.ip, nodes[q].address.port>>[r]
<1>1. Len(nodes) \in Nat /\ NodeSize = 3
  BY DEF IsNodeList, NodeSize
<1>2. NodesToBytes(nodes)[b]
        = <<nodes[(b - 1) \div 3 + 1].id, nodes[(b - 1) \div 3 + 1].address.ip,
            nodes[(b - 1) \div 3 + 1].address.port>>[((b - 1) % 3) + 1]
  BY <1>1 DEF NodesToBytes, Bytes
<1>3. (b - 1) \div 3 + 1 = q /\ ((b - 1) % 3) + 1 = r
  BY <1>1
<1> QED BY <1>2, <1>3, Zenon

\* Every three bytes are the node they were made of.
LEMMA NodesSurvive ==
    ASSUME NEW nodes, IsNodeList(nodes)
    PROVE  WholeNodes(NodesToBytes(nodes)) /\ BytesToNodes(NodesToBytes(nodes)) = nodes
<1> DEFINE n == Len(nodes)
           bytes == NodesToBytes(nodes)
<1>1. n \in Nat /\ NodeSize = 3
  BY DEF IsNodeList, NodeSize
<1>3. Len(bytes) = 3 * n
  BY <1>1 DEF NodesToBytes, Bytes
<1>4. WholeNodes(bytes) /\ Len(bytes) \div 3 = n
  BY <1>1, <1>3 DEF WholeNodes
<1>5. ASSUME NEW i \in 1 .. n
      PROVE  /\ bytes[(i - 1) * 3 + 1] = nodes[i].id
             /\ bytes[(i - 1) * 3 + 2] = nodes[i].address.ip
             /\ bytes[(i - 1) * 3 + 3] = nodes[i].address.port
  <2>1. ASSUME NEW r \in 1 .. 3
        PROVE  bytes[(i - 1) * 3 + r]
                  = <<nodes[i].id, nodes[i].address.ip, nodes[i].address.port>>[r]
    <3>1. PICK b : b = (i - 1) * 3 + r
      OBVIOUS
    <3>2. b \in 1 .. 3 * n /\ b - 1 = 3 * (i - 1) + (r - 1) /\ i \in Int
      BY <1>1, <3>1
    <3>3. bytes[b] = <<nodes[i].id, nodes[i].address.ip, nodes[i].address.port>>[r]
      BY <3>2, ByteOf
    <3> QED BY <3>1, <3>3, Zenon
  <2> HIDE DEF n, bytes
  <2> QED BY <2>1
<1> HIDE DEF n, bytes
<1>6. BytesToNodes(bytes) = [i \in 1 .. n |->
         [id |-> nodes[i].id, address |-> [ip |-> nodes[i].address.ip, port |-> nodes[i].address.port]]]
  BY <1>1, <1>4, <1>5 DEF BytesToNodes
<1> QED BY <1>4, <1>6 DEF IsNodeList, n, bytes

LEMMA ResponseSurvives ==
    ASSUME NEW m, IsMessage(m), m.y = "r"
    PROVE  Survives(m)
<1> DEFINE args == m.args
           wire == Encode(m)
<1>1. /\ m.what \in DOMAIN ResponseArgs
      /\ HasArgs(args, ResponseArgs[m.what], ResponseOptions[m.what])
      /\ "nodes" \in DOMAIN args => IsNodeList(args["nodes"])
  BY DEF IsMessage, Built
<1>2. /\ wire.t = m.tid /\ wire.ip = m.ip /\ (wire.ro > 0 <=> m.ro) /\ wire.y = "r"
      /\ wire.body = ArgsToBytes(args)
  BY DEF Encode, IsMessage
<1>3. DOMAIN wire.body = DOMAIN args
  BY <1>2 DEF ArgsToBytes
<1>4. KindOfResponse(DOMAIN wire.body) = m.what
  BY <1>1, <1>3, KindIsKept DEF HasArgs
<1>5. "nodes" \in DOMAIN args =>
         /\ WholeNodes(wire.body["nodes"]) /\ BytesToNodes(wire.body["nodes"]) = args["nodes"]
  BY <1>1, <1>2, NodesSurvive DEF ArgsToBytes
<1>6. \A f \in DOMAIN args : f # "nodes" => wire.body[f] = args[f]
  BY <1>2 DEF ArgsToBytes
<1> HIDE DEF args, wire
<1>7. ResponseFromWire(m.what, wire.body) = args
  <2>1. DOMAIN wire.body \cap (ResponseArgs[m.what] \cup ResponseOptions[m.what]) = DOMAIN args
    BY <1>1, <1>3 DEF HasArgs
  <2>2. ResponseFromWire(m.what, wire.body)
          = [f \in DOMAIN args |-> IF f = "nodes" THEN BytesToNodes(wire.body[f]) ELSE wire.body[f]]
    BY <2>1 DEF ResponseFromWire, ArgsFromBytes
  <2>3. @ = [f \in DOMAIN args |-> args[f]]
    BY <1>5, <1>6
  <2> QED BY <1>1, <2>2, <2>3 DEF HasArgs
<1>8. Decode(wire) = [tid |-> m.tid, ip |-> m.ip, ro |-> wire.ro > 0, y |-> "r",
                      what |-> m.what, args |-> args]
  <2>1. Decode(wire) = DecodeResponse(wire)
    BY <1>2 DEF Decode
  <2>2. ~("nodes" \in DOMAIN wire.body /\ ~WholeNodes(wire.body["nodes"]))
    BY <1>3, <1>5
  <2> QED BY <1>2, <1>4, <1>7, <2>1, <2>2 DEF DecodeResponse
<1>9. (wire.ro > 0) = m.ro
  BY <1>2 DEF IsMessage
<1>10. Decode(wire) = m
  BY <1>8, <1>9 DEF IsMessage, args
<1>11. Normal(m) = m
  <2>1. m.what # "get_value" /\ m.what # "announce_peer"
    BY <1>1 DEF ResponseArgs
  <2> QED BY <2>1 DEF Normal, IsMessage
<1> QED BY <1>10, <1>11 DEF Survives, wire

LEMMA ErrorSurvives ==
    ASSUME NEW m, IsMessage(m), m.y = "e"
    PROVE  Survives(m)
<1> DEFINE wire == Encode(m)
<1>1. m.what = "error"
  BY DEF IsMessage, Built
<1>2. /\ wire.t = m.tid /\ wire.ip = m.ip /\ (wire.ro > 0 <=> m.ro) /\ wire.y = "e"
      /\ wire.body = m.args
  BY DEF Encode, IsMessage
<1> HIDE DEF wire
<1>3. Decode(wire) = [tid |-> m.tid, ip |-> m.ip, ro |-> wire.ro > 0, y |-> "e",
                      what |-> "error", args |-> m.args]
  BY <1>2 DEF Decode, DecodeError
<1>4. (wire.ro > 0) = m.ro
  BY <1>2 DEF IsMessage
<1>5. Decode(wire) = m
  BY <1>1, <1>3, <1>4 DEF IsMessage
<1>6. Normal(m) = m
  BY <1>1 DEF Normal, IsMessage
<1> QED BY <1>5, <1>6 DEF Survives, wire

LEMMA RequestSurvives ==
    ASSUME NEW m, IsMessage(m), m.y = "q"
    PROVE  Survives(m)
<1> DEFINE args == m.args
           wire == Encode(m)
           normal == Normal(m).args
<1>1. /\ m.what \in DOMAIN RequestArgs
      /\ HasArgs(args, RequestArgs[m.what], RequestOptions[m.what])
      /\ "implied_port" \in DOMAIN args => args["implied_port"] = TRUE
  BY DEF IsMessage, Built
<1>2. /\ wire.t = m.tid /\ wire.ip = m.ip /\ (wire.ro > 0 <=> m.ro) /\ wire.y = "q"
      /\ wire.q = WireName(m.what) /\ wire.body = RequestToWire(m.what, args)
  BY DEF Encode, IsMessage
<1>3. Normal(m) = [tid |-> m.tid, ip |-> m.ip, ro |-> m.ro, y |-> "q", what |-> m.what,
                   args |-> normal]
  <2>1. PICK new : Normal(m) = [m EXCEPT !.args = new]
    BY Zenon DEF Normal
  <2>2. [m EXCEPT !.args = new] = [tid |-> m.tid, ip |-> m.ip, ro |-> m.ro, y |-> "q",
                                   what |-> m.what, args |-> new]
    BY DEF IsMessage
  <2> QED BY <2>1, <2>2
<1>4. /\ m.what = "get_value" => normal = Restrict(args, DOMAIN args \ {"salt"})
      /\ m.what = "announce_peer" =>
           normal = [f \in DOMAIN args \cup {"implied_port"} |->
                       IF f \in DOMAIN args THEN args[f] ELSE FALSE]
      /\ m.what \notin {"get_value", "announce_peer"} => normal = args
  BY DEF Normal, IsMessage
<1> HIDE DEF args, wire, normal
<1>5. /\ KindOfRequest(wire.q, wire.body) = m.what
      /\ RequestFromWire(m.what, wire.body) = normal
  <2>1. args = [f \in DOMAIN args |-> args[f]]
    BY <1>1 DEF HasArgs
  <2>2. CASE m.what = "get_value"
    <3>1. wire.q = "get" /\ wire.body = Restrict(args, DOMAIN args \ {"salt"})
      BY <1>2, <2>2 DEF WireName, RequestToWire
    <3>2. KindOfRequest(wire.q, wire.body) = m.what
      BY <2>2, <3>1 DEF KindOfRequest
    <3>3. DOMAIN args \subseteq {"id", "target", "seq", "salt"}
      BY <1>1, <2>2 DEF HasArgs, RequestArgs, RequestOptions
    <3>4. RequestFromWire(m.what, wire.body)
            = [f \in DOMAIN wire.body \cap {"id", "target", "seq"} |->
                 IF f = "implied_port" THEN wire.body[f] # 0 ELSE wire.body[f]]
      <4>1. RequestArgs["get_value"] \cup (RequestOptions["get_value"] \ {"salt"})
               = {"id", "target", "seq"}
        BY DEF RequestArgs, RequestOptions
      <4> QED BY <2>2, <4>1 DEF RequestFromWire
    <3>5. DOMAIN wire.body \cap {"id", "target", "seq"} = DOMAIN args \ {"salt"}
      BY <3>1, <3>3 DEF Restrict
    <3>6. RequestFromWire(m.what, wire.body) = [f \in DOMAIN args \ {"salt"} |-> args[f]]
      BY <3>1, <3>3, <3>4, <3>5 DEF Restrict
    <3> QED BY <1>4, <2>2, <3>2, <3>6 DEF Restrict
  <2>3. CASE m.what = "announce_peer"
    <3>1. /\ wire.q = "announce_peer"
          /\ wire.body = [f \in DOMAIN args \cup {"implied_port"} |->
                IF f # "implied_port" THEN args[f]
                ELSE IF f \in DOMAIN args THEN 1 ELSE 0]
      BY <1>2, <2>3 DEF WireName, RequestToWire
    <3>2. KindOfRequest(wire.q, wire.body) = m.what
      BY <2>3, <3>1 DEF KindOfRequest
    <3>3. DOMAIN args \subseteq {"id", "token", "info_hash", "port", "implied_port"}
      BY <1>1, <2>3 DEF HasArgs, RequestArgs, RequestOptions
    <3>4. RequestFromWire(m.what, wire.body)
            = [f \in DOMAIN wire.body \cap {"id", "token", "info_hash", "port", "implied_port"} |->
                 IF f = "implied_port" THEN wire.body[f] # 0 ELSE wire.body[f]]
      <4>1. RequestArgs["announce_peer"] \cup (RequestOptions["announce_peer"] \ {})
               = {"id", "token", "info_hash", "port", "implied_port"}
        BY DEF RequestArgs, RequestOptions
      <4> QED BY <2>3, <4>1 DEF RequestFromWire
    <3>5. DOMAIN wire.body \cap {"id", "token", "info_hash", "port", "implied_port"}
             = DOMAIN args \cup {"implied_port"}
      BY <3>1, <3>3
    <3>6. \A f \in DOMAIN args \cup {"implied_port"} :
             (IF f = "implied_port" THEN wire.body[f] # 0 ELSE wire.body[f])
                = IF f \in DOMAIN args THEN args[f] ELSE FALSE
      <4>1. CASE "implied_port" \in DOMAIN args
        <5>1. wire.body["implied_port"] = 1 /\ args["implied_port"] = TRUE
          BY <1>1, <3>1, <4>1
        <5>2. (wire.body["implied_port"] # 0) = TRUE
          BY <5>1
        <5> QED BY <3>1, <4>1, <5>1, <5>2
      <4>2. CASE "implied_port" \notin DOMAIN args
        <5>1. wire.body["implied_port"] = 0
          BY <3>1, <4>2
        <5>2. (wire.body["implied_port"] # 0) = FALSE
          BY <5>1
        <5> QED BY <3>1, <4>2, <5>2
      <4> QED BY <4>1, <4>2
    <3> QED BY <1>4, <2>3, <3>2, <3>4, <3>5, <3>6
  <2>4. CASE m.what \notin {"get_value", "announce_peer"}
    <3>1. wire.q = WireName(m.what) /\ wire.body = args
      BY <1>2, <2>4 DEF RequestToWire
    <3>2. /\ m.what = "put_mutable" => "k" \in DOMAIN args
          /\ m.what = "put_immutable" => "k" \notin DOMAIN args
          /\ "implied_port" \notin DOMAIN args
      <4>1. RequestOptions[m.what] \subseteq {"salt", "cas"}
        BY <1>1, <2>4 DEF RequestArgs, RequestOptions
      <4>2. "implied_port" \notin RequestArgs[m.what]
        BY <1>1, <2>4 DEF RequestArgs
      <4>3. m.what = "put_mutable" => "k" \in RequestArgs[m.what]
        BY DEF RequestArgs
      <4>4. m.what = "put_immutable" => "k" \notin RequestArgs[m.what]
        BY DEF RequestArgs
      <4> QED BY <1>1, <4>1, <4>2, <4>3, <4>4 DEF HasArgs
    <3>3. KindOfRequest(wire.q, wire.body) = m.what
      BY <1>1, <2>4, <3>1, <3>2 DEF KindOfRequest, WireName, RequestArgs
    <3>4. DOMAIN args \cap (RequestArgs[m.what] \cup (RequestOptions[m.what] \ {})) = DOMAIN args
      BY <1>1 DEF HasArgs
    <3>5. RequestFromWire(m.what, wire.body) = [f \in DOMAIN args |-> args[f]]
      BY <2>4, <3>1, <3>2, <3>4 DEF RequestFromWire
    <3> QED BY <1>4, <2>1, <2>4, <3>3, <3>5
  <2> QED BY <2>2, <2>3, <2>4
<1>8. RequestArgs[m.what] \ DOMAIN wire.body = {}
  <2>1. DOMAIN args \ {"salt"} \subseteq DOMAIN wire.body
    BY <1>2 DEF RequestToWire, Restrict
  <2>2. RequestArgs[m.what] \subseteq DOMAIN args /\ "salt" \notin RequestArgs[m.what]
    BY <1>1 DEF HasArgs, RequestArgs
  <2> QED BY <2>1, <2>2
<1>6. Decode(wire) = [tid |-> m.tid, ip |-> m.ip, ro |-> wire.ro > 0, y |-> "q",
                      what |-> m.what, args |-> normal]
  BY <1>2, <1>5, <1>8 DEF Decode, DecodeRequest
<1>7. (wire.ro > 0) = m.ro
  BY <1>2 DEF IsMessage
<1> QED BY <1>3, <1>6, <1>7 DEF Survives, wire

\* messages.rs, into_serde_message and from_serde_message: whatever message the code builds,
\* with any of its optional arguments, is read back as the same message.
THEOREM EveryMessageSurvives ==
    ASSUME NEW m, IsMessage(m)
    PROVE  Survives(m)
BY ResponseSurvives, ErrorSurvives, RequestSurvives DEF IsMessage, Built

\* Of two kinds the one tried first never has fewer arguments.
LEMMA OrderIsRight ==
    ASSUME NEW i \in 1 .. 7, NEW j \in 1 .. 7, i < j
    PROVE  LET first == ResponseArgs[ResponseOrder[i]]
               second == ResponseArgs[ResponseOrder[j]]
           IN  ~(first \subseteq second /\ first # second)
<1> DEFINE Has(k) == ResponseArgs[ResponseOrder[k]]
<1>1. /\ Has(1) = {"id", "token", "v", "k", "seq", "sig"}
      /\ Has(2) = {"id", "token", "seq"}
      /\ Has(3) = {"id", "token", "v"}
      /\ Has(4) = {"id", "token", "values"}
      /\ Has(5) = {"id", "token"}
      /\ Has(6) = {"id", "nodes"}
      /\ Has(7) = {"id"}
  BY DEF ResponseOrder, ResponseArgs
<1> HIDE DEF Has
<1>2. \E arg \in Has(i) : arg \notin Has(j)
  <2>1. CASE i = 1
    BY <1>1, <2>1
  <2>2. CASE i = 2
    BY <1>1, <2>2
  <2>3. CASE i = 3
    BY <1>1, <2>3
  <2>4. CASE i = 4
    BY <1>1, <2>4
  <2>5. CASE i = 5
    BY <1>1, <2>5
  <2>6. CASE i = 6
    BY <1>1, <2>6
  <2> QED BY <2>1, <2>2, <2>3, <2>4, <2>5, <2>6
<1> QED BY <1>2 DEF Has

LEMMA SomeKindFits ==
    ASSUME NEW fields, "id" \in fields
    PROVE  \E k \in 1 .. 7 :
              /\ Fits(ResponseOrder[k], fields)
              /\ \A i \in 1 .. k - 1 : ~Fits(ResponseOrder[i], fields)
              /\ KindOfResponse(fields) = ResponseOrder[k]
<1> DEFINE Has(i) == Fits(ResponseOrder[i], fields)
<1>1. Has(7)
  BY DEF Fits, ResponseOrder, ResponseArgs
<1> HIDE DEF Has
<1>2. \E k \in 1 .. 7 : Has(k) /\ \A i \in 1 .. k - 1 : ~Has(i)
  BY <1>1
<1> QED BY <1>2, FirstThatFits DEF Has

\* internal.rs, DHTResponseSpecific, "order matters": whatever fields a response of another
\* implementation carries besides its id, it is read as the most detailed kind that fits,
\* and its nodes and its token are read whatever that kind is.
THEOREM ForeignResponsesAreRead ==
    ASSUME NEW fields, "id" \in fields, NEW nodes, IsNodeList(nodes)
    PROVE  MostDetailed(fields) /\ ReadsAll(fields, nodes)
<1>1. PICK k \in 1 .. 7 :
        /\ Fits(ResponseOrder[k], fields)
        /\ \A i \in 1 .. k - 1 : ~Fits(ResponseOrder[i], fields)
        /\ KindOfResponse(fields) = ResponseOrder[k]
  BY SomeKindFits
<1>0. KindOfResponse(fields) = ResponseOrder[k]
  BY <1>1
<1>2. MostDetailed(fields)
  <2> SUFFICES ASSUME NEW kind \in DOMAIN ResponseArgs, Fits(kind, fields)
               PROVE  ~(/\ ResponseArgs[ResponseOrder[k]] \subseteq ResponseArgs[kind]
                        /\ ResponseArgs[ResponseOrder[k]] # ResponseArgs[kind])
    BY <1>0, Zenon DEF MostDetailed
  <2>1. PICK j \in 1 .. 7 : kind = ResponseOrder[j]
    <3>1. /\ ResponseOrder[1] = "get_mutable" /\ ResponseOrder[2] = "no_more_recent"
          /\ ResponseOrder[3] = "get_immutable" /\ ResponseOrder[4] = "get_peers"
          /\ ResponseOrder[5] = "no_values" /\ ResponseOrder[6] = "find_node"
          /\ ResponseOrder[7] = "ping"
      BY DEF ResponseOrder
    <3>2. kind \in {"get_mutable", "no_more_recent", "get_immutable", "get_peers",
                    "no_values", "find_node", "ping"}
      BY DEF ResponseArgs
    <3> QED BY <3>1, <3>2
  <2>2. k <= j
    BY <1>1, <2>1
  <2>3. CASE k = j
    BY <2>1, <2>3
  <2>4. CASE k < j
    BY <2>1, <2>4, OrderIsRight
  <2> QED BY <2>2, <2>3, <2>4
<1> DEFINE wire == [t |-> 0, ip |-> NoIp, ro |-> 0, y |-> "r", q |-> "",
                    body |-> [f \in fields |-> IF f = "nodes" THEN NodesToBytes(nodes) ELSE f]]
           kind == ResponseOrder[k]
           known == ResponseArgs[kind] \cup ResponseOptions[kind]
           message == Decode(wire)
<1>3. /\ "id" \in known
      /\ "nodes" \in fields => "nodes" \in known
      /\ "token" \in fields => "token" \in known
  <2> DEFINE Has(i) == Fits(ResponseOrder[i], fields)
  <2>1. /\ "token" \in fields => Has(5)
        /\ "nodes" \in fields => Has(6)
    BY DEF Fits, ResponseOrder, ResponseArgs
  <2>2. /\ "token" \in fields => k <= 5
        /\ "nodes" \in fields => k <= 6
    <3> HIDE DEF Has
    <3>1. \A i \in 1 .. k - 1 : ~Has(i)
      BY <1>1 DEF Has
    <3> QED BY <2>1, <3>1
  <2>3. kind = CASE k = 1 -> "get_mutable" [] k = 2 -> "no_more_recent"
                 [] k = 3 -> "get_immutable" [] k = 4 -> "get_peers"
                 [] k = 5 -> "no_values" [] k = 6 -> "find_node" [] k = 7 -> "ping"
    BY DEF ResponseOrder
  <2> HIDE DEF kind
  <2>4. "id" \in ResponseArgs[kind] /\ (k <= 5 => "token" \in ResponseArgs[kind])
    BY <2>3 DEF ResponseArgs
  <2>5. k <= 6 => "nodes" \in known
    <3>1. k <= 5 => "nodes" \in ResponseOptions[kind]
      BY <2>3 DEF ResponseArgs, ResponseOptions
    <3>2. k = 6 => "nodes" \in ResponseArgs[kind]
      BY <2>3 DEF ResponseArgs
    <3> QED BY <3>1, <3>2
  <2> QED BY <2>2, <2>4, <2>5
<1>4. "nodes" \in fields => WholeNodes(wire.body["nodes"]) /\ BytesToNodes(wire.body["nodes"]) = nodes
  BY NodesSurvive
<1>5. message = [tid |-> 0, ip |-> NoIp, ro |-> FALSE, y |-> "r", what |-> kind,
                 args |-> ResponseFromWire(kind, wire.body)]
  <2>1. Decode(wire) = DecodeResponse(wire)
    BY DEF Decode
  <2>2. DOMAIN wire.body = fields
    OBVIOUS
  <2>3. ~("nodes" \in DOMAIN wire.body /\ ~WholeNodes(wire.body["nodes"]))
    BY <1>4, <2>2
  <2>4. wire.t = 0 /\ wire.ip = NoIp /\ (wire.ro > 0) = FALSE
    OBVIOUS
  <2> HIDE DEF wire
  <2>5. KindOfResponse(DOMAIN wire.body) = kind
    BY <1>0, <2>2, Zenon
  <2> HIDE DEF kind
  <2>6. DecodeResponse(wire) = [tid |-> wire.t, ip |-> wire.ip, ro |-> wire.ro > 0, y |-> "r",
                                what |-> kind, args |-> ResponseFromWire(kind, wire.body)]
    BY <2>3, <2>5, Zenon DEF DecodeResponse
  <2> QED BY <2>1, <2>4, <2>6, Zenon
<1>6. /\ DOMAIN message.args = fields \cap known
      /\ \A f \in fields \cap known :
            message.args[f] = IF f = "nodes" THEN BytesToNodes(wire.body[f]) ELSE f
  <2>1. \A f \in fields : f # "nodes" => wire.body[f] = f
    OBVIOUS
  <2>2. DOMAIN wire.body = fields
    OBVIOUS
  <2> HIDE DEF wire, kind, message
  <2>3. message.args = [f \in fields \cap known |->
                          IF f = "nodes" THEN BytesToNodes(wire.body[f]) ELSE wire.body[f]]
    BY <1>5, <2>2 DEF ResponseFromWire, ArgsFromBytes
  <2> QED BY <2>1, <2>3
<1> HIDE DEF message
<1>7. /\ AuthorId(message) = "id"
      /\ "nodes" \in fields => CloserNodes(message) = nodes
      /\ "token" \in fields => TokenOf(message) = "token"
  <2> HIDE DEF kind, known, wire
  <2>1. message.y = "r"
    BY <1>5
  <2>2. AuthorId(message) = "id"
    BY <1>3, <1>6, <2>1 DEF AuthorId
  <2>3. "nodes" \in fields => CloserNodes(message) = nodes
    BY <1>3, <1>4, <1>6, <2>1 DEF CloserNodes
  <2>4. "token" \in fields => TokenOf(message) = "token"
    BY <1>3, <1>6, <2>1 DEF TokenOf
  <2> QED BY <2>2, <2>3, <2>4
<1>8. ReadsAll(fields, nodes)
  BY <1>7 DEF ReadsAll, message
<1> QED BY <1>2, <1>8

-----------------------------------------------------------------------------
USE DEF Asked

IsRequest(r) ==
    /\ r = [by |-> r.by, to |-> r.to, tid |-> r.tid, at |-> r.at, got |-> r.got,
            reply |-> r.reply]
    /\ r.by \in Node /\ r.at \in Nat /\ r.got \in Nat

TypeInv ==
    /\ now \in Nat
    /\ Len(asked) \in Nat /\ asked = [s \in Asked |-> asked[s]]
    /\ \A s \in Asked : IsRequest(asked[s]) /\ asked[s].at <= now
    /\ inflight = [n \in Node |-> inflight[n]]
    /\ \A n \in Node : inflight[n] = [tid \in DOMAIN inflight[n] |-> inflight[n][tid]]

\* An entry of the table is dated as its request is, has its id, and waits for it: an
\* entry goes with the answer, so the request of one that is there has none.
EntriesInv ==
    \A n \in Node : \A tid \in DOMAIN inflight[n] :
        LET entry == inflight[n][tid] IN
        /\ entry.of \in Asked /\ entry.at = asked[entry.of].at
        /\ asked[entry.of].by = n /\ asked[entry.of].tid = tid
        /\ asked[entry.of].got = 0

\* ... and as long as a request is open its entry is there.
OpenInv ==
    \A s \in Asked :
        Outcome(s) = "open" =>
            /\ asked[s].tid \in DOMAIN inflight[asked[s].by]
            /\ inflight[asked[s].by][asked[s].tid].of = s

SocketInv == TypeInv /\ EntriesInv /\ OpenInv

-----------------------------------------------------------------------------
(* The steps as the table of one node sees them.                           *)

\* A request whose time is over may lose its entry.
Cleans(n, table) ==
    /\ inflight' = [inflight EXCEPT ![n] = table]
    /\ \E kept \in SUBSET DOMAIN inflight[n] :
         /\ table = [tid \in kept |-> inflight[n][tid]]
         /\ \A tid \in DOMAIN inflight[n] \ kept : ~Live(inflight[n][tid])
    /\ UNCHANGED <<now, asked>>

LEMMA AppendTo ==
    ASSUME NEW s, Len(s) \in Nat, s = [i \in 1 .. Len(s) |-> s[i]], NEW e
    PROVE  /\ Len(Append(s, e)) = Len(s) + 1
           /\ Append(s, e) = [i \in 1 .. Len(s) + 1 |-> IF i <= Len(s) THEN s[i] ELSE e]
<1> DEFINE S == {s[i] : i \in 1 .. Len(s)} \cup {e}
<1>1. s \in Seq(S)
  <2>1. \A i \in 1 .. Len(s) : s[i] \in S
    OBVIOUS
  <2> HIDE DEF S
  <2>2. s \in [1 .. Len(s) -> S]
    BY <2>1
  <2>3. s \in UNION {[1 .. k -> S] : k \in Nat}
    BY <2>2
  <2> QED BY <2>3, SeqDef
<1>2. e \in S
  OBVIOUS
<1> HIDE DEF S
<1>3. Append(s, e) \in Seq(S) /\ Len(Append(s, e)) = Len(s) + 1
  BY <1>1, <1>2
<1>4. \A i \in 1 .. Len(s) + 1 : Append(s, e)[i] = IF i <= Len(s) THEN s[i] ELSE e
  BY <1>1, <1>2
<1>5. Append(s, e) = [i \in 1 .. Len(s) + 1 |-> Append(s, e)[i]]
  <2>1. Append(s, e) \in [1 .. Len(s) + 1 -> S]
    BY <1>3, LenProperties
  <2> QED BY <2>1
<1> QED BY <1>3, <1>4, <1>5

\* Every clean-up keeps what is live: elapsed < timeout and sent_at > now - timeout
\* are the same question.
LEMMA TableCleans ==
    ASSUME SocketInv, NEW n \in Node
    PROVE  \E kept \in SUBSET DOMAIN inflight[n] :
              /\ Table(n) = [tid \in kept |-> inflight[n][tid]]
              /\ \A tid \in DOMAIN inflight[n] \ kept : ~Live(inflight[n][tid])
<1>1. CASE CleanUpDue(n)
  <2> DEFINE kept == {tid \in DOMAIN inflight[n] : inflight[n][tid].at > now - Timeout}
  <2>1. Table(n) = [tid \in kept |-> inflight[n][tid]]
    BY <1>1 DEF Table, Retained, Restrict
  <2>2. \A tid \in DOMAIN inflight[n] \ kept : ~Live(inflight[n][tid])
    <3> SUFFICES ASSUME NEW tid \in DOMAIN inflight[n], ~(inflight[n][tid].at > now - Timeout)
                 PROVE  ~Live(inflight[n][tid])
      OBVIOUS
    <3>1. inflight[n][tid].at \in Nat
      BY DEF SocketInv, TypeInv, EntriesInv, IsRequest
    <3> QED BY <3>1, SocketAssumption DEF Live, SocketInv, TypeInv
  <2> QED BY <2>1, <2>2
<1>2. CASE ~CleanUpDue(n)
  <2>1. Table(n) = inflight[n]
    BY <1>2 DEF Table
  <2>2. inflight[n] = [tid \in DOMAIN inflight[n] |-> inflight[n][tid]]
    BY DEF SocketInv, TypeInv
  <2> QED BY <2>1, <2>2
<1> QED BY <1>1, <1>2
-----------------------------------------------------------------------------
(* The four kinds of steps.                                                *)

LEMMA InitSocket == Init => SocketInv
BY SocketAssumption DEF Init, SocketInv, TypeInv, EntriesInv, OpenInv, Empty

\* Time passes: open requests may expire, nothing else changes.
LEMMA TickKeeps == SocketInv /\ Tick => SocketInv'
<1> SUFFICES ASSUME SocketInv, Tick PROVE SocketInv'
  OBVIOUS
<1>1. now' = now + 1 /\ asked' = asked /\ inflight' = inflight /\ now \in Nat
  BY DEF Tick, SocketInv, TypeInv
<1>2. TypeInv'
  BY <1>1 DEF SocketInv, TypeInv, IsRequest
<1>3. EntriesInv'
  BY <1>1 DEF SocketInv, EntriesInv
<1>4. OpenInv'
  <2> SUFFICES ASSUME NEW s \in Asked, Outcome(s)' = "open" PROVE Outcome(s) = "open"
    BY <1>1 DEF SocketInv, OpenInv
  <2>1. asked[s].at \in Nat /\ now \in Nat /\ Timeout \in Nat
    BY SocketAssumption DEF SocketInv, TypeInv, IsRequest
  <2> QED BY <1>1, <2>1 DEF Outcome
<1> QED BY <1>2, <1>3, <1>4 DEF SocketInv

LEMMA CleansKeeps ==
    ASSUME SocketInv, NEW n \in Node, NEW table, Cleans(n, table)
    PROVE  SocketInv'
<1>1. now' = now /\ asked' = asked
  BY DEF Cleans
<1>2. PICK kept \in SUBSET DOMAIN inflight[n] :
        /\ table = [tid \in kept |-> inflight[n][tid]]
        /\ \A tid \in DOMAIN inflight[n] \ kept : ~Live(inflight[n][tid])
  BY DEF Cleans
<1>3. inflight' = [m \in Node |-> IF m = n THEN table ELSE inflight[m]]
  BY DEF Cleans, SocketInv, TypeInv
<1>4. TypeInv'
  <2>1. table = [tid \in DOMAIN table |-> table[tid]]
    BY <1>2
  <2>2. \A m \in Node : inflight'[m] = [tid \in DOMAIN inflight'[m] |-> inflight'[m][tid]]
    BY <1>3, <2>1 DEF SocketInv, TypeInv
  <2> QED BY <1>1, <1>3, <2>2 DEF SocketInv, TypeInv, IsRequest
<1>5. EntriesInv'
  BY <1>1, <1>2, <1>3 DEF SocketInv, EntriesInv
<1>6. OpenInv'
  <2> SUFFICES ASSUME NEW s \in Asked, Outcome(s) = "open", asked[s].by = n
               PROVE  asked[s].tid \in kept
    BY <1>1, <1>2, <1>3 DEF SocketInv, TypeInv, IsRequest, OpenInv, Outcome
  <2>1. asked[s].tid \in DOMAIN inflight[n] /\ inflight[n][asked[s].tid].of = s
    BY DEF SocketInv, OpenInv
  <2>2. inflight[n][asked[s].tid].at = asked[s].at
    BY <2>1 DEF SocketInv, EntriesInv
  <2>3. asked[s].at \in Nat /\ now \in Nat /\ Timeout \in Nat
    BY SocketAssumption DEF SocketInv, TypeInv, IsRequest
  <2>4. Live(inflight[n][asked[s].tid])
    BY <2>2, <2>3 DEF Outcome, Live
  <2> QED BY <1>2, <2>1, <2>4
<1> QED BY <1>4, <1>5, <1>6 DEF SocketInv

\* A request has the next number, and an entry that waits for it.
Sending(n, to, new, r, entry) ==
    /\ new = Len(asked) + 1
    /\ r = [by |-> n, to |-> to, tid |-> nextTid[n], at |-> now, got |-> 0, reply |-> Empty]
    /\ entry = [to |-> to, at |-> now, of |-> new]
    /\ Len(asked') = new
    /\ asked' = [s \in 1 .. new |-> IF s <= Len(asked) THEN asked[s] ELSE r]
    /\ asked'[new] = r /\ \A s \in Asked : asked'[s] = asked[s] /\ s # new
    /\ inflight' = [m \in Node |-> IF m = n THEN With(inflight[n], nextTid[n], entry)
                                   ELSE inflight[m]]
    /\ DOMAIN inflight'[n] = {nextTid[n]} \cup DOMAIN inflight[n]
    /\ inflight'[n][nextTid[n]] = entry
    /\ \A tid \in DOMAIN inflight[n] :
          tid # nextTid[n] => inflight'[n][tid] = inflight[n][tid]
    /\ inflight'[n] = [tid \in DOMAIN inflight'[n] |-> inflight'[n][tid]]

LEMMA RequestStep ==
    ASSUME SocketInv, NEW n \in Node, NEW to, NEW body, NEW from, Request(n, to, body, from)
    PROVE  \E new, r, entry : Sending(n, to, new, r, entry)
<1> PICK new : new = Len(asked) + 1
  OBVIOUS
<1> PICK r : r = [by |-> n, to |-> to, tid |-> nextTid[n], at |-> now, got |-> 0,
                  reply |-> Empty]
  OBVIOUS
<1> PICK entry : entry = [to |-> to, at |-> now, of |-> new]
  OBVIOUS
<1>1. Len(asked) \in Nat
  BY DEF SocketInv, TypeInv
<1>2. asked' = Append(asked, r)
  BY DEF Request
<1>3. Len(asked') = new /\ asked' = [s \in 1 .. new |-> IF s <= Len(asked) THEN asked[s] ELSE r]
  <2>1. asked = [s \in 1 .. Len(asked) |-> asked[s]]
    BY DEF SocketInv, TypeInv
  <2> QED BY <1>1, <1>2, <2>1, AppendTo
<1>4. asked'[new] = r /\ \A s \in Asked : asked'[s] = asked[s] /\ s # new
  BY <1>1, <1>3
<1>5. inflight' = [m \in Node |-> IF m = n THEN With(inflight[n], nextTid[n], entry)
                                  ELSE inflight[m]]
  BY DEF Request, SocketInv, TypeInv
<1>6. /\ DOMAIN inflight'[n] = {nextTid[n]} \cup DOMAIN inflight[n]
      /\ inflight'[n][nextTid[n]] = entry
      /\ \A tid \in DOMAIN inflight[n] :
            tid # nextTid[n] => inflight'[n][tid] = inflight[n][tid]
      /\ inflight'[n] = [tid \in DOMAIN inflight'[n] |-> inflight'[n][tid]]
  BY <1>5 DEF With
<1>7. Sending(n, to, new, r, entry)
  BY <1>3, <1>4, <1>5, <1>6 DEF Sending
<1> QED BY <1>7

\* A new request is open and has its entry.  It may take the entry of an older one with
\* the same id only when that is not in flight (IdIsFree).
LEMMA RequestKeeps ==
    ASSUME SocketInv, NEW n \in Node, NEW to, NEW body, NEW from, Request(n, to, body, from)
    PROVE  SocketInv' /\ \A s : s = Len(asked) + 1 => Outcome(s)' = "open"
<1> PICK new, r, entry : Sending(n, to, new, r, entry)
  BY RequestStep
<1>1. now \in Nat /\ now' = now /\ Len(asked) \in Nat /\ Timeout \in Nat \ {0}
  BY SocketAssumption DEF Request, SocketInv, TypeInv
<1>2. /\ new = Len(asked) + 1
      /\ r = [by |-> n, to |-> to, tid |-> nextTid[n], at |-> now, got |-> 0, reply |-> Empty]
      /\ entry = [to |-> to, at |-> now, of |-> new]
  BY DEF Sending
<1>3. Len(asked') = new /\ asked' = [s \in 1 .. new |-> IF s <= Len(asked) THEN asked[s] ELSE r]
  BY DEF Sending
<1>4. asked'[new] = r /\ \A s \in Asked : asked'[s] = asked[s] /\ s # new
  BY DEF Sending
<1>5. inflight' = [m \in Node |-> IF m = n THEN With(inflight[n], nextTid[n], entry)
                                  ELSE inflight[m]]
  BY DEF Sending
<1>6. /\ DOMAIN inflight'[n] = {nextTid[n]} \cup DOMAIN inflight[n]
      /\ inflight'[n][nextTid[n]] = entry
      /\ \A tid \in DOMAIN inflight[n] :
            tid # nextTid[n] => inflight'[n][tid] = inflight[n][tid]
      /\ inflight'[n] = [tid \in DOMAIN inflight'[n] |-> inflight'[n][tid]]
  BY DEF Sending
<1>7. TypeInv'
  <2>1. IsRequest(r) /\ r.at <= now
    BY <1>1, <1>2 DEF IsRequest
  <2>2. \A s \in 1 .. new : IsRequest(asked'[s]) /\ asked'[s].at <= now
    BY <1>1, <1>2, <1>4, <2>1 DEF SocketInv, TypeInv
  <2>3. asked' = [s \in 1 .. new |-> asked'[s]] /\ new \in Nat
    BY <1>1, <1>2, <1>3
  <2>4. \A m \in Node : inflight'[m] = [tid \in DOMAIN inflight'[m] |-> inflight'[m][tid]]
    BY <1>5, <1>6 DEF SocketInv, TypeInv
  <2>5. inflight' = [m \in Node |-> inflight'[m]]
    BY <1>5
  <2> QED BY <1>1, <1>2, <1>3, <2>2, <2>3, <2>4, <2>5 DEF TypeInv, IsRequest
<1>8. EntriesInv'
  <2> SUFFICES ASSUME NEW m \in Node, NEW tid \in DOMAIN inflight'[m]
               PROVE  LET e == inflight'[m][tid] IN
                      /\ e.of \in Asked' /\ e.at = asked'[e.of].at
                      /\ asked'[e.of].by = m /\ asked'[e.of].tid = tid
                      /\ asked'[e.of].got = 0
    BY DEF EntriesInv
  <2>0. Asked' = 1 .. new
    BY <1>3
  <2>1. CASE m = n /\ tid = nextTid[n]
    BY <1>1, <1>2, <1>4, <1>6, <2>0, <2>1
  <2>2. CASE ~(m = n /\ tid = nextTid[n])
    <3>1. tid \in DOMAIN inflight[m] /\ inflight'[m][tid] = inflight[m][tid]
      BY <1>2, <1>5, <1>6, <2>2
    <3>2. LET e == inflight[m][tid] IN
            /\ e.of \in Asked /\ e.at = asked[e.of].at
            /\ asked[e.of].by = m /\ asked[e.of].tid = tid /\ asked[e.of].got = 0
      BY <3>1 DEF SocketInv, EntriesInv
    <3> QED BY <1>1, <1>2, <1>4, <2>0, <3>1, <3>2
  <2> QED BY <2>1, <2>2
<1>9. OpenInv'
  <2> SUFFICES ASSUME NEW s \in 1 .. new, Outcome(s)' = "open"
               PROVE  /\ asked'[s].tid \in DOMAIN inflight'[asked'[s].by]
                      /\ inflight'[asked'[s].by][asked'[s].tid].of = s
    BY <1>3 DEF OpenInv
  <2>1. CASE s = new
    BY <1>2, <1>4, <1>6, <2>1
  <2>2. CASE s \in Asked
    <3>1. asked'[s] = asked[s] /\ Outcome(s) = "open"
      BY <1>1, <1>4, <2>2 DEF Outcome
    <3>2. /\ asked[s].tid \in DOMAIN inflight[asked[s].by]
          /\ inflight[asked[s].by][asked[s].tid].of = s
      BY <2>2, <3>1 DEF SocketInv, OpenInv
    <3>3. asked[s].by \in Node /\ asked[s].at \in Nat
      BY <2>2 DEF SocketInv, TypeInv, IsRequest
    <3>4. ~(asked[s].by = n /\ asked[s].tid = nextTid[n])
      <4> SUFFICES ASSUME asked[s].by = n, asked[s].tid = nextTid[n] PROVE FALSE
        OBVIOUS
      <4>1. inflight[n][nextTid[n]].at = asked[s].at
        BY <3>2, <3>3 DEF SocketInv, EntriesInv
      <4>2. now - asked[s].at < Timeout
        BY <1>1, <3>1, <3>3 DEF Outcome
      <4>3. InFlight(n, nextTid[n])
        BY <3>2, <4>1, <4>2 DEF InFlight, Live
      <4> QED BY <4>3 DEF Request, IdIsFree
    <3> QED BY <1>2, <1>5, <1>6, <3>1, <3>2, <3>3, <3>4
  <2> QED BY <1>1, <1>2, <2>1, <2>2
<1>10. Outcome(new)' = "open"
  <2>1. asked'[new].got = 0 /\ asked'[new].at = now
    BY <1>2, <1>4
  <2> QED BY <1>1, <2>1 DEF Outcome
<1> QED BY <1>2, <1>7, <1>8, <1>9, <1>10 DEF SocketInv

LEMMA AnsweredRequest ==
    ASSUME NEW r, IsRequest(r), r.got = 0, NEW reply
    PROVE  [r EXCEPT !.got = @ + 1, !.reply = reply]
              = [by |-> r.by, to |-> r.to, tid |-> r.tid, at |-> r.at, got |-> 1,
                 reply |-> reply]
<1>1. [r EXCEPT !.got = @ + 1]
         = [by |-> r.by, to |-> r.to, tid |-> r.tid, at |-> r.at, got |-> 1,
            reply |-> r.reply]
  BY DEF IsRequest
<1>2. ASSUME NEW q, NEW old,
             q = [by |-> r.by, to |-> r.to, tid |-> r.tid, at |-> r.at, got |-> 1,
                  reply |-> old]
      PROVE  [q EXCEPT !.reply = reply]
                = [by |-> r.by, to |-> r.to, tid |-> r.tid, at |-> r.at, got |-> 1,
                   reply |-> reply]
  BY <1>2
<1> QED BY <1>1, <1>2

\* An answer that is expected settles the request its entry names, which is open, and
\* no other; its entry goes with it.
Settling(n, d, kept, tid, s) ==
    /\ kept \in SUBSET DOMAIN inflight[n] /\ tid \in kept /\ s \in Asked
    /\ tid = Decode(d.wire).tid /\ s = inflight[n][tid].of /\ Live(inflight[n][tid])
    /\ \A t \in DOMAIN inflight[n] \ kept : ~Live(inflight[n][t])
    /\ inflight' = [m \in Node |-> IF m = n THEN [t \in kept \ {tid} |-> inflight[n][t]]
                                    ELSE inflight[m]]
    /\ asked' = [t \in Asked |-> asked'[t]] /\ Len(asked') = Len(asked)
    /\ \A t \in Asked \ {s} : asked'[t] = asked[t]
    /\ asked'[s] = [by |-> n, to |-> asked[s].to, tid |-> tid, at |-> asked[s].at,
                    got |-> 1, reply |-> <<d.of, Decode(d.wire)>>]

LEMMA ExpectedStep ==
    ASSUME SocketInv, NEW n \in Node, NEW d, ReceiveExpected(n, d)
    PROVE  \E kept, tid, s : Settling(n, d, kept, tid, s)
<1>1. PICK kept \in SUBSET DOMAIN inflight[n] :
        /\ Table(n) = [t \in kept |-> inflight[n][t]]
        /\ \A t \in DOMAIN inflight[n] \ kept : ~Live(inflight[n][t])
  BY TableCleans
<1>2. now \in Nat /\ now' = now /\ Timeout \in Nat /\ Len(asked) \in Nat
  BY SocketAssumption DEF ReceiveExpected, Receives, SocketInv, TypeInv
<1>3. PICK tid, s : /\ tid = Decode(d.wire).tid /\ s = Table(n)[tid].of
                    /\ tid \in kept /\ Live(inflight[n][tid]) /\ s = inflight[n][tid].of
  BY <1>1 DEF ReceiveExpected, Expected
<1> PICK reply : reply = <<d.of, Decode(d.wire)>>
  OBVIOUS
<1>4. asked' = [asked EXCEPT ![s].got = @ + 1, ![s].reply = reply]
  BY <1>3 DEF ReceiveExpected
<1>5. inflight' = [m \in Node |-> IF m = n THEN [t \in kept \ {tid} |-> inflight[n][t]]
                                  ELSE inflight[m]]
  <2>1. inflight' = [inflight EXCEPT ![n] = Without(Table(n), tid)]
    BY <1>3 DEF ReceiveExpected
  <2>2. Without(Table(n), tid) = [t \in kept \ {tid} |-> inflight[n][t]]
    BY <1>1 DEF Without, Restrict
  <2> QED BY <2>1, <2>2 DEF SocketInv, TypeInv
<1>6. /\ s \in Asked /\ inflight[n][tid].at = asked[s].at
      /\ asked[s].by = n /\ asked[s].tid = tid /\ asked[s].got = 0
  <2>1. EntriesInv /\ tid \in DOMAIN inflight[n] /\ s = inflight[n][tid].of
    BY <1>1, <1>3 DEF SocketInv
  <2> QED BY <2>1 DEF EntriesInv
<1>7. /\ asked' = [t \in Asked |-> asked'[t]] /\ Len(asked') = Len(asked)
      /\ \A t \in Asked \ {s} : asked'[t] = asked[t]
      /\ asked'[s] = [by |-> n, to |-> asked[s].to, tid |-> tid, at |-> asked[s].at,
                      got |-> 1, reply |-> reply]
  <2>1. asked' = [t \in Asked |-> IF t = s THEN [asked[s] EXCEPT !.got = @ + 1, !.reply = reply]
                                  ELSE asked[t]]
    BY <1>4, <1>6 DEF SocketInv, TypeInv
  <2>2. [asked[s] EXCEPT !.got = @ + 1, !.reply = reply]
           = [by |-> n, to |-> asked[s].to, tid |-> tid, at |-> asked[s].at,
              got |-> 1, reply |-> reply]
    <3>1. IsRequest(asked[s])
      BY <1>6 DEF SocketInv, TypeInv
    <3>2. \A r : IsRequest(r) /\ r.got = 0 =>
            [r EXCEPT !.got = @ + 1, !.reply = reply]
               = [by |-> r.by, to |-> r.to, tid |-> r.tid, at |-> r.at, got |-> 1,
                  reply |-> reply]
      BY AnsweredRequest
    <3> QED BY <1>6, <3>1, <3>2
  <2>3. Len(asked') = Len(asked)
    <3>1. \E S : asked' \in [1 .. Len(asked) -> S]
      <4>1. asked' \in [1 .. Len(asked) -> {asked'[t] : t \in Asked}]
        BY <2>1
      <4> QED BY <4>1
    <3>2. \E S : asked' \in Seq(S)
      BY <1>2, <3>1, SeqDef
    <3> QED BY <1>2, <3>1, <3>2, LenProperties
  <2> QED BY <1>6, <2>1, <2>2, <2>3
<1>8. Settling(n, d, kept, tid, s)
  BY <1>1, <1>3, <1>5, <1>6, <1>7 DEF Settling
<1> QED BY <1>8

LEMMA ExpectedKeeps ==
    ASSUME SocketInv, NEW n \in Node, NEW d, ReceiveExpected(n, d)
    PROVE  /\ SocketInv'
           /\ Len(asked') = Len(asked)
           /\ \E s \in Asked : /\ Outcome(s) = "open" /\ Outcome(s)' = "answered"
                               /\ \A t \in Asked \ {s} : Outcome(t)' = Outcome(t)
<1> PICK reply : reply = <<d.of, Decode(d.wire)>>
  OBVIOUS
<1>0. PICK kept, tid, s : Settling(n, d, kept, tid, s)
  BY ExpectedStep
<1>1. /\ kept \in SUBSET DOMAIN inflight[n]
      /\ \A t \in DOMAIN inflight[n] \ kept : ~Live(inflight[n][t])
  BY <1>0 DEF Settling
<1>2. now \in Nat /\ now' = now /\ Timeout \in Nat /\ Len(asked) \in Nat
  BY SocketAssumption DEF ReceiveExpected, Receives, SocketInv, TypeInv
<1>3. tid \in kept /\ Live(inflight[n][tid]) /\ s = inflight[n][tid].of
  BY <1>0 DEF Settling
<1>5. inflight' = [m \in Node |-> IF m = n THEN [t \in kept \ {tid} |-> inflight[n][t]]
                                  ELSE inflight[m]]
  BY <1>0 DEF Settling
<1>6. /\ s \in Asked /\ inflight[n][tid].at = asked[s].at
      /\ asked[s].by = n /\ asked[s].tid = tid /\ asked[s].got = 0
  BY <1>1, <1>3 DEF SocketInv, EntriesInv
<1>7. /\ asked' = [t \in Asked |-> asked'[t]] /\ Len(asked') = Len(asked)
      /\ \A t \in Asked \ {s} : asked'[t] = asked[t]
      /\ asked'[s] = [by |-> n, to |-> asked[s].to, tid |-> tid, at |-> asked[s].at,
                      got |-> 1, reply |-> reply]
  BY <1>0 DEF Settling
<1>8. \A t \in Asked : /\ asked'[t].by = asked[t].by /\ asked'[t].tid = asked[t].tid
                       /\ asked'[t].at = asked[t].at
                       /\ t # s => asked'[t].got = asked[t].got
  BY <1>6, <1>7
<1>9. Outcome(s) = "open" /\ Outcome(s)' = "answered"
  <2>1. asked[s].at \in Nat
    BY <1>6 DEF SocketInv, TypeInv, IsRequest
  <2>2. now - asked[s].at < Timeout
    BY <1>3, <1>6 DEF Live
  <2>3. asked'[s].got = 1
    BY <1>7
  <2> QED BY <1>2, <1>6, <2>1, <2>2, <2>3 DEF Outcome
<1>10. \A t \in Asked \ {s} : Outcome(t)' = Outcome(t)
  BY <1>2, <1>8 DEF Outcome
<1>11. TypeInv'
  <2>1. \A t \in Asked : IsRequest(asked'[t]) /\ asked'[t].at <= now
    <3> SUFFICES ASSUME NEW t \in Asked PROVE IsRequest(asked'[t]) /\ asked'[t].at <= now
      OBVIOUS
    <3>1. IsRequest(asked[t]) /\ asked[t].at <= now
      BY DEF SocketInv, TypeInv
    <3>2. CASE t = s
      BY <1>7, <3>1, <3>2 DEF IsRequest
    <3>3. CASE t # s
      BY <1>7, <3>1, <3>3
    <3> QED BY <3>2, <3>3
  <2>2. \A m \in Node : inflight'[m] = [t \in DOMAIN inflight'[m] |-> inflight'[m][t]]
    BY <1>5 DEF SocketInv, TypeInv
  <2>3. inflight' = [m \in Node |-> inflight'[m]]
    BY <1>5
  <2> QED BY <1>2, <1>7, <2>1, <2>2, <2>3 DEF TypeInv, IsRequest
<1>12. EntriesInv'
  <2> SUFFICES ASSUME NEW m \in Node, NEW t \in DOMAIN inflight'[m]
               PROVE  LET e == inflight'[m][t] IN
                      /\ e.of \in Asked /\ e.at = asked'[e.of].at
                      /\ asked'[e.of].by = m /\ asked'[e.of].tid = t
                      /\ asked'[e.of].got = 0
    BY <1>7 DEF EntriesInv
  <2>1. t \in DOMAIN inflight[m] /\ inflight'[m][t] = inflight[m][t] /\ ~(m = n /\ t = tid)
    BY <1>1, <1>5
  <2>2. LET e == inflight[m][t] IN
            /\ e.of \in Asked /\ e.at = asked[e.of].at
            /\ asked[e.of].by = m /\ asked[e.of].tid = t /\ asked[e.of].got = 0
    BY <2>1 DEF SocketInv, EntriesInv
  <2>3. inflight[m][t].of # s
    BY <1>6, <2>1, <2>2
  <2> QED BY <1>8, <2>1, <2>2, <2>3
<1>13. OpenInv'
  <2> SUFFICES ASSUME NEW t \in Asked, Outcome(t)' = "open"
               PROVE  /\ asked'[t].tid \in DOMAIN inflight'[asked'[t].by]
                      /\ inflight'[asked'[t].by][asked'[t].tid].of = t
    BY <1>7 DEF OpenInv
  <2>1. t # s /\ Outcome(t) = "open"
    BY <1>9, <1>10
  <2>2. /\ asked[t].tid \in DOMAIN inflight[asked[t].by]
        /\ inflight[asked[t].by][asked[t].tid].of = t
        /\ asked[t].by \in Node /\ asked[t].at \in Nat
    BY <2>1 DEF SocketInv, TypeInv, IsRequest, OpenInv
  <2>3. Live(inflight[asked[t].by][asked[t].tid])
    <3>1. inflight[asked[t].by][asked[t].tid].at = asked[t].at
      BY <2>2 DEF SocketInv, EntriesInv
    <3> QED BY <1>2, <2>1, <2>2, <3>1 DEF Outcome, Live
  <2>4. ~(asked[t].by = n /\ asked[t].tid = tid)
    BY <1>3, <2>1, <2>2
  <2> QED BY <1>1, <1>5, <1>8, <2>2, <2>3, <2>4
<1> QED BY <1>6, <1>7, <1>9, <1>10, <1>11, <1>12, <1>13 DEF SocketInv

\* The rest is clean-up, or does not touch the requests.
LEMMA NothingCleans ==
    ASSUME SocketInv, NEW n \in Node, ReceiveNothing(n)
    PROVE  Cleans(n, Table(n))
BY TableCleans DEF ReceiveNothing, Cleans

LEMMA RequestCleans ==
    ASSUME SocketInv, NEW n \in Node, NEW d, ReceiveRequest(n, d)
    PROVE  Cleans(n, Table(n))
<1>1. inflight' = [inflight EXCEPT ![n] = Table(n)] /\ UNCHANGED <<now, asked>>
  BY DEF ReceiveRequest, Receives
<1> QED BY <1>1, TableCleans DEF Cleans

LEMMA UnexpectedCleans ==
    ASSUME SocketInv, NEW n \in Node, NEW d, ReceiveUnexpected(n, d)
    PROVE  \E table : Cleans(n, table)
<1>1. PICK tid : tid = Decode(d.wire).tid
  OBVIOUS
<1>2. PICK table : table = IF tid \in DOMAIN Table(n) /\ ~Live(Table(n)[tid])
                           THEN Without(Table(n), tid) ELSE Table(n)
  OBVIOUS
<1>3. inflight' = [inflight EXCEPT ![n] = table] /\ UNCHANGED <<now, asked>>
  BY <1>1, <1>2 DEF ReceiveUnexpected, Receives
<1>4. PICK kept \in SUBSET DOMAIN inflight[n] :
        /\ Table(n) = [t \in kept |-> inflight[n][t]]
        /\ \A t \in DOMAIN inflight[n] \ kept : ~Live(inflight[n][t])
  BY TableCleans
<1>5. CASE tid \in DOMAIN Table(n) /\ ~Live(Table(n)[tid])
  <2>1. table = [t \in kept \ {tid} |-> inflight[n][t]]
    BY <1>2, <1>4, <1>5 DEF Without, Restrict
  <2>2. ~Live(inflight[n][tid])
    BY <1>4, <1>5
  <2>3. \A t \in DOMAIN inflight[n] \ (kept \ {tid}) : ~Live(inflight[n][t])
    BY <1>4, <2>2
  <2>4. kept \ {tid} \in SUBSET DOMAIN inflight[n]
    OBVIOUS
  <2> QED BY <1>3, <2>1, <2>3, <2>4 DEF Cleans
<1>6. CASE ~(tid \in DOMAIN Table(n) /\ ~Live(Table(n)[tid]))
  BY <1>2, <1>3, <1>4, <1>6 DEF Cleans
<1> QED BY <1>5, <1>6

LEMMA OtherSteps ==
    ASSUME SocketInv, [Next]_vars
    PROVE  \/ Tick
           \/ \E n \in Node : \E to, body, from : Request(n, to, body, from)
           \/ \E n \in Node : \E d : ReceiveExpected(n, d)
           \/ \E n \in Node : \E table : Cleans(n, table)
           \/ UNCHANGED <<now, asked, inflight>>
<1>1. ASSUME NEW d, Lose(d) PROVE UNCHANGED <<now, asked, inflight>>
  BY <1>1 DEF Lose
<1>2. UNCHANGED vars => UNCHANGED <<now, asked, inflight>>
  BY DEF vars
<1> QED BY <1>1, <1>2, NothingCleans, RequestCleans, UnexpectedCleans DEF Next

LEMMA NextSocket == SocketInv /\ [Next]_vars => SocketInv'
<1> SUFFICES ASSUME SocketInv, [Next]_vars PROVE SocketInv'
  OBVIOUS
<1>1. UNCHANGED <<now, asked, inflight>> => SocketInv'
  BY DEF SocketInv, TypeInv, EntriesInv, OpenInv, IsRequest, Outcome
<1> QED BY <1>1, OtherSteps, TickKeeps, RequestKeeps, ExpectedKeeps, CleansKeeps

LEMMA SocketInvHolds == Spec => []SocketInv
BY InitSocket, NextSocket, PTL DEF Spec

-----------------------------------------------------------------------------
(* What the queries see.                                                   *)

LEMMA InFlightAgrees == SocketInv => InFlightIsOpen
<1> SUFFICES ASSUME SocketInv, NEW s \in Asked
             PROVE  Outcome(s) = "open" <=>
                      /\ InFlight(asked[s].by, asked[s].tid)
                      /\ inflight[asked[s].by][asked[s].tid].of = s
  BY DEF InFlightIsOpen
<1>1. /\ asked[s].by \in Node /\ asked[s].at \in Nat /\ asked[s].got \in Nat
      /\ now \in Nat /\ Timeout \in Nat
  BY SocketAssumption DEF SocketInv, TypeInv, IsRequest
<1>2. ASSUME asked[s].tid \in DOMAIN inflight[asked[s].by],
             inflight[asked[s].by][asked[s].tid].of = s
      PROVE  /\ asked[s].got = 0
             /\ Live(inflight[asked[s].by][asked[s].tid]) <=> now - asked[s].at < Timeout
  BY <1>1, <1>2 DEF SocketInv, EntriesInv, Live
<1>3. Outcome(s) = "open" <=> asked[s].got = 0 /\ now - asked[s].at < Timeout
  BY <1>1 DEF Outcome
<1> QED BY <1>2, <1>3 DEF SocketInv, OpenInv, InFlight

\* inflight_requests.rs: whatever is lost, late, repeated or comes from elsewhere, and
\* whenever ids come round again and the table is cleaned, to a query a request is in
\* flight until it is answered or its time is over, neither less nor longer.
THEOREM InFlightUntilSettled == Spec => []InFlightIsOpen
BY InFlightAgrees, SocketInvHolds, PTL

\* The socket implements Asking: a request is open, then answered once or expired, and
\* what it is then it stays.
THEOREM SocketKeepsRequests == Spec => KeepsRequests
<1> DEFINE outcome == [s \in Asked |-> Outcome(s)]
<1>1. Init => Requests!Init
  BY DEF Init, Requests!Init
<1>2. SocketInv /\ [Next]_vars => [Requests!Next]_outcome
  <2> SUFFICES ASSUME SocketInv, [Next]_vars PROVE Requests!Next \/ outcome' = outcome
    OBVIOUS
  <2>0. Len(asked) \in Nat
    BY DEF SocketInv, TypeInv
  <2>1. ASSUME Tick PROVE Requests!Expire
    <3>1. now' = now + 1 /\ asked' = asked /\ now \in Nat
      BY <2>1 DEF Tick, SocketInv, TypeInv
    <3> DEFINE some == {s \in Asked : Outcome(s) = "open" /\ now' - asked[s].at >= Timeout}
    <3>2. \A s \in Asked : Outcome(s)' = IF s \in some THEN "expired" ELSE Outcome(s)
      <4> SUFFICES ASSUME NEW s \in Asked
                   PROVE  Outcome(s)' = IF s \in some THEN "expired" ELSE Outcome(s)
        OBVIOUS
      <4>1. IsRequest(asked[s])
        BY DEF SocketInv, TypeInv
      <4>2. asked[s].at \in Nat
        BY <4>1 DEF IsRequest
      <4>3. Timeout \in Nat
        BY SocketAssumption
      <4>4. asked'[s] = asked[s] /\ now' = now + 1 /\ now \in Nat
        BY <3>1
      <4>5. Outcome(s)' = IF asked[s].got > 0 THEN "answered"
                          ELSE IF now' - asked[s].at >= Timeout THEN "expired"
                          ELSE "open"
        BY <4>4, Zenon DEF Outcome
      <4>6. Outcome(s) = IF asked[s].got > 0 THEN "answered"
                         ELSE IF now - asked[s].at >= Timeout THEN "expired"
                         ELSE "open"
        BY Zenon DEF Outcome
      <4>7. now - asked[s].at >= Timeout => now' - asked[s].at >= Timeout
        BY <4>2, <4>3, <4>4
      <4>8. s \in some <=> Outcome(s) = "open" /\ now' - asked[s].at >= Timeout
        OBVIOUS
      <4> QED BY <4>5, <4>6, <4>7, <4>8, Zenon
    <3>3. outcome' = [s \in Asked |-> IF s \in some THEN "expired" ELSE outcome[s]]
      BY <3>1, <3>2
    <3>4. some \in SUBSET {r \in DOMAIN outcome : outcome[r] = "open"}
      OBVIOUS
    <3> HIDE DEF some
    <3> QED BY <3>3, <3>4 DEF Requests!Expire
  <2>2. ASSUME NEW n \in Node, NEW to, NEW body, NEW from, Request(n, to, body, from)
        PROVE  Requests!Ask
    <3>1. PICK new : new = Len(asked) + 1
      OBVIOUS
    <3>2. Len(asked') = new /\ \A s \in Asked : asked'[s] = asked[s]
      <4>1. \E k, r, entry : Sending(n, to, k, r, entry)
        BY <2>2, RequestStep
      <4> QED BY <3>1, <4>1 DEF Sending
    <3>3. now' = now
      BY <2>2 DEF Request
    <3>4. Outcome(new)' = "open"
      BY <2>2, <3>1, RequestKeeps
    <3>5. \A s \in Asked : Outcome(s)' = Outcome(s)
      BY <3>2, <3>3 DEF Outcome
    <3>6. outcome' = [s \in 1 .. new |-> IF s <= Len(asked) THEN outcome[s] ELSE "open"]
      BY <2>0, <3>1, <3>2, <3>4, <3>5
    <3>7. Len(outcome) = Len(asked) /\ outcome = [s \in 1 .. Len(outcome) |-> outcome[s]]
      BY <2>0
    <3> HIDE DEF outcome
    <3>8. Append(outcome, "open")
             = [s \in 1 .. Len(outcome) + 1 |-> IF s <= Len(outcome) THEN outcome[s] ELSE "open"]
      BY <2>0, <3>7, AppendTo
    <3>9. outcome' = Append(outcome, "open")
      BY <3>1, <3>6, <3>7, <3>8
    <3> QED BY <3>9 DEF Requests!Ask, outcome
  <2>3. ASSUME NEW n \in Node, NEW d, ReceiveExpected(n, d) PROVE Requests!Answer
    <3>1. PICK s \in Asked : /\ Outcome(s) = "open" /\ Outcome(s)' = "answered"
                             /\ \A t \in Asked \ {s} : Outcome(t)' = Outcome(t)
      BY <2>3, ExpectedKeeps
    <3>2. Len(asked') = Len(asked)
      BY <2>3, ExpectedKeeps
    <3>3. outcome' = [outcome EXCEPT ![s] = "answered"]
      BY <3>1, <3>2
    <3>4. s \in DOMAIN outcome /\ outcome[s] = "open"
      BY <3>1
    <3> QED BY <3>3, <3>4 DEF Requests!Answer, Requests!Settled
  <2>4. ASSUME UNCHANGED <<now, asked>> PROVE outcome' = outcome
    BY <2>4 DEF Outcome
  <2>5. ASSUME NEW n \in Node, NEW table, Cleans(n, table) PROVE outcome' = outcome
    BY <2>4, <2>5 DEF Cleans
  <2> HIDE DEF outcome
  <2> QED BY <2>1, <2>2, <2>3, <2>4, <2>5, OtherSteps DEF Requests!Next
<1> QED BY <1>1, <1>2, SocketInvHolds, PTL DEF Spec, KeepsRequests, Requests!Spec

-----------------------------------------------------------------------------
(* Whose an answer is.                                                     *)

\* A datagram has the id of the request it is or answers; an answer is sent to the asker,
\* and says an address of it and what some answer says.  As long as one is under way the
\* id is not given to another request.
IsOf(d) ==
    LET m  == Decode(d.wire)
        by == asked[d.of].by
    IN  /\ m.tid = asked[d.of].tid
        /\ m.y = "q" => d.from \in Addresses[by]
        /\ m.y # "q" => /\ d.to \in Addresses[by] /\ m.ip \in Addresses[by]
                        /\ \E body \in Answers : m.what = body.what /\ m.args = body.args
        /\ m.tid \in DOMAIN inflight[by] => inflight[by][m.tid].of = d.of

NetInv == IsFiniteSet(net) /\ \A d \in net : d.of \in Asked /\ IsOf(d)

SettleInv == SocketInv /\ TypeOK /\ NetInv /\ AnswersBelong

LEMMA InitSettles == Init => SettleInv
<1> SUFFICES ASSUME Init PROVE SettleInv
  OBVIOUS
<1>1. SocketInv
  BY InitSocket
<1>2. net = {} /\ asked = <<>> /\ Asked = {}
  BY DEF Init
<1>3. IsFiniteSet(net) /\ Cardinality(net) = 0
  BY <1>2, FS_EmptySet
<1>4. TypeOK
  BY <1>2, <1>3, SocketAssumption DEF Init, TypeOK, Empty
<1>5. NetInv /\ AnswersBelong
  BY <1>2, <1>3 DEF NetInv, AnswersBelong
<1> QED BY <1>1, <1>4, <1>5 DEF SettleInv

\* A message that is no request is read as it was sent.
LEMMA ReadAsSent ==
    ASSUME NEW m, IsMessage(m), m.y # "q"
    PROVE  Decode(Encode(m)) = m
<1>1. Survives(m)
  BY EveryMessageSurvives
<1>2. m.what \notin {"get_value", "announce_peer"}
  BY DEF IsMessage, Built, ResponseArgs
<1>3. Normal(m) = m
  BY <1>2 DEF Normal, IsMessage
<1> QED BY <1>1, <1>3 DEF Survives

LEMMA RequestRead ==
    ASSUME NEW n, NEW body \in Asks, NEW wire, wire = Encode(RequestMessage(n, body))
    PROVE  Decode(wire).y = "q" /\ Decode(wire).tid = nextTid[n]
<1> PICK m : m = RequestMessage(n, body)
  OBVIOUS
<1>1. body.y = "q" /\ Built(body.y, body.what, body.args)
  BY SocketAssumption
<1>2. IsMessage(m) /\ m.y = "q" /\ m.tid = nextTid[n]
  BY <1>1 DEF RequestMessage, IsMessage
<1>3. Decode(wire) = Normal(m)
  BY <1>2, EveryMessageSurvives DEF Survives
<1>4. Normal(m).y = m.y /\ Normal(m).tid = m.tid
  BY <1>2 DEF Normal, IsMessage
<1> QED BY <1>2, <1>3, <1>4

LEMMA ResponseRead ==
    ASSUME NEW n, NEW to, NEW tid, NEW body \in Answers,
           NEW wire, wire = Encode(ResponseMessage(n, to, tid, body))
    PROVE  LET m == Decode(wire) IN
           /\ m.y # "q" /\ m.tid = tid /\ m.ip = to
           /\ m.what = body.what /\ m.args = body.args
<1> DEFINE m == ResponseMessage(n, to, tid, body)
<1>1. body.y # "q" /\ Built(body.y, body.what, body.args)
  BY SocketAssumption
<1>2. IsMessage(m) /\ m.y # "q"
  BY <1>1 DEF ResponseMessage, IsMessage
<1>3. Decode(wire) = m
  BY <1>2, ReadAsSent
<1> QED BY <1>1, <1>3 DEF ResponseMessage

\* Whom an answer reaches has asked for it.
LEMMA ReachesAsker ==
    ASSUME SettleInv, NEW d \in net, Decode(d.wire).y # "q", NEW n \in Node, Reaches(d, n)
    PROVE  asked[d.of].by = n
<1>1. d.of \in Asked /\ d.to \in Addresses[asked[d.of].by]
  BY DEF SettleInv, NetInv, IsOf
<1>2. asked[d.of].by \in Node
  BY <1>1 DEF SettleInv, SocketInv, TypeInv, IsRequest
<1>3. PICK a \in Addresses[n] : a.port = d.to.port /\ d.to.ip \in {a.ip, "any"}
  BY DEF Reaches
<1> QED BY <1>1, <1>2, <1>3, SocketAssumption

LEMMA NetShrinks ==
    ASSUME SettleInv, net' \subseteq net
    PROVE  IsFiniteSet(net)' /\ Cardinality(net)' <= MaxNet
<1>1. IsFiniteSet(net) /\ Cardinality(net) <= MaxNet /\ MaxNet \in Nat
  BY SocketAssumption DEF SettleInv, NetInv, TypeOK
<1>2. IsFiniteSet(net') /\ Cardinality(net') <= Cardinality(net)
  BY <1>1, FS_Subset
<1>3. Cardinality(net') \in Nat /\ Cardinality(net) \in Nat
  BY <1>1, <1>2, FS_CardinalityType
<1> QED BY <1>1, <1>2, <1>3

LEMMA NetGrows ==
    ASSUME SettleInv, Cardinality(net) < MaxNet, NEW e, net' \subseteq net \cup {e}
    PROVE  IsFiniteSet(net)' /\ Cardinality(net)' <= MaxNet
<1>1. IsFiniteSet(net) /\ MaxNet \in Nat
  BY SocketAssumption DEF SettleInv, NetInv
<1>2. /\ IsFiniteSet(net \cup {e})
      /\ Cardinality(net \cup {e}) \in {Cardinality(net), Cardinality(net) + 1}
  BY <1>1, FS_AddElement
<1>3. IsFiniteSet(net') /\ Cardinality(net') <= Cardinality(net \cup {e})
  BY <1>2, FS_Subset
<1>4. Cardinality(net') \in Nat /\ Cardinality(net) \in Nat
  BY <1>1, <1>3, FS_CardinalityType
<1> QED BY <1>1, <1>2, <1>3, <1>4

TablesOK ==
    \A n \in Node :
        /\ DOMAIN inflight[n] \subseteq 0 .. TidSpace - 1
        /\ \A tid \in DOMAIN inflight[n] :
             /\ inflight[n][tid].of \in Asked
             /\ inflight[n][tid].to \in Targets[n]
             /\ inflight[n][tid].at \in 0 .. now

\* Where no request is sent or settled, entries may go, and what is under way is still
\* whose it was.
LEMMA SameRequests ==
    ASSUME SettleInv, asked' = asked, now' \in Nat, now <= now',
           \A m \in Node : /\ DOMAIN inflight'[m] \subseteq DOMAIN inflight[m]
                           /\ \A t \in DOMAIN inflight'[m] : inflight'[m][t] = inflight[m][t]
    PROVE  /\ AnswersBelong' /\ TablesOK'
           /\ \A d : d.of \in Asked /\ IsOf(d) => (d.of \in Asked)' /\ IsOf(d)'
<1>1. AnswersBelong'
  BY DEF SettleInv, AnswersBelong
<1>2. TablesOK'
  <2>1. TablesOK /\ now \in Nat
    BY DEF SettleInv, TypeOK, TablesOK, SocketInv, TypeInv
  <2> QED BY <2>1 DEF TablesOK
<1>3. ASSUME NEW d, d.of \in Asked, IsOf(d) PROVE (d.of \in Asked)' /\ IsOf(d)'
  <2>1. asked[d.of].by \in Node
    BY <1>3 DEF SettleInv, SocketInv, TypeInv, IsRequest
  <2> QED BY <1>3, <2>1 DEF IsOf
<1> QED BY <1>1, <1>2, <1>3

\* A step that cleans up or only waits; what it sends is the answer to a request it reads.
LEMMA QuietSettles ==
    ASSUME SettleInv, SocketInv', asked' = asked, now' \in 0 .. MaxNow, now <= now',
           nextTid' = nextTid, lastCleanUp' \in [Node -> 0 .. now'],
           \A m \in Node : /\ DOMAIN inflight'[m] \subseteq DOMAIN inflight[m]
                           /\ \A t \in DOMAIN inflight'[m] : inflight'[m][t] = inflight[m][t],
           \/ net' \subseteq net
           \/ /\ Cardinality(net) < MaxNet
              /\ \E e : net' \subseteq net \cup {e} /\ e.of \in Asked /\ IsOf(e)
    PROVE  SettleInv'
<1>1. /\ AnswersBelong' /\ TablesOK'
      /\ \A d : d.of \in Asked /\ IsOf(d) => (d.of \in Asked)' /\ IsOf(d)'
  BY SameRequests
<1>2. IsFiniteSet(net)' /\ Cardinality(net)' <= MaxNet
  BY NetShrinks, NetGrows
<1>3. \A d \in net' : d.of \in Asked /\ IsOf(d)
  BY DEF SettleInv, NetInv
<1>4. NetInv'
  BY <1>1, <1>2, <1>3 DEF NetInv
<1>5. TypeOK'
  BY <1>1, <1>2, <1>4 DEF TypeOK, TablesOK, SettleInv, NetInv
<1> QED BY <1>1, <1>4, <1>5 DEF SettleInv

LEMMA CleansTables ==
    ASSUME SocketInv, NEW n \in Node, NEW table, Cleans(n, table)
    PROVE  \A m \in Node : /\ DOMAIN inflight'[m] \subseteq DOMAIN inflight[m]
                           /\ \A t \in DOMAIN inflight'[m] : inflight'[m][t] = inflight[m][t]
BY DEF Cleans, SocketInv, TypeInv

LEMMA CleansUpAt ==
    ASSUME SettleInv, NEW n \in Node, CleansUp(n)
    PROVE  lastCleanUp' \in [Node -> 0 .. now] /\ now \in 0 .. MaxNow
BY DEF CleansUp, SettleInv, TypeOK

LEMMA WaitingSettles ==
    ASSUME SettleInv, Tick \/ UNCHANGED vars \/ \E d \in net : Lose(d)
    PROVE  SettleInv'
<1>1. CASE Tick
  <2>1. /\ now' = now + 1 /\ now \in 0 .. MaxNow /\ now < MaxNow /\ MaxNow \in Nat
        /\ lastCleanUp \in [Node -> 0 .. now]
        /\ UNCHANGED <<nextTid, inflight, lastCleanUp, net, asked>>
    BY <1>1, SocketAssumption DEF Tick, SettleInv, TypeOK
  <2>2. lastCleanUp' \in [Node -> 0 .. now'] /\ now' \in 0 .. MaxNow /\ now <= now'
    BY <2>1
  <2>3. SocketInv'
    BY <1>1, TickKeeps DEF SettleInv
  <2> QED BY <2>1, <2>2, <2>3, QuietSettles
<1>2. CASE UNCHANGED vars \/ \E d \in net : Lose(d)
  <2>1. /\ UNCHANGED <<now, nextTid, inflight, lastCleanUp, asked>> /\ net' \subseteq net
        /\ now \in 0 .. MaxNow /\ lastCleanUp \in [Node -> 0 .. now]
    BY <1>2 DEF vars, Lose, SettleInv, TypeOK
  <2>2. SocketInv'
    BY <1>2, NextSocket DEF Next, SettleInv
  <2>3. now <= now'
    BY <2>1
  <2> QED BY <2>1, <2>2, <2>3, QuietSettles
<1> QED BY <1>1, <1>2

LEMMA CleanUpSettles ==
    ASSUME SettleInv, NEW n \in Node, ReceiveNothing(n) \/ \E d \in net : ReceiveUnexpected(n, d)
    PROVE  SettleInv'
<1>1. \E table : Cleans(n, table)
  BY NothingCleans, UnexpectedCleans DEF SettleInv
<1>2. /\ CleansUp(n) /\ UNCHANGED <<now, nextTid, asked>>
      /\ net' \subseteq net
  BY DEF ReceiveNothing, ReceiveUnexpected, Receives, Consumes
<1>3. SocketInv'
  BY <1>1, CleansKeeps DEF SettleInv
<1>4. lastCleanUp' \in [Node -> 0 .. now'] /\ now' \in 0 .. MaxNow /\ now <= now'
  BY <1>2, CleansUpAt
<1>5. \A m \in Node : /\ DOMAIN inflight'[m] \subseteq DOMAIN inflight[m]
                      /\ \A t \in DOMAIN inflight'[m] : inflight'[m][t] = inflight[m][t]
  BY <1>1, CleansTables DEF SettleInv
<1> QED BY <1>2, <1>3, <1>4, <1>5, QuietSettles

\* The answer to a request is the asker's, as the request was.
LEMMA AnswerIsOf ==
    ASSUME SettleInv, NEW d \in net, Decode(d.wire).y = "q", NEW n, NEW body \in Answers, NEW from,
           NEW e, e = [from |-> from, to |-> d.from, of |-> d.of,
                       wire |-> Encode(ResponseMessage(n, d.from, Decode(d.wire).tid, body))]
    PROVE  e.of \in Asked /\ IsOf(e)
<1>1. d.of \in Asked /\ IsOf(d)
  BY DEF SettleInv, NetInv
<1>2. /\ e.to = d.from /\ e.of = d.of
      /\ e.wire = Encode(ResponseMessage(n, d.from, Decode(d.wire).tid, body))
  OBVIOUS
<1> PICK m : m = Decode(e.wire)
  OBVIOUS
<1>3. m.y # "q" /\ m.tid = Decode(d.wire).tid /\ m.ip = d.from /\ m.what = body.what
      /\ m.args = body.args
  BY <1>2, ResponseRead
<1> QED BY <1>1, <1>2, <1>3 DEF IsOf

LEMMA ReceiveRequestSettles ==
    ASSUME SettleInv, NEW n \in Node, NEW d \in net, ReceiveRequest(n, d)
    PROVE  SettleInv'
<1>1. Cleans(n, Table(n))
  BY RequestCleans DEF SettleInv
<1>2. CleansUp(n) /\ UNCHANGED <<now, nextTid, asked>> /\ Decode(d.wire).y = "q"
  BY DEF ReceiveRequest, Receives
<1>3. \/ net' \subseteq net
      \/ /\ Cardinality(net) < MaxNet
         /\ \E e : net' \subseteq net \cup {e} /\ e.of \in Asked /\ IsOf(e)
  <2>1. CASE Consumes(d, {})
    BY <2>1 DEF Consumes
  <2>2. CASE /\ Cardinality(net) < MaxNet
             /\ \E body \in Answers, from \in Addresses[n] :
                  Consumes(d, {[from |-> from, to |-> d.from, of |-> d.of,
                     wire |-> Encode(ResponseMessage(n, d.from, Decode(d.wire).tid, body))]})
    <3>1. PICK body \in Answers, from \in Addresses[n] :
            Consumes(d, {[from |-> from, to |-> d.from, of |-> d.of,
               wire |-> Encode(ResponseMessage(n, d.from, Decode(d.wire).tid, body))]})
      BY <2>2
    <3> PICK e : e = [from |-> from, to |-> d.from, of |-> d.of,
                      wire |-> Encode(ResponseMessage(n, d.from, Decode(d.wire).tid, body))]
      OBVIOUS
    <3>2. Consumes(d, {e})
      BY <3>1
    <3>3. net' \subseteq net \cup {e}
      BY <3>2 DEF Consumes
    <3>4. e.of \in Asked /\ IsOf(e)
      BY <1>2, AnswerIsOf
    <3> QED BY <2>2, <3>3, <3>4
  <2> QED BY <2>1, <2>2 DEF ReceiveRequest
<1>4. SocketInv'
  BY <1>1, CleansKeeps DEF SettleInv
<1>5. lastCleanUp' \in [Node -> 0 .. now'] /\ now' \in 0 .. MaxNow /\ now <= now'
  BY <1>2, CleansUpAt
<1>6. \A m \in Node : /\ DOMAIN inflight'[m] \subseteq DOMAIN inflight[m]
                      /\ \A t \in DOMAIN inflight'[m] : inflight'[m][t] = inflight[m][t]
  BY <1>1, CleansTables DEF SettleInv
<1> QED BY <1>2, <1>3, <1>4, <1>5, <1>6, QuietSettles

LEMMA RequestSettles ==
    ASSUME SettleInv, NEW n \in Node, NEW to \in Targets[n], NEW body \in Asks, NEW from \in Addresses[n],
           Request(n, to, body, from)
    PROVE  SettleInv'
<1> PICK new, r, entry : Sending(n, to, new, r, entry)
  BY RequestStep DEF SettleInv
<1> PICK e : e = [from |-> from, to |-> to, of |-> new, wire |-> Encode(RequestMessage(n, body))]
  OBVIOUS
<1>1. SocketInv /\ SocketInv'
  BY RequestKeeps DEF SettleInv
<1>3. /\ Len(asked') = new /\ asked'[new] = r /\ \A s \in Asked : asked'[s] = asked[s] /\ s # new
      /\ DOMAIN inflight'[n] = {nextTid[n]} \cup DOMAIN inflight[n]
      /\ inflight'[n][nextTid[n]] = entry
      /\ \A tid \in DOMAIN inflight[n] :
            tid # nextTid[n] => inflight'[n][tid] = inflight[n][tid]
      /\ new = Len(asked) + 1
      /\ r = [by |-> n, to |-> to, tid |-> nextTid[n], at |-> now, got |-> 0, reply |-> Empty]
      /\ entry = [to |-> to, at |-> now, of |-> new]
  BY DEF Sending
<1>2. /\ now' = now /\ lastCleanUp' = lastCleanUp /\ net' = net \cup {e}
      /\ Cardinality(net) < MaxNet /\ IdIsFree(n)
      /\ nextTid' = [nextTid EXCEPT ![n] = NextTid(n)]
  <2>1. new = Len(asked) + 1
    BY <1>3
  <2> QED BY <2>1 DEF Request
<1>4. \A m \in Node : m # n => inflight'[m] = inflight[m]
  BY <1>1 DEF Request, SocketInv, TypeInv
<1>5. /\ Len(asked) \in Nat /\ now \in Nat /\ \A s \in 1 .. new : s \in Asked \/ s = new
      /\ new \in 1 .. new /\ Asked \subseteq 1 .. new
  <2>1. Len(asked) \in Nat /\ now \in Nat
    BY <1>1 DEF SocketInv, TypeInv
  <2>2. new = Len(asked) + 1
    BY <1>3
  <2> QED BY <2>1, <2>2
<1>6. TypeOK'
  <2>1. /\ now \in 0 .. MaxNow /\ lastCleanUp \in [Node -> 0 .. now]
        /\ nextTid \in [Node -> 0 .. TidSpace - 1] /\ TablesOK
    BY DEF SettleInv, TypeOK, TablesOK
  <2>2. nextTid' \in [Node -> 0 .. TidSpace - 1]
    <3>1. NextTid(n) \in 0 .. TidSpace - 1
      BY <2>1, SocketAssumption DEF NextTid
    <3> QED BY <1>2, <2>1, <3>1
  <2>3. TablesOK'
    <3> SUFFICES ASSUME NEW m \in Node, NEW tid \in DOMAIN inflight'[m]
                 PROVE  /\ tid \in 0 .. TidSpace - 1
                        /\ inflight'[m][tid].of \in 1 .. new
                        /\ inflight'[m][tid].to \in Targets[m]
                        /\ inflight'[m][tid].at \in 0 .. now
      BY <1>2, <1>3 DEF TablesOK
    <3>1. CASE m = n /\ tid = nextTid[n]
      BY <1>3, <1>5, <2>1, <3>1
    <3>2. CASE ~(m = n /\ tid = nextTid[n])
      <4>1. tid \in DOMAIN inflight[m] /\ inflight'[m][tid] = inflight[m][tid]
        BY <1>3, <1>4, <3>2
      <4> QED BY <1>5, <2>1, <4>1 DEF TablesOK
    <3> QED BY <3>1, <3>2
  <2>4. Cardinality(net)' <= MaxNet
    BY <1>2, NetGrows
  <2>5. \A d \in net' : d.of \in 1 .. new
    BY <1>2, <1>5 DEF SettleInv, NetInv
  <2> QED BY <1>2, <1>3, <2>1, <2>2, <2>3, <2>4, <2>5 DEF TypeOK, TablesOK
<1>7. NetInv'
  <2>1. IsFiniteSet(net)'
    BY <1>2, NetGrows
  <2>2. (e.of \in Asked)' /\ IsOf(e)'
    <3>1. e.of = new /\ e.from = from /\ e.wire = Encode(RequestMessage(n, body))
      OBVIOUS
    <3>2. Decode(e.wire).y = "q" /\ Decode(e.wire).tid = nextTid[n]
      BY <3>1, RequestRead
    <3>3. r.tid = nextTid[n] /\ r.by = n /\ entry.of = new
      BY <1>3
    <3> QED BY <1>3, <1>5, <3>1, <3>2, <3>3 DEF IsOf
  <2>3. ASSUME NEW d \in net PROVE (d.of \in Asked)' /\ IsOf(d)'
    <3>1. d.of \in Asked /\ IsOf(d)
      BY DEF SettleInv, NetInv
    <3>2. asked'[d.of] = asked[d.of] /\ asked[d.of].by \in Node
      BY <1>1, <1>3, <3>1 DEF SocketInv, TypeInv, IsRequest
    <3> PICK by, m : by = asked[d.of].by /\ m = Decode(d.wire)
      OBVIOUS
    <3>3. ~(by = n /\ m.tid = nextTid[n])
      BY <1>2, <3>1 DEF IdIsFree, IsOf
    <3>4. m.tid \in DOMAIN inflight'[by] =>
             m.tid \in DOMAIN inflight[by] /\ inflight'[by][m.tid] = inflight[by][m.tid]
      BY <1>3, <1>4, <3>2, <3>3
    <3> QED BY <1>3, <1>5, <3>1, <3>2, <3>4 DEF IsOf
  <2> QED BY <1>2, <2>1, <2>2, <2>3 DEF NetInv
<1>8. AnswersBelong'
  <2> SUFFICES ASSUME NEW s \in 1 .. new
               PROVE  /\ asked'[s].got <= 1
                      /\ asked'[s].got = 1 =>
                           LET answer == asked'[s].reply[2] IN
                           /\ asked'[s].reply[1] = s
                           /\ answer.ip \in Addresses[asked'[s].by]
                           /\ \E b \in Answers : answer.what = b.what /\ answer.args = b.args
    BY <1>3, Zenon DEF AnswersBelong, Asked
  <2>1. CASE s = new
    BY <1>3, <2>1
  <2>2. CASE s \in Asked
    BY <1>3, <2>2 DEF SettleInv, AnswersBelong
  <2> QED BY <1>5, <2>1, <2>2
<1> QED BY <1>1, <1>6, <1>7, <1>8 DEF SettleInv

\* An answer that is taken is to the request its entry waits for, and says what was sent.
LEMMA ExpectedSettles ==
    ASSUME SettleInv, NEW n \in Node, NEW d \in net, ReceiveExpected(n, d)
    PROVE  SettleInv'
<1> PICK kept, tid, s : Settling(n, d, kept, tid, s)
  BY ExpectedStep DEF SettleInv
<1> PICK m : m = Decode(d.wire)
  OBVIOUS
<1>1. /\ CleansUp(n) /\ UNCHANGED <<now, nextTid>> /\ net' \subseteq net
      /\ m.y \in {"r", "e"} /\ Reaches(d, n)
  BY DEF ReceiveExpected, Receives, Consumes
<1>2. /\ kept \subseteq DOMAIN inflight[n] /\ tid \in kept /\ s \in Asked
      /\ tid = m.tid /\ s = inflight[n][tid].of
      /\ inflight' = [k \in Node |-> IF k = n THEN [t \in kept \ {tid} |-> inflight[n][t]]
                                     ELSE inflight[k]]
      /\ Len(asked') = Len(asked)
      /\ \A t \in Asked \ {s} : asked'[t] = asked[t]
      /\ asked'[s] = [by |-> n, to |-> asked[s].to, tid |-> tid, at |-> asked[s].at,
                      got |-> 1, reply |-> <<d.of, m>>]
  BY DEF Settling
<1>3. SocketInv /\ SocketInv'
  BY ExpectedKeeps DEF SettleInv
<1>4. asked[s].by = n /\ asked[s].tid = tid /\ asked[s].got = 0
  <2>1. EntriesInv /\ tid \in DOMAIN inflight[n] /\ s = inflight[n][tid].of
    BY <1>2, <1>3 DEF SocketInv
  <2> QED BY <2>1 DEF EntriesInv
<1>5. d.of \in Asked /\ IsOf(d) /\ asked[d.of].by = n
  BY <1>1, ReachesAsker DEF SettleInv, NetInv
<1>6. d.of = s
  <2>1. m.tid \in DOMAIN inflight[n] /\ s = inflight[n][m.tid].of
    BY <1>2
  <2> QED BY <1>5, <2>1 DEF IsOf
<1>7. \A t \in Asked : asked'[t].by = asked[t].by /\ asked'[t].tid = asked[t].tid
  <2>1. \A t \in Asked \ {s} : asked'[t] = asked[t]
    BY <1>2
  <2>2. asked'[s].by = asked[s].by /\ asked'[s].tid = asked[s].tid
    <3>1. asked'[s] = [by |-> n, to |-> asked[s].to, tid |-> tid, at |-> asked[s].at,
                       got |-> 1, reply |-> <<d.of, m>>]
      BY <1>2, Zenon
    <3>2. asked'[s].by = n /\ asked'[s].tid = tid
      BY <3>1
    <3> QED BY <1>4, <3>2
  <2> QED BY <2>1, <2>2
<1>8. \A k \in Node : /\ DOMAIN inflight'[k] \subseteq DOMAIN inflight[k]
                      /\ \A t \in DOMAIN inflight'[k] : inflight'[k][t] = inflight[k][t]
  BY <1>2
<1>9. NetInv'
  <2>1. IsFiniteSet(net)'
    BY <1>1, NetShrinks
  <2>2. ASSUME NEW other \in net PROVE (other.of \in Asked)' /\ IsOf(other)'
    <3>1. other.of \in Asked /\ IsOf(other)
      BY DEF SettleInv, NetInv
    <3>2. asked[other.of].by \in Node
      BY <1>3, <3>1 DEF SocketInv, TypeInv, IsRequest
    <3> QED BY <1>2, <1>7, <1>8, <3>1, <3>2, ZenonT(60) DEF IsOf
  <2> QED BY <1>1, <2>1, <2>2 DEF NetInv
<1>10. TypeOK'
  <2>1. lastCleanUp' \in [Node -> 0 .. now] /\ now \in 0 .. MaxNow
    BY <1>1, CleansUpAt
  <2>2. TablesOK'
    BY <1>1, <1>2, <1>8, ZenonT(60) DEF SettleInv, TypeOK, TablesOK
  <2>3. Cardinality(net)' <= MaxNet
    BY <1>1, NetShrinks
  <2> QED BY <1>1, <1>9, <2>1, <2>2, <2>3 DEF TypeOK, TablesOK, SettleInv, NetInv
<1>11. AnswersBelong'
  <2> SUFFICES ASSUME NEW t \in Asked
               PROVE  /\ asked'[t].got <= 1
                      /\ asked'[t].got = 1 =>
                           LET answer == asked'[t].reply[2] IN
                           /\ asked'[t].reply[1] = t
                           /\ answer.ip \in Addresses[asked'[t].by]
                           /\ \E b \in Answers : answer.what = b.what /\ answer.args = b.args
    BY <1>2, ZenonT(60) DEF AnswersBelong, Asked
  <2>1. CASE t = s
    <3>1. /\ m.ip \in Addresses[n]
          /\ \E b \in Answers : m.what = b.what /\ m.args = b.args
      BY <1>1, <1>5 DEF IsOf
    <3>2. asked'[s].got = 1 /\ asked'[s].by = n /\ asked'[s].reply = <<d.of, m>>
      <4>1. asked'[s] = [by |-> n, to |-> asked[s].to, tid |-> tid, at |-> asked[s].at,
                         got |-> 1, reply |-> <<d.of, m>>]
        BY <1>2, Zenon
      <4> QED BY <4>1
    <3>3. asked'[s].reply[1] = s /\ asked'[s].reply[2] = m
      BY <1>6, <3>2
    <3> QED BY <2>1, <3>1, <3>2, <3>3
  <2>2. CASE t # s
    <3>1. asked'[t] = asked[t]
      BY <1>2, <2>2
    <3>2. AnswersBelong
      BY DEF SettleInv
    <3> QED BY <3>1, <3>2 DEF AnswersBelong
  <2> QED BY <2>1, <2>2
<1> QED BY <1>3, <1>9, <1>10, <1>11 DEF SettleInv

LEMMA NextSettles == SettleInv /\ [Next]_vars => SettleInv'
<1> SUFFICES ASSUME SettleInv, [Next]_vars PROVE SettleInv'
  OBVIOUS
<1>1. ASSUME NEW n \in Node, NEW d \in net, ReceiveRequest(n, d) PROVE SettleInv'
  BY <1>1, ReceiveRequestSettles
<1>2. ASSUME NEW n \in Node, NEW d \in net, ReceiveExpected(n, d) PROVE SettleInv'
  BY <1>2, ExpectedSettles
<1>3. ASSUME NEW n \in Node, NEW to \in Targets[n], NEW body \in Asks, NEW from \in Addresses[n],
             Request(n, to, body, from)
      PROVE  SettleInv'
  BY <1>3, RequestSettles
<1>4. ASSUME NEW n \in Node, ReceiveNothing(n) \/ \E d \in net : ReceiveUnexpected(n, d)
      PROVE  SettleInv'
  BY <1>4, CleanUpSettles
<1> QED BY <1>1, <1>2, <1>3, <1>4, WaitingSettles DEF Next

\* socket.rs, recv_from: whatever is lost, late, repeated, reordered or sent under another
\* address, a request gets at most one answer; it is one to that very request, decoded as
\* it was sent, and the address it reports is the asker's own.  The ids come round again:
\* what this takes is that one is not given out while a datagram with it is under way.
THEOREM RequestsSettle == Spec => []RequestsSettleOnce
<1>1. SettleInv => RequestsSettleOnce
  BY InFlightAgrees DEF SettleInv, RequestsSettleOnce
<1> QED BY <1>1, InitSettles, NextSettles, PTL DEF Spec

\* internal.rs, "order matters", and messages.rs: what the two theorems above say of every
\* message and of every set of fields holds of those that a run looks at.
THEOREM ConversionsDoAgree == Spec => []ConversionsAgree
<1>1. MessagesSurvive
  BY SampleAssumption, EveryMessageSurvives DEF MessagesSurvive
<1>2. OrderMatters
  BY SampleAssumption, ForeignResponsesAreRead DEF OrderMatters
<1>3. ConversionsAgree
  BY <1>1, <1>2 DEF ConversionsAgree
<1> QED BY <1>3, PTL

-----------------------------------------------------------------------------
(* A settled request is settled for good.                                  *)

\* socket.rs, is_expected_response: an answer may come while the time of its request runs
\* out, twice, or when a later request has the id.  Whatever comes, a request that was
\* answered keeps that answer and one that expired stays unanswered.
SettledForGood ==
    [][\A s \in Asked : Outcome(s) # "open" =>
          s \in Asked' /\ asked'[s] = asked[s] /\ Outcome(s)' = Outcome(s)]_vars

THEOREM NoSecondThoughts == Spec => SettledForGood
<1>1. SocketInv /\ [Next]_vars =>
         \A s \in Asked : Outcome(s) # "open" =>
            s \in Asked' /\ asked'[s] = asked[s] /\ Outcome(s)' = Outcome(s)
  <2> SUFFICES ASSUME SocketInv, [Next]_vars, NEW s \in Asked, Outcome(s) # "open"
               PROVE  s \in Asked' /\ asked'[s] = asked[s] /\ Outcome(s)' = Outcome(s)
    OBVIOUS
  <2>0. /\ Len(asked) \in Nat /\ now \in Nat /\ asked[s].at \in Nat /\ asked[s].got \in Nat
        /\ Timeout \in Nat
    BY SocketAssumption DEF SocketInv, TypeInv, IsRequest
  <2>1. CASE Tick
    <3>1. now' = now + 1 /\ asked' = asked
      BY <2>1 DEF Tick
    <3>2. Outcome(s)' = Outcome(s)
      BY <2>0, <3>1 DEF Outcome
    <3> QED BY <3>1, <3>2
  <2>2. ASSUME NEW n \in Node, NEW to, NEW body, NEW from, Request(n, to, body, from)
        PROVE  s \in Asked' /\ asked'[s] = asked[s] /\ Outcome(s)' = Outcome(s)
    <3> PICK new, r, entry : Sending(n, to, new, r, entry)
      BY <2>2, RequestStep
    <3>1. Len(asked') = Len(asked) + 1 /\ asked'[s] = asked[s] /\ now' = now
      BY <2>2 DEF Sending, Request
    <3>2. Outcome(s)' = Outcome(s)
      BY <3>1 DEF Outcome
    <3> QED BY <2>0, <3>1, <3>2
  <2>3. ASSUME NEW n \in Node, NEW d, ReceiveExpected(n, d)
        PROVE  s \in Asked' /\ asked'[s] = asked[s] /\ Outcome(s)' = Outcome(s)
    <3> PICK kept, tid, t : Settling(n, d, kept, tid, t)
      BY <2>3, ExpectedStep
    <3>1. now' = now
      BY <2>3 DEF ReceiveExpected, Receives
    <3>2. t \in Asked /\ tid \in DOMAIN inflight[n] /\ t = inflight[n][tid].of
          /\ Live(inflight[n][tid])
      BY DEF Settling
    <3>3. asked[t].got = 0 /\ inflight[n][tid].at = asked[t].at
      BY <3>2 DEF SocketInv, EntriesInv
    <3>4. asked[t].at \in Nat
      BY <3>2 DEF SocketInv, TypeInv, IsRequest
    <3>5. Outcome(t) = "open"
      BY <2>0, <3>2, <3>3, <3>4 DEF Outcome, Live
    <3>6. Len(asked') = Len(asked) /\ asked'[s] = asked[s]
      BY <3>5 DEF Settling
    <3> QED BY <3>1, <3>6 DEF Outcome
  <2>4. ASSUME UNCHANGED <<now, asked>>
        PROVE  s \in Asked' /\ asked'[s] = asked[s] /\ Outcome(s)' = Outcome(s)
    BY <2>4 DEF Outcome
  <2>5. ASSUME NEW n \in Node, NEW table, Cleans(n, table) PROVE UNCHANGED <<now, asked>>
    BY <2>5 DEF Cleans
  <2> QED BY <2>1, <2>2, <2>3, <2>4, <2>5, OtherSteps
<1> QED BY <1>1, SocketInvHolds, PTL DEF Spec, SettledForGood

-----------------------------------------------------------------------------
(* When an id comes round again.                                           *)

\* The requests of a node from one of its requests to another.
By(n, first, last) == {t \in first .. last : asked[t].by = n}

\* The id a node gives next is that of any of its requests plus the requests since, but
\* for the turns of the counter.
Turns(s) ==
    LET n == asked[s].by IN
    \E k \in Nat :
        nextTid[n] + k * TidSpace = asked[s].tid + Cardinality(By(n, s, Len(asked)))

\* socket.rs, tid: between two requests of a node with one id, the first counted, there
\* are as many of its requests as there are ids.
IdsReturnLate ==
    \A r, s \in Asked :
        r < s /\ asked[r].by = asked[s].by /\ asked[r].tid = asked[s].tid =>
            Cardinality(By(asked[s].by, r, s - 1)) >= TidSpace

\* What Request takes for granted, that the next id is free, fails only when a request
\* that is a whole turn of the counter old is still open, or a datagram of it under way.
IdsAreFree ==
    \A n \in Node :
        IdIsFree(n) \/ \E s \in Asked :
            /\ asked[s].by = n /\ Cardinality(By(n, s, Len(asked))) >= TidSpace
            /\ Outcome(s) = "open" \/ \E d \in net : d.of = s

IdsInv ==
    /\ nextTid \in [Node -> 0 .. TidSpace - 1]
    /\ \A s \in Asked : asked[s].tid \in Nat /\ Turns(s)
    /\ IdsReturnLate

LEMMA ByIsFinite ==
    ASSUME NEW n, NEW i \in Nat, NEW j \in Nat
    PROVE  IsFiniteSet(By(n, i, j)) /\ Cardinality(By(n, i, j)) \in Nat
<1>1. IsFiniteSet(i .. j)
  BY FS_Interval
<1>2. By(n, i, j) \subseteq i .. j
  BY DEF By
<1> QED BY <1>1, <1>2, FS_Subset, FS_CardinalityType

\* Whole turns lie between two uses of an id.
LEMMA WholeTurns ==
    ASSUME NEW T \in Nat \ {0}, NEW k \in Nat, NEW c \in Nat, NEW t \in Nat,
           t + k * T = t + c, c # 0
    PROVE  c >= T
<1>1. k # 0
  BY Z3
<1>2. PICK j \in Nat : k = j + 1
  <2>1. k - 1 \in Nat /\ k = (k - 1) + 1
    BY <1>1
  <2> QED BY <2>1
<1>3. k * T = j * T + T /\ j * T \in Nat
  BY <1>2
<1> QED BY <1>3

LEMMA NextTurn ==
    ASSUME NEW T \in Nat \ {0}, NEW k \in Nat, NEW t \in 0 .. T - 1, NEW c \in Int,
           t + k * T = c
    PROVE  \E j \in Nat : ((t + 1) % T) + j * T = c + 1
<1>1. CASE t + 1 < T
  <2>1. (t + 1) % T = t + 1
    BY <1>1
  <2>2. ((t + 1) % T) + k * T = c + 1
    <3>1. \A x \in Int : t + x = c => (t + 1) + x = c + 1
      OBVIOUS
    <3>2. k * T \in Int
      OBVIOUS
    <3> QED BY <2>1, <3>1, <3>2
  <2> QED BY <2>2
<1>2. CASE t + 1 = T
  <2>1. (t + 1) % T = 0
    BY <1>2
  <2>2. (k + 1) * T = k * T + T /\ k + 1 \in Nat /\ k * T \in Nat
    OBVIOUS
  <2>3. ((t + 1) % T) + (k + 1) * T = c + 1
    <3>1. \A x \in Nat : t + x = c => 0 + (x + T) = c + 1
      BY <1>2
    <3> QED BY <2>1, <2>2, <3>1
  <2> QED BY <2>2, <2>3
<1> QED BY <1>1, <1>2

\* One more request of the node, or of another, or none.
LEMMA ByGrows ==
    ASSUME SocketInv, NEW n \in Node, NEW to, NEW body, NEW from, Request(n, to, body, from),
           NEW s \in Asked, NEW m
    PROVE  /\ m # n => By(m, s, Len(asked))' = By(m, s, Len(asked))
           /\ m = n => Cardinality(By(m, s, Len(asked))')
                          = Cardinality(By(m, s, Len(asked))) + 1
<1> PICK new, r, entry : Sending(n, to, new, r, entry)
  BY RequestStep
<1>1. /\ new = Len(asked) + 1 /\ Len(asked') = new /\ asked'[new].by = n
      /\ \A t \in Asked : asked'[t] = asked[t] /\ t # new
  BY DEF Sending
<1>2. Len(asked) \in Nat
  BY DEF SocketInv, TypeInv
<1>3. \A t \in s .. new : t = new \/ t \in Asked
  BY <1>1, <1>2
<1>4. m # n => By(m, s, Len(asked))' = By(m, s, Len(asked))
  BY <1>1, <1>2, <1>3 DEF By
<1>5. m = n => By(m, s, Len(asked))' = By(m, s, Len(asked)) \cup {new}
  BY <1>1, <1>2, <1>3 DEF By
<1>6. IsFiniteSet(By(m, s, Len(asked))) /\ new \notin By(m, s, Len(asked))
  <2>1. new \notin By(m, s, Len(asked))
    BY <1>1, <1>2 DEF By
  <2> QED BY <1>2, <2>1, ByIsFinite
<1> QED BY <1>4, <1>5, <1>6, FS_AddElement

\* Where no request is sent.
LEMMA SameIds ==
    ASSUME SocketInv, IdsInv, nextTid' = nextTid, Len(asked') = Len(asked),
           \A s \in Asked : asked'[s].by = asked[s].by /\ asked'[s].tid = asked[s].tid
    PROVE  IdsInv'
<1>0. Len(asked) \in Nat
  BY DEF SocketInv, TypeInv
<1>1. \A n, s : \A u \in Int : s \in Asked /\ u <= Len(asked) => By(n, s, u)' = By(n, s, u)
  <2> SUFFICES ASSUME NEW n, NEW s \in Asked, NEW u \in Int, u <= Len(asked)
               PROVE  By(n, s, u)' = By(n, s, u)
    OBVIOUS
  <2>1. \A t \in s .. u : t \in Asked
    BY <1>0
  <2> QED BY <2>1 DEF By
<1>2. ASSUME NEW s \in Asked PROVE Turns(s)'
  <2>1. By(asked[s].by, s, Len(asked))' = By(asked[s].by, s, Len(asked))
    BY <1>0, <1>1
  <2>2. Turns(s)
    BY DEF IdsInv
  <2> QED BY <2>1, <2>2 DEF Turns
<1>3. IdsReturnLate'
  <2> SUFFICES ASSUME NEW r \in Asked, NEW s \in Asked, r < s, asked[r].by = asked[s].by,
                      asked[r].tid = asked[s].tid
               PROVE  Cardinality(By(asked[s].by, r, s - 1)') >= TidSpace
    BY DEF IdsReturnLate
  <2>1. By(asked[s].by, r, s - 1)' = By(asked[s].by, r, s - 1)
    BY <1>0, <1>1
  <2> QED BY <2>1 DEF IdsInv, IdsReturnLate
<1> QED BY <1>2, <1>3 DEF IdsInv

\* A node gives its next id: either it was never given, or its counter has turned.
LEMMA RequestCounts ==
    ASSUME SocketInv, IdsInv, NEW n \in Node, NEW to, NEW body, NEW from,
           Request(n, to, body, from)
    PROVE  IdsInv'
<1> PICK new, r, entry : Sending(n, to, new, r, entry)
  BY RequestStep
<1>1. /\ new = Len(asked) + 1 /\ Len(asked') = new /\ Len(asked) \in Nat
      /\ asked'[new].by = n /\ asked'[new].tid = nextTid[n]
      /\ \A t \in Asked : asked'[t] = asked[t] /\ t # new
  BY DEF Sending, SocketInv, TypeInv
<1>2. \A t \in 1 .. new : t = new \/ t \in Asked
  BY <1>1
<1>3. /\ nextTid[n] \in 0 .. TidSpace - 1 /\ nextTid'[n] = (nextTid[n] + 1) % TidSpace
      /\ \A m \in Node \ {n} : nextTid'[m] = nextTid[m]
      /\ nextTid' \in [Node -> 0 .. TidSpace - 1]
  <2>1. nextTid' = [nextTid EXCEPT ![n] = (nextTid[n] + 1) % TidSpace]
    BY DEF Request, NextTid
  <2>2. (nextTid[n] + 1) % TidSpace \in 0 .. TidSpace - 1
    BY SocketAssumption DEF IdsInv
  <2> QED BY <2>1, <2>2 DEF IdsInv
<1>4. \A s \in Asked : /\ asked[s].by \in Node
                       /\ Cardinality(By(asked[s].by, s, Len(asked))) \in Nat
  BY <1>1, ByIsFinite DEF SocketInv, TypeInv, IsRequest
<1>5. ASSUME NEW s \in Asked PROVE Turns(s)'
  <2> PICK m : m = asked[s].by
    OBVIOUS
  <2> PICK c : c = Cardinality(By(m, s, Len(asked)))
    OBVIOUS
  <2>1. PICK k \in Nat : nextTid[m] + k * TidSpace = asked[s].tid + c
    BY DEF IdsInv, Turns
  <2>2. /\ asked'[s].by = m /\ asked'[s].tid = asked[s].tid /\ m \in Node /\ c \in Nat
        /\ asked[s].tid \in Nat
    BY <1>1, <1>4 DEF IdsInv
  <2>3. CASE m # n
    <3>1. By(m, s, Len(asked))' = By(m, s, Len(asked)) /\ nextTid'[m] = nextTid[m]
      BY <1>3, <2>2, <2>3, ByGrows
    <3> QED BY <2>1, <2>2, <3>1 DEF Turns
  <2>4. CASE m = n
    <3>1. Cardinality(By(m, s, Len(asked))') = c + 1
      BY <2>4, ByGrows
    <3>2. PICK j \in Nat : nextTid'[m] + j * TidSpace = (asked[s].tid + c) + 1
      <4>1. PICK sum \in Int : sum = asked[s].tid + c
        BY <2>2
      <4>2. nextTid[m] + k * TidSpace = sum /\ nextTid[m] \in 0 .. TidSpace - 1
        BY <1>3, <2>1, <2>4, <4>1
      <4>3. PICK T \in Nat \ {0} : T = TidSpace
        BY SocketAssumption
      <4>4. PICK t \in 0 .. T - 1 : t = nextTid[m]
        BY <4>2, <4>3
      <4>5. \E j \in Nat : ((t + 1) % T) + j * T = sum + 1
        <5>1. t + k * T = sum
          BY <4>2, <4>3, <4>4
        <5> QED BY <5>1, NextTurn
      <4>6. nextTid'[m] = (t + 1) % T
        BY <1>3, <2>4, <4>3, <4>4
      <4> QED BY <4>1, <4>3, <4>5, <4>6
    <3>3. (asked[s].tid + c) + 1 = asked[s].tid + (c + 1)
      BY <2>2
    <3>4. nextTid'[m] + j * TidSpace = asked'[s].tid + Cardinality(By(m, s, Len(asked))')
      BY <2>2, <3>1, <3>2, <3>3
    <3> QED BY <2>2, <3>4 DEF Turns
  <2> QED BY <2>3, <2>4
<1>6. Turns(new)'
  <2>1. By(n, new, Len(asked))' = {new}
    BY <1>1 DEF By
  <2>2. Cardinality({new}) = 1
    BY FS_Singleton
  <2>3. PICK j \in Nat : nextTid'[n] + j * TidSpace = nextTid[n] + 1
    <3>1. PICK T \in Nat \ {0} : T = TidSpace
      BY SocketAssumption
    <3>2. PICK t \in 0 .. T - 1 : t = nextTid[n]
      BY <1>3, <3>1
    <3>3. t + 0 * T = t /\ t \in Int
      OBVIOUS
    <3>4. \E j \in Nat : ((t + 1) % T) + j * T = t + 1
      BY <3>3, NextTurn
    <3> QED BY <1>3, <3>1, <3>2, <3>4
  <2> QED BY <1>1, <2>1, <2>2, <2>3 DEF Turns
<1>7. \A s \in 1 .. new : asked'[s].tid \in Nat /\ Turns(s)'
  <2>1. nextTid[n] \in Nat
    BY <1>3, SocketAssumption
  <2> QED BY <1>1, <1>2, <1>5, <1>6, <2>1 DEF IdsInv
<1>8. IdsReturnLate'
  <2> SUFFICES ASSUME NEW a \in 1 .. new, NEW b \in 1 .. new, a < b,
                      asked'[a].by = asked'[b].by, asked'[a].tid = asked'[b].tid
               PROVE  Cardinality({t \in a .. b - 1 : asked'[t].by = asked'[b].by}) >= TidSpace
    BY <1>1 DEF IdsReturnLate, By
  <2>1. a \in Asked /\ b \in Int /\ b - 1 <= Len(asked)
    BY <1>1
  <2>2. {t \in a .. b - 1 : asked'[t].by = asked'[b].by} = By(asked'[b].by, a, b - 1)
    <3>1. \A t \in a .. b - 1 : asked'[t] = asked[t]
      BY <1>1, <2>1
    <3> QED BY <3>1 DEF By
  <2>3. CASE b \in Asked
    BY <1>1, <2>1, <2>2, <2>3 DEF IdsInv, IdsReturnLate
  <2>4. CASE b = new
    <3>1. b - 1 = Len(asked) /\ asked'[b].by = n /\ asked[a].by = n
          /\ asked[a].tid = nextTid[n]
      BY <1>1, <2>1, <2>4
    <3> PICK c : c = Cardinality(By(n, a, Len(asked)))
      OBVIOUS
    <3>2. PICK k \in Nat : nextTid[n] + k * TidSpace = nextTid[n] + c
      BY <2>1, <3>1 DEF IdsInv, Turns
    <3>3. c \in Nat /\ c # 0
      <4>1. IsFiniteSet(By(n, a, Len(asked))) /\ c \in Nat
        BY <1>1, ByIsFinite
      <4>2. a \in By(n, a, Len(asked))
        BY <1>1, <2>1, <3>1 DEF By
      <4> QED BY <4>1, <4>2, FS_EmptySet
    <3>4. c >= TidSpace
      <4>1. nextTid[n] \in Nat
        BY <1>3, SocketAssumption
      <4> QED BY <3>2, <3>3, <4>1, WholeTurns, SocketAssumption
    <3> QED BY <2>2, <3>1, <3>4
  <2> QED BY <1>2, <2>3, <2>4
<1> QED BY <1>1, <1>3, <1>7, <1>8 DEF IdsInv

LEMMA IdsInvHolds == Spec => []IdsInv
<1>1. Init => IdsInv
  BY SocketAssumption DEF Init, IdsInv, IdsReturnLate
<1>2. SocketInv /\ IdsInv /\ [Next]_vars => IdsInv'
  <2> SUFFICES ASSUME SocketInv, IdsInv, [Next]_vars PROVE IdsInv'
    OBVIOUS
  <2>1. ASSUME nextTid' = nextTid, asked' = asked PROVE IdsInv'
    BY <2>1, SameIds
  <2>2. ASSUME NEW n \in Node, NEW d, ReceiveExpected(n, d) PROVE IdsInv'
    <3> PICK kept, tid, s : Settling(n, d, kept, tid, s)
      BY <2>2, ExpectedStep
    <3>1. nextTid' = nextTid
      BY <2>2 DEF ReceiveExpected, Receives
    <3>2. /\ Len(asked') = Len(asked) /\ \A t \in Asked \ {s} : asked'[t] = asked[t]
          /\ tid \in DOMAIN inflight[n] /\ s = inflight[n][tid].of
          /\ asked'[s] = [by |-> n, to |-> asked[s].to, tid |-> tid, at |-> asked[s].at,
                          got |-> 1, reply |-> <<d.of, Decode(d.wire)>>]
      BY DEF Settling
    <3>3. asked[s].by = n /\ asked[s].tid = tid
      BY <3>2 DEF SocketInv, EntriesInv
    <3>4. \A t \in Asked : asked'[t].by = asked[t].by /\ asked'[t].tid = asked[t].tid
      BY <3>2, <3>3
    <3> QED BY <3>1, <3>2, <3>4, SameIds
  <2>3. ASSUME NEW n \in Node, NEW d,
               ReceiveRequest(n, d) \/ ReceiveUnexpected(n, d) \/ ReceiveNothing(n)
        PROVE  nextTid' = nextTid /\ asked' = asked
    BY <2>3 DEF ReceiveRequest, ReceiveUnexpected, ReceiveNothing, Receives
  <2>4. Tick \/ (\E d \in net : Lose(d)) \/ UNCHANGED vars
           => nextTid' = nextTid /\ asked' = asked
    BY DEF Tick, Lose, vars
  <2> QED BY <2>1, <2>2, <2>3, <2>4, RequestCounts DEF Next
<1> QED BY <1>1, <1>2, SocketInvHolds, PTL DEF Spec

\* socket.rs, tid and next_tid: the ids wrap around, and a node gives one again only after
\* as many requests as there are ids, 2^32 in the code.
THEOREM IdsComeRoundLate == Spec => []IdsReturnLate
BY IdsInvHolds, PTL DEF IdsInv

\* So what the code takes for granted of the next id, and Request has as a guard, can only
\* fail when a request as many requests ago as there are ids is still waited for, or a
\* datagram of it is still under way: not among the first 2^32, and after that not unless
\* 2^32 requests are sent within the time one is waited for or a datagram lives.
THEOREM NextIdIsFree == Spec => []IdsAreFree
<1>1. SettleInv /\ IdsInv => IdsAreFree
  <2> SUFFICES ASSUME SettleInv, IdsInv, NEW n \in Node, ~IdIsFree(n)
               PROVE  \E s \in Asked :
                         /\ asked[s].by = n /\ Cardinality(By(n, s, Len(asked))) >= TidSpace
                         /\ Outcome(s) = "open" \/ \E d \in net : d.of = s
    BY DEF IdsAreFree
  <2>0. Len(asked) \in Nat /\ now \in Nat
    BY DEF SettleInv, SocketInv, TypeInv
  <2>1. PICK s \in Asked : /\ asked[s].by = n /\ asked[s].tid = nextTid[n]
                           /\ Outcome(s) = "open" \/ \E d \in net : d.of = s
    <3>1. CASE InFlight(n, nextTid[n])
      <4> PICK s : s = inflight[n][nextTid[n]].of
        OBVIOUS
      <4>1. /\ s \in Asked /\ inflight[n][nextTid[n]].at = asked[s].at
            /\ asked[s].by = n /\ asked[s].tid = nextTid[n] /\ asked[s].got = 0
        BY <3>1 DEF InFlight, SettleInv, SocketInv, EntriesInv
      <4>2. asked[s].at \in Nat /\ Timeout \in Nat
        BY <4>1, SocketAssumption DEF SettleInv, SocketInv, TypeInv, IsRequest
      <4>3. now - asked[s].at < Timeout
        BY <3>1, <4>1 DEF InFlight, Live
      <4>4. Outcome(s) = "open"
        BY <2>0, <4>1, <4>2, <4>3 DEF Outcome
      <4> QED BY <4>1, <4>4
    <3>2. CASE \E d \in net : asked[d.of].by = n /\ asked[d.of].tid = nextTid[n]
      BY <3>2 DEF SettleInv, NetInv
    <3> QED BY <3>1, <3>2 DEF IdIsFree
  <2> PICK c : c = Cardinality(By(n, s, Len(asked)))
    OBVIOUS
  <2>2. PICK k \in Nat : nextTid[n] + k * TidSpace = nextTid[n] + c
    BY <2>1 DEF IdsInv, Turns
  <2>3. c \in Nat /\ c # 0
    <3>1. IsFiniteSet(By(n, s, Len(asked))) /\ c \in Nat
      BY <2>0, ByIsFinite
    <3>2. s \in By(n, s, Len(asked))
      BY <2>0, <2>1 DEF By
    <3> QED BY <3>1, <3>2, FS_EmptySet
  <2>4. c >= TidSpace
    <3>1. nextTid[n] \in Nat
      BY SocketAssumption DEF IdsInv
    <3> QED BY <2>2, <2>3, <3>1, WholeTurns, SocketAssumption
  <2> QED BY <2>1, <2>4
<1>2. Spec => []SettleInv
  BY InitSettles, NextSettles, PTL DEF Spec
<1> QED BY <1>1, <1>2, IdsInvHolds, PTL
=============================================================================
