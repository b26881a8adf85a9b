------------------------------- MODULE MCKrpc -------------------------------
(***************************************************************************)
(* A client and a server that is seen under two addresses; every message   *)
(* the code can build, for the conversions.                                *)
(***************************************************************************)
EXTENDS KrpcSocket

CONSTANTS a, b

A == [ip |-> "1.0.0.1", port |-> 1]
B == [ip |-> "1.0.0.2", port |-> 2]
B2 == [ip |-> "1.0.0.3", port |-> 2]
AnyB == [ip |-> "any", port |-> 2]

AddressesDef == (a :> {A}) @@ (b :> {B, B2})
TargetsDef == (a :> {B, AnyB}) @@ (b :> {A})

-----------------------------------------------------------------------------
\* One value per argument, some lists of nodes and of peers.
SomeNode == [id |-> "node", address |-> B]
SomeNodes == {<<>>, <<SomeNode>>, <<SomeNode, [SomeNode EXCEPT !.address = A]>>}

ArgsWith(fields) ==
    {[f \in fields |-> CASE f = "nodes"        -> nodes
                         [] f = "values"       -> peers
                         [] f = "implied_port" -> TRUE
                         [] OTHER              -> f] :
        nodes \in SomeNodes, peers \in {<<>>, <<A, B>>}}

BodiesOf(y, kind, needed, options) ==
    UNION {{[y |-> y, what |-> kind, args |-> args] : args \in ArgsWith(needed \cup some)} :
               some \in SUBSET options}

RequestBodies ==
    UNION {BodiesOf("q", kind, RequestArgs[kind], RequestOptions[kind]) :
               kind \in DOMAIN RequestArgs}

ResponseBodies ==
    UNION {BodiesOf("r", kind, ResponseArgs[kind], ResponseOptions[kind]) :
               kind \in DOMAIN ResponseArgs}

ErrorBodies == {[y |-> "e", what |-> "error", args |-> [code |-> c]] : c \in {203, 301}}

SamplesDef ==
    {[tid |-> 7, ip |-> ip, ro |-> ro, y |-> body.y, what |-> body.what, args |-> body.args] :
        ip \in {NoIp, A}, ro \in BOOLEAN, body \in RequestBodies \cup ResponseBodies \cup ErrorBodies}

ForeignDef ==
    {some \cup {"id"} : some \in SUBSET {"token", "v", "k", "seq", "sig", "values", "nodes"}}

\* What the two nodes send each other.
AsksDef == {[y |-> "q", what |-> "get_value", args |-> [id |-> "id", target |-> "target"]]}

AnswersDef ==
    {[y |-> "r", what |-> "no_values",
      args |-> [id |-> "id", token |-> "token", nodes |-> <<SomeNode>>]],
     [y |-> "e", what |-> "error", args |-> [code |-> 203]]}
=============================================================================
