----------------------------- MODULE MCDhtActor -----------------------------
(***************************************************************************)
(* Small instances of DhtActor.  Each cfg picks the nodes, the targets and *)
(* the calls that clients may make from the sets defined here.             *)
(***************************************************************************)
EXTENDS DhtStore, TLC

CONSTANTS n1, n2, t1, t2, c1, c2, s1, s2, e1, e2

\* Nodes that no order tells apart, so that they can be permuted.
SameRank == [n \in Node |-> 0]

NodeSymmetry == Permutations(Node)

PutOf(t, request) == [op |-> "put", target |-> t, request |-> request]
GetOf(t, kind, want) == [op |-> "get", target |-> t, kind |-> kind, want |-> want]

Mutable(sig, seq, hasCas, cas) ==
    [kind |-> "mutable", sig |-> sig, seq |-> seq, hasCas |-> hasCas, cas |-> cas,
     extra |-> {}]
Plainly(kind, extra) == [Mutable(s1, 0, FALSE, 0) EXCEPT !.kind = kind, !.extra = extra]

\* One item, and a later one that names it in its cas.  Both are also sent to a
\* node the caller names, so that one put waits for more than one answer.
MutablePuts ==
    {PutOf(t1, [Mutable(s1, 1, FALSE, 0) EXCEPT !.extra = {n1}]),
     PutOf(t1, [Mutable(s2, 2, TRUE, 1) EXCEPT !.extra = {n1}])}
ValueGets == {GetOf(t1, "get_value", "value")}

\* An announcement that is also sent to a node the caller names.
Announcements == {PutOf(t1, Plainly("announce", {n1}))}
\* Crawlers of the target that is stored at.
Crawls == {GetOf(t1, "find_node", "closest"), GetOf(t1, "get_value", "closest")}

\* Readers of either type, and crawlers, of one target.
TypedGets == {GetOf(t1, "get_value", "value"), GetOf(t1, "get_peers", "peers"),
              GetOf(t1, "find_node", "closest")}
Nothings == {}
=============================================================================
