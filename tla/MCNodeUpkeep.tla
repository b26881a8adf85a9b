---------------------------- MODULE MCNodeUpkeep ----------------------------
(***************************************************************************)
(* A node with a random id that is not secure, or with a secure one; two   *)
(* nodes of one ip that are not secure, of which one is seen under another *)
(* ip as well, for which it is; one address that reaches the node and one  *)
(* that does not.                                                          *)
(***************************************************************************)
EXTENDS NodeIds

PublicAtDef == {[ip |-> "P", port |-> 1]}
AddressDef == PublicAtDef \cup {[ip |-> "W", port |-> 1]}

IdDef == {"own0", "own1", "n1", "n2"}
OwnIdDef == {"own0", "own1"}
IpDef == {"P", "W", "X", "Y"}

\* Seen from own0 the nodes are in two buckets, from own1 they compete for one.
BitsOfDef ==
    [i \in IdDef |->
        CASE i = "own0" -> <<0, 0, 0, 0>> [] i = "own1" -> <<1, 0, 1, 1>>
          [] i = "n1"   -> <<0, 0, 0, 1>> [] i = "n2"   -> <<0, 0, 1, 0>>]

CrcDef ==
    [p \in IpDef \X {0, 1} |->
        CASE p[1] = "P" -> IF p[2] = 0 THEN <<1, 1>> ELSE <<1, 0>>
          [] p[1] = "W" -> IF p[2] = 0 THEN <<0, 1>> ELSE <<1, 0>>
          [] p[1] = "X" -> IF p[2] = 0 THEN <<0, 1>> ELSE <<1, 1>>
          [] p[1] = "Y" -> IF p[2] = 0 THEN <<0, 0>> ELSE <<0, 1>>]

DistanceDef ==
    [p \in IdDef \X IdDef |->
        IF p[1] = p[2] THEN 0
        ELSE IF {p[1], p[2]} = {"own0", "n1"} THEN 1
        ELSE IF "own1" \in {p[1], p[2]} THEN 4
        ELSE 2]

ValidForDef ==
    [i \in IdDef |-> CASE i = "own1" -> {"P", "W"} [] i \in {"own0", "n2"} -> {"Y"} [] OTHER -> {}]

PrefixDef == [i \in IdDef |-> IF i = "own1" THEN <<1, 0>> ELSE <<0, 0>>]

PeerDef ==
    {[id |-> "n1", address |-> [ip |-> "X", port |-> 1]],
     [id |-> "n2", address |-> [ip |-> "X", port |-> 2]],
     [id |-> "n2", address |-> [ip |-> "Y", port |-> 1]]}

EntryDef == {[size |-> 1, responders |-> 1, subnets |-> 1]}
=============================================================================
