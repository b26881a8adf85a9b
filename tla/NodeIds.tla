------------------------------ MODULE NodeIds ------------------------------
(***************************************************************************)
(* The ids of a DHT node, and the tables of distances and of valid ips     *)
(* through which the routing table sees them.                              *)
(***************************************************************************)
EXTENDS NodeUpkeep, Ids

CONSTANT BitsOf     \* the bits of each id

ASSUME TablesOfIds ==
    /\ BitsOf \in [Id -> Bits] /\ DOMAIN Crc = Ip \X {0, 1}
    /\ \A x, y \in Id : Distance[<<x, y>>] = DistanceOf(BitsOf[x], BitsOf[y])
    /\ \A i \in Id : /\ Prefix[i] = First21(BitsOf[i])
                     /\ ValidFor[i] = {ip \in Ip : IsValidForIp(BitsOf[i], ip)}

\* id.rs: ids that are made for an ip are valid for it, and the distance is one.  (No
\* state matters to ids: they are checked at the start.)
IdsFit == Init => MadeIdsAreValid(Ip) /\ DistanceIsOne
=============================================================================
