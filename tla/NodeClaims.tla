----------------------------- MODULE NodeClaims -----------------------------
(***************************************************************************)
(* What the documentation of the routing table says and the code does not, *)
(* over the behaviours of NodeUpkeep with the pings of its maintenance.    *)
(***************************************************************************)
EXTENDS NodeUpkeep

VARIABLE heard      \* how long ago each node last answered anything

claimVars == <<vars, heard>>

ClaimInit == Init /\ heard = [p \in Peer |-> 0]

\* The answer to a ping of the last maintenance: the code drops it.
PingAnswered(p) ==
    /\ \E n \in Nodes(table) : n.id = p.id /\ n.address = p.address /\ n.age > 0
    /\ sincePing = 0
    /\ heard' = [heard EXCEPT ![p] = 0]
    /\ UNCHANGED vars

ClaimNext ==
    \/ Tick /\ heard' = [p \in Peer |-> heard[p] + 1]
    \/ Maintain /\ UNCHANGED heard
    \/ \E target \in Target, p \in Peer :
         Answer(target, p, NoAddress, FALSE) /\ heard' = [heard EXCEPT ![p] = 0]
    \/ \E target \in Target : EndLookup(target) /\ UNCHANGED heard
    \/ \E p \in Peer : PingAnswered(p)

ClaimSpec == ClaimInit /\ [][ClaimNext]_claimVars

\* KBucket: it "checks and evicts unresponsive nodes, without dropping any responsive
\* nodes in the process" (routing_table.rs:182-183).
ResponsiveNodesStay ==
    [][\A n \in Nodes(table), p \in Peer :
         /\ n.id = p.id /\ n.address = p.address
         /\ \A m \in Nodes(table') : m.id # n.id
         => heard[p] > StaleTime]_claimVars
=============================================================================
