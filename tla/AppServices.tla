---------------------------- MODULE AppServices ----------------------------
(***************************************************************************)
(* What runs behind the screens of Nostr and of the agents.  The two share *)
(* no state; a behaviour is of one of them, and the other stays as it      *)
(* started.                                                                *)
(***************************************************************************)
EXTENDS Nostr, AgentManager

VARIABLE lado       \* the side that moves

servicesVars == <<lado, vars, agentVars>>

\* While the agent moves it does not matter which part of Nostr rests.
ServicesInit ==
    /\ Init /\ AgentInit
    /\ lado \in {"nostr", "agent"} /\ (lado = "agent" => parte = "inbox")

OfNostr(step) == lado = "nostr" /\ step /\ UNCHANGED <<lado, agentVars>>
OfAgent(step) == lado = "agent" /\ step /\ UNCHANGED <<lado, vars>>

ServicesNext == OfNostr(Next) \/ OfAgent(AgentNext)

\* The screen polls the inbox every few seconds; a call of the shared chat goes on when it
\* gets its locks, and its awaits end; what a loop of an agent awaits has a time limit.
ServicesFairness ==
    /\ WF_servicesVars(OfNostr(Inbox(InboxStep)))
    /\ \A h \in Hilo : WF_servicesVars(OfNostr(Shared(SharedStep(h))))
    /\ \A l \in Loop : WF_servicesVars(OfAgent(LoopStep(l)))

ServicesSpec == ServicesInit /\ [][ServicesNext]_servicesVars /\ ServicesFairness

\* Every variable of the parts has its type.
ServicesTypeOK == TypeOK /\ AgentTypeOK
=============================================================================
