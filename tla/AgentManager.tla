---------------------------- MODULE AgentManager ----------------------------
(***************************************************************************)
(* An agent (lib/agents/agent_manager.dart): loops that ask a language     *)
(* model what to do and run the tools it calls, with the permission of the *)
(* user, and the API keys they share (key_vault.dart).                     *)
(*                                                                         *)
(* Dart runs one step at a time, from one await to the next.  talk starts  *)
(* a loop unless the status is running, so an agent may have several: one  *)
(* that waits for a permission, one that was stopped and not yet back from *)
(* its request, and a new one.  They share every field of the agent, and   *)
(* run on when the agent is taken off the list.                            *)
(***************************************************************************)
EXTENDS Naturals, Sequences, FiniteSetsExt

CONSTANTS
    Loop,           \* loops that may be alive at once
    NoLoop,
    Tool,           \* tools, by name
    NoTool,
    Allowed,        \* the tools the agent has a permission for
    KeyCount,       \* number of API keys of its provider
    MaxIterations,
    MaxCalls        \* bound: tools called in one reply

ASSUME AgentAssumption ==
    /\ NoLoop \notin Loop /\ NoTool \notin Tool /\ Allowed \subseteq Tool
    /\ IsFiniteSet(Loop)
    /\ {KeyCount, MaxIterations, MaxCalls} \subseteq Nat /\ KeyCount > 0

VARIABLES
    agent,          \* its fields; pending is pendingToolName, waiter the loop whose
                    \*   completer _permissionWaiter is, listed whether agents holds it
    loop,           \* of each loop, the await it is in and the calls it still has to run
    keys            \* of the provider [rotation, dead]; dead in the order of the set

agentVars == <<agent, loop, keys>>

At(pc, calls) == [pc |-> pc, calls |-> calls]
Off == At("off", <<>>)

AgentInit ==
    /\ agent = [status |-> "idle", stopFlag |-> FALSE, iterations |-> 0,
                pending |-> NoTool, waiter |-> NoLoop, listed |-> TRUE]
    /\ loop = [l \in Loop |-> Off]
    /\ keys = [rotation |-> 0, dead |-> <<>>]

-----------------------------------------------------------------------------
(* KeyVault.  A dead key is a place in the list.                           *)

Dead(k) == {k.dead[i] : i \in DOMAIN k.dead}
AliveTurns(k) == {i \in 0 .. KeyCount - 1 : (k.rotation + i) % KeyCount \notin Dead(k)}
NextKey(k) == (k.rotation + Min(AliveTurns(k))) % KeyCount

\* markDeadAndRotate: the key the rotation stands at, whichever was refused.
MarkedDead(k) ==
    [rotation |-> k.rotation + 1,
     dead     |-> IF k.rotation \in Dead(k) THEN k.dead ELSE Append(k.dead, k.rotation)]

\* reviveKeys removes from a set what it reads from the same set: the first removal ends
\* the iteration with an error.
Revived(k) == [k EXCEPT !.dead = IF @ = <<>> THEN @ ELSE Tail(@)]

-----------------------------------------------------------------------------
(* The loop.  a and k are the agent and the keys as the code that comes    *)
(* before, in the same step, has left them.                                *)

ContinuesUnstopped(a) == a.iterations < MaxIterations

Continues(a) == ~a.stopFlag /\ a.iterations < MaxIterations

AtLimitSilent(a) == a.status

AtLimit(a) == IF a.iterations >= MaxIterations /\ a.status = "running" THEN "error" ELSE a.status

\* The head of the while, up to the first thing it waits for: the request itself, or one
\* that sums up what has to be cut from the history, with the key just chosen.
Round(l, a, k) ==
    \/ /\ Continues(a) /\ AliveTurns(k) # {}
       /\ agent' = [a EXCEPT !.iterations = @ + 1, !.status = "running"]
       /\ keys' = [k EXCEPT !.rotation = NextKey(k)]
       /\ \E pc \in {"summary", "post"} : loop' = [loop EXCEPT ![l] = At(pc, <<>>)]
    \/ /\ Continues(a) /\ AliveTurns(k) = {}
       /\ agent' = [a EXCEPT !.iterations = @ + 1, !.status = "error"]
       /\ keys' = k
       /\ loop' = [loop EXCEPT ![l] = Off]
    \/ /\ ~Continues(a)
       /\ agent' = [a EXCEPT !.status = AtLimit(a)]
       /\ keys' = k
       /\ loop' = [loop EXCEPT ![l] = Off]

AskedInTurn(a, l, tool) ==
    [a EXCEPT !.pending = tool, !.status = "waitingPermission",
              !.waiter = IF @ = NoLoop THEN l ELSE @]

Asked(a, l, tool) ==
    [a EXCEPT !.pending = tool, !.status = "waitingPermission", !.waiter = l]

\* The calls of a reply that are left, up to the next await.
Work(l, a, k, calls) ==
    \/ /\ calls = <<>> \/ a.stopFlag
       /\ Round(l, a, k)
    \/ /\ calls # <<>> /\ ~a.stopFlag /\ Head(calls) \in Allowed
       /\ agent' = a /\ keys' = k
       /\ loop' = [loop EXCEPT ![l] = At("tool", calls)]
    \/ /\ calls # <<>> /\ ~a.stopFlag /\ Head(calls) \notin Allowed
       /\ agent' = Asked(a, l, Head(calls)) /\ keys' = k
       /\ loop' = [loop EXCEPT ![l] = At("asking", calls)]

Ends(l, status) ==
    /\ agent' = [agent EXCEPT !.status = status]
    /\ loop' = [loop EXCEPT ![l] = Off]
    /\ UNCHANGED keys

\* Calls of tools that do not exist are answered on the spot, and left out here.
CallLists == UNION {[1 .. n -> Tool] : n \in 0 .. MaxCalls}

\* The summary came, failed or was given up after a minute: the request is sent, and the
\* flag is not looked at again.
Summed(l) ==
    /\ loop[l].pc = "summary"
    /\ loop' = [loop EXCEPT ![l] = At("post", <<>>)]
    /\ UNCHANGED <<agent, keys>>

\* The answer of the model, or none in two minutes.
Refused(l) == loop[l].pc = "post" /\ Round(l, agent, MarkedDead(keys))
PostFails(l) == loop[l].pc = "post" /\ Ends(l, "error")
FinalAnswer(l) == loop[l].pc = "post" /\ Ends(l, "idle")
ToolCalls(l) == loop[l].pc = "post" /\ \E calls \in CallLists : Work(l, agent, keys, calls)

\* A reply whose message is missing, or a call that is no object: the error is nobody's.
BadReply(l) ==
    /\ loop[l].pc = "post"
    /\ loop' = [loop EXCEPT ![l] = At("dead", <<>>)]
    /\ UNCHANGED <<agent, keys>>

\* executeTool never throws, and web_fetch waits for fifteen seconds.
ToolDone(l) == loop[l].pc = "tool" /\ Work(l, agent, keys, Tail(loop[l].calls))

LoopStep(l) ==
    \/ Summed(l) \/ Refused(l) \/ PostFails(l) \/ FinalAnswer(l) \/ ToolCalls(l)
    \/ BadReply(l) \/ ToolDone(l)

-----------------------------------------------------------------------------
(* The screen.                                                             *)

Talk(l) ==
    /\ agent.listed /\ agent.status # "running" /\ loop[l].pc = "off"
    /\ Round(l, [agent EXCEPT !.stopFlag = FALSE, !.iterations = 0], keys)

Resumed(a) == [a EXCEPT !.pending = NoTool, !.waiter = NoLoop]

\* The buttons are there while the status says so.
ResolvePermission(granted) ==
    /\ agent.listed /\ agent.status = "waitingPermission" /\ agent.waiter # NoLoop
    /\ LET l == agent.waiter IN
       \/ /\ granted
          /\ agent' = Resumed(agent)
          /\ loop' = [loop EXCEPT ![l].pc = "tool"]
          /\ UNCHANGED keys
       \/ /\ ~granted
          /\ Work(l, Resumed(agent), keys, Tail(loop[l].calls))

\* stop completes the waiter with false; the loop that waited sees the flag and ends.
Stop ==
    LET a == [agent EXCEPT !.stopFlag = TRUE, !.status = "stopped"] IN
    /\ agent.listed
    /\ \/ /\ agent.waiter = NoLoop
          /\ agent' = a
          /\ UNCHANGED <<loop, keys>>
       \/ /\ agent.waiter # NoLoop
          /\ Round(agent.waiter, Resumed(a), keys)

Revive ==
    /\ agent.listed /\ agent.status \in {"stopped", "error"}
    /\ agent' = [agent EXCEPT !.stopFlag = FALSE, !.status = "idle"]
    /\ keys' = Revived(keys)
    /\ UNCHANGED loop

\* remove takes the agent off the list: the screen cannot reach it, its loops still can.
RemoveAgent ==
    /\ agent.listed
    /\ agent' = [agent EXCEPT !.listed = FALSE]
    /\ UNCHANGED <<loop, keys>>

AgentNext ==
    \/ \E l \in Loop : Talk(l) \/ LoopStep(l)
    \/ \E granted \in BOOLEAN : ResolvePermission(granted)
    \/ Stop \/ Revive \/ RemoveAgent

AgentSpec == AgentInit /\ [][AgentNext]_agentVars

-----------------------------------------------------------------------------
(* Properties.                                                             *)

AgentTypeOK ==
    /\ agent \in [status : {"idle", "running", "waitingPermission", "stopped", "error"},
                  stopFlag : BOOLEAN, iterations : 0 .. MaxIterations,
                  pending : Tool \cup {NoTool}, waiter : Loop \cup {NoLoop}, listed : BOOLEAN]
    /\ \A l \in Loop : /\ loop[l].pc \in {"off", "summary", "post", "tool", "asking", "dead"}
                       /\ loop[l].calls \in CallLists
    /\ keys.rotation \in 0 .. KeyCount + Cardinality(Loop)

Starts(l, pcs) == loop'[l].pc \in pcs /\ loop'[l] # loop[l]

\* AgentManager: a tool the agent has no permission for runs only when the user has just
\* granted the very tool the screen showed, whatever other loops asked in the meantime, and
\* so never once the agent is off the list.
UsesAreGranted ==
    [][\A l \in Loop :
         Starts(l, {"tool"}) /\ Head(loop'[l].calls) \notin Allowed =>
             /\ agent.listed /\ agent.status = "waitingPermission"
             /\ agent.pending = Head(loop'[l].calls)]_agentVars

\* stop: while the flag is up no loop begins a round, runs a tool or asks for one.  The one
\* request a loop may still send is that of the round it had begun, when stop came while
\* the history of that round was being summed up.
StoppedStartsNothing ==
    [][agent'.stopFlag =>
         /\ agent'.iterations = agent.iterations
         /\ \A l \in Loop : /\ ~Starts(l, {"summary", "tool", "asking"})
                            /\ Starts(l, {"post"}) => loop[l].pc = "summary"]_agentVars

\* An agent does not run for ever: it ends, asks or fails, unless a reply broke a loop.
Settles ==
    agent.status = "running" ~> agent.status # "running" \/ \E l \in Loop : loop[l].pc = "dead"
=============================================================================
