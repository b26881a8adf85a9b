---------------------------- MODULE StoreService ----------------------------
(***************************************************************************)
(* What the DHT node promises to the threads that store something          *)
(* (rust/mainline, Dht::put and the documentation of its errors): every    *)
(* put at one target shares one fate, and all who wait for it learn it     *)
(* together, once.  The fate is decided by what the nodes answered: Ok     *)
(* only if one of them stored the value, a concurrency error only if one   *)
(* of them refused with that error, "no nodes" only before any answer, and *)
(* "timeout" only if nobody stored the value.                              *)
(***************************************************************************)
CONSTANTS
    Target,     \* the ids stored at
    Client      \* the threads that store

\* The answers that count.
Answer   == {"stored", "cas_failed", "not_most_recent"}
Conflict == {"cas_failed", "not_most_recent", "conflict_risk"}
Outcome  == Conflict \cup {"ok", "no_closest_nodes", "timeout"}

VARIABLES
    waiting,    \* Target -> the clients who wait for the put at it
    heard,      \* Target -> the answers of nodes to the put at it
    fate,       \* Target -> what became of it: open, or its outcome
    outcome     \* Client -> what it was told, "none" before

vars == <<waiting, heard, fate, outcome>>

TypeOK ==
    /\ waiting \in [Target -> SUBSET Client]
    /\ heard \in [Target -> SUBSET Answer]
    /\ fate \in [Target -> Outcome \cup {"open"}]
    /\ outcome \in [Client -> Outcome \cup {"none"}]

Init ==
    /\ waiting = [t \in Target |-> {}]
    /\ heard = [t \in Target |-> {}]
    /\ fate = [t \in Target |-> "open"]
    /\ outcome = [c \in Client |-> "none"]

\* The put of c is taken: it joins the put under way at t, or replaces it.
Admit(c, t) ==
    /\ outcome[c] = "none"
    /\ \A u \in Target : c \notin waiting[u]
    /\ fate[t] = "open"
    /\ waiting' = [waiting EXCEPT ![t] = @ \cup {c}]
    /\ \/ UNCHANGED heard
       \/ heard' = [heard EXCEPT ![t] = {}]
    /\ UNCHANGED <<fate, outcome>>

\* The put of c conflicts with the one under way at t, and changes nothing.
Refuse(c, t) ==
    /\ outcome[c] = "none"
    /\ waiting[t] # {}
    /\ \A u \in Target : c \notin waiting[u]
    /\ \E e \in Conflict : outcome' = [outcome EXCEPT ![c] = e]
    /\ UNCHANGED <<waiting, heard, fate>>

\* A node stores what is put at t, or refuses it.
Hear(t, answer) ==
    /\ waiting[t] # {}
    /\ fate[t] = "open"
    /\ heard' = [heard EXCEPT ![t] = @ \cup {answer}]
    /\ UNCHANGED <<waiting, fate, outcome>>

\* What the answers to a put allow to say of it.
Justified(verdict, answers) ==
    CASE verdict = "ok"               -> "stored" \in answers
      [] verdict = "timeout"          -> "stored" \notin answers
      [] verdict = "no_closest_nodes" -> answers = {}
      [] OTHER                        -> verdict \in answers

\* The fate of the puts at the targets of D is sealed.
Decide(D) ==
    /\ \A t \in D : waiting[t] # {} /\ fate[t] = "open"
    /\ \E verdict \in [D -> Outcome] :
          /\ \A t \in D : Justified(verdict[t], heard[t])
          /\ fate' = [t \in Target |-> IF t \in D THEN verdict[t] ELSE fate[t]]
    /\ heard' = [t \in Target |-> IF t \in D THEN {} ELSE heard[t]]
    /\ UNCHANGED <<waiting, outcome>>

\* All who wait for the puts that are decided are told.
Deliver ==
    LET D == {t \in Target : fate[t] # "open"} IN
    /\ D # {}
    /\ waiting' = [t \in Target |-> IF t \in D THEN {} ELSE waiting[t]]
    /\ fate' = [t \in Target |-> "open"]
    /\ outcome' = [c \in Client |->
                     IF \E t \in D : c \in waiting[t]
                       THEN fate[CHOOSE t \in D : c \in waiting[t]]
                       ELSE outcome[c]]
    /\ UNCHANGED heard

\* The method of c returns.
Return(c) ==
    /\ outcome[c] # "none"
    /\ outcome' = [outcome EXCEPT ![c] = "none"]
    /\ UNCHANGED <<waiting, heard, fate>>

Next ==
    \/ \E c \in Client, t \in Target : Admit(c, t) \/ Refuse(c, t)
    \/ \E t \in Target, answer \in Answer : Hear(t, answer)
    \/ \E D \in SUBSET Target : Decide(D)
    \/ Deliver
    \/ \E c \in Client : Return(c)

Spec == Init /\ [][Next]_vars
=============================================================================
