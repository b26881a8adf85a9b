------------------------------- MODULE Asking -------------------------------
(***************************************************************************)
(* What a KRPC socket promises of the requests sent through it: each one   *)
(* is open until it is answered, once, or expires, whichever comes first.  *)
(***************************************************************************)
EXTENDS Sequences

VARIABLE outcome    \* of every request so far

Init == outcome = <<>>

Ask == outcome' = Append(outcome, "open")

Settled(r, how) == outcome[r] = "open" /\ outcome' = [outcome EXCEPT ![r] = how]

Answer == \E r \in DOMAIN outcome : Settled(r, "answered")

\* Time passes for all of them at once.
Expire ==
    \E some \in SUBSET {r \in DOMAIN outcome : outcome[r] = "open"} :
        outcome' = [r \in DOMAIN outcome |-> IF r \in some THEN "expired" ELSE outcome[r]]

Next == Ask \/ Answer \/ Expire

Spec == Init /\ [][Next]_outcome
=============================================================================
