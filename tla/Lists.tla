------------------------------- MODULE Lists --------------------------------
(***************************************************************************)
(* Sequences filtered by a set (Vec::retain, Iterator::filter).            *)
(***************************************************************************)
EXTENDS Naturals, Sequences

\* The elements of s that are in S, in their order: of the first n for each n.
AmongFirst(s, S) ==
    LET kept[n \in 0 .. Len(s)] ==
            IF n = 0 THEN <<>>
            ELSE IF s[n] \in S THEN Append(kept[n - 1], s[n]) ELSE kept[n - 1]
    IN  kept

Among(s, S) == AmongFirst(s, S)[Len(s)]
=============================================================================
