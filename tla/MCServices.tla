------------------------------- MODULE MCServices -------------------------------
(***************************************************************************)
(* An inbox that one message at a time overflows or breaks, a shared chat  *)
(* under two threads and three starts, two callers that edit the follows,  *)
(* a file of two accounts, and an agent with two loops and two keys.       *)
(***************************************************************************)
EXTENDS AppServices

CONSTANTS h1, h2, l1, l2

Sobre(id, mio, de, kind, abre, rumor, reciente) ==
    [id |-> id, mio |-> mio, de |-> de, kind |-> kind, abre |-> abre, rumor |-> rumor,
     reciente |-> reciente]

MCEvento ==
    { Sobre(1, TRUE, "par", "GiftWrap", TRUE, "PrivateDirectMessage", TRUE),
      Sobre(2, TRUE, "otro", "GiftWrap", TRUE, "Reaction", FALSE),
      Sobre(3, TRUE, "otro", "GiftWrap", FALSE, "?", TRUE),
      Sobre(4, FALSE, "par", "TextNote", FALSE, "?", TRUE) }

MCSesion == {[clave |-> "k1", quien |-> "ana"], [clave |-> "k2", quien |-> Nadie]}
=============================================================================
