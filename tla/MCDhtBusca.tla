----------------------------- MODULE MCDhtBusca -----------------------------
(***************************************************************************)
(* Small instances of the torrent spider.                                  *)
(***************************************************************************)
EXTENDS DhtBusca

CONSTANTS h1, h2
=============================================================================
