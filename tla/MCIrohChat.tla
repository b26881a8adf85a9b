----------------------------- MODULE MCIrohChat -----------------------------
(***************************************************************************)
(* Two nodes that connect, send, lose their connections and stop.          *)
(***************************************************************************)
EXTENDS IrohChat

CONSTANTS a, b
=============================================================================
