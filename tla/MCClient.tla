------------------------------ MODULE MCClient ------------------------------
(***************************************************************************)
(* One client and the connection it is served by.                          *)
(***************************************************************************)
EXTENDS Client
=============================================================================
