------------------------------- MODULE MCParse -------------------------------
(***************************************************************************)
(* Every line up to the bounds, given to both parsers.                     *)
(***************************************************************************)
EXTENDS Parse, Parser
=============================================================================
