------------------------------ MODULE MCShell ------------------------------
(***************************************************************************)
(* One connection with the command lines each run chooses.                 *)
(***************************************************************************)
EXTENDS Shell
=============================================================================
