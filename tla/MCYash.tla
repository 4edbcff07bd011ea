------------------------------- MODULE MCYash -------------------------------
(***************************************************************************)
(* The standalone shell with the lines each run chooses.                   *)
(***************************************************************************)
EXTENDS Yash
=============================================================================
