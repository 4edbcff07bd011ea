----------------------------- MODULE MCJobTable -----------------------------
(***************************************************************************)
(* The job table with a few groups and slots.                              *)
(***************************************************************************)
EXTENDS JobTable
=============================================================================
