--------------------------- MODULE MCDescriptors ---------------------------
(***************************************************************************)
(* Connections of one daemon, which are interchangeable.                   *)
(***************************************************************************)
EXTENDS Descriptors, TLC

Symmetry == Permutations(Conns)
=============================================================================
