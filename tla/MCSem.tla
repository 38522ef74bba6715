------------------------------- MODULE MCSem --------------------------------
(***************************************************************************)
(* Small instances of Sem for TLC.                                         *)
(***************************************************************************)
EXTENDS Sem, TLC

Symmetry == Permutations(Threads)

=============================================================================
