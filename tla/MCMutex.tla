------------------------------ MODULE MCMutex -------------------------------
(***************************************************************************)
(* Small instances of Mutex for TLC.                                       *)
(***************************************************************************)
EXTENDS Mutex, TLC

Symmetry == Permutations(Threads)

=============================================================================
