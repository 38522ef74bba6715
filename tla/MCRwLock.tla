------------------------------ MODULE MCRwLock ------------------------------
(***************************************************************************)
(* Small instances of RwLock for TLC.                                      *)
(***************************************************************************)
EXTENDS RwLock, TLC

Symmetry == Permutations(Threads)

Both == {READ, WRITE}

=============================================================================
