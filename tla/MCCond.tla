------------------------------- MODULE MCCond -------------------------------
(***************************************************************************)
(* Small instances of Cond for TLC.                                        *)
(***************************************************************************)
EXTENDS CondRefinement, TLC

CONSTANTS m1, m2, c1, t1

\* Two condition variables for two conditions on the same data.
SharedGuard == [c \in Conds |-> m1]
AllWait == [c \in Conds |-> Threads]

\* Each condition variable has its data, and one thread that waits.
OwnGuard == [c \in Conds |-> IF c = c1 THEN m1 ELSE m2]
OneWaits == [c \in Conds |-> IF c = c1 THEN {t1} ELSE Threads \ {t1}]

Symmetry == Permutations(Threads)

=============================================================================
