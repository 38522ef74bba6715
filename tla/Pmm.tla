--------------------------------- MODULE Pmm --------------------------------
(***************************************************************************)
(* The table of physical memory regions of kernel/mm/pmm.c.                *)
(***************************************************************************)
EXTENDS Integers

CONSTANTS
  PMM_MAX_REGIONS,
  PaValues  \* 2^32: the number of values of pa_t, which is unsigned

ASSUME PmmAssumption ==
  /\ PMM_MAX_REGIONS \in Nat \ {0}
  /\ PaValues \in Nat \ {0}

VARIABLE pmm_available

Slots == 0..(PMM_MAX_REGIONS - 1)

pa_t == 0..(PaValues - 1)

Region == [start : pa_t, size : pa_t]

PmmTypeOK == pmm_available \in [count : 0..PMM_MAX_REGIONS, regions : [Slots -> Region]]

\* A static variable: zero.
PmmInit ==
  pmm_available = [count   |-> 0,
                   regions |-> [i \in Slots |-> [start |-> 0, size |-> 0]]]

-----------------------------------------------------------------------------
(* Faulty variants of the operations below: each breaks a property.        *)

\* Stores in the slot before the free one, unless it is the first.
StoresOverLast(start, size) ==
  LET n == pmm_available.count IN
  /\ n + 1 < PMM_MAX_REGIONS
  /\ pmm_available' = [pmm_available EXCEPT
       !.count = n + 1,
       !.regions[IF n = 0 THEN 0 ELSE n - 1] = [start |-> start, size |-> size]]

\* Keeps what is in the table.
KeepsTheTable == UNCHANGED pmm_available

-----------------------------------------------------------------------------
\* Clears the count and keeps the regions.
pmm_init == pmm_available' = [pmm_available EXCEPT !.count = 0]

\* The last slot is never used.
Full == pmm_available.count + 1 >= PMM_MAX_REGIONS

Store(start, size) ==
  /\ ~Full
  /\ pmm_available' = [pmm_available EXCEPT
       !.count = @ + 1,
       !.regions[pmm_available.count] = [start |-> start, size |-> size]]

Refuse == Full /\ UNCHANGED pmm_available  \* -ENOMEM

\* The regions that are in the table.
Regions == {pmm_available.regions[i] : i \in 0..(pmm_available.count - 1)}

=============================================================================
