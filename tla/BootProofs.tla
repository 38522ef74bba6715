------------------------------ MODULE BootProofs ----------------------------
(***************************************************************************)
(* Theorems about Boot and Pmm, for any sizes of memory, sections, kernel  *)
(* and table.                                                              *)
(***************************************************************************)
EXTENDS Boot, TLAPS

-----------------------------------------------------------------------------
(* The table of regions.                                                   *)

LEMMA TableInit == PmmInit => PmmTypeOK
BY PmmAssumption DEF PmmInit, PmmTypeOK, Region, pa_t

LEMMA ZeroIsAddress == 0 \in pa_t
BY PmmAssumption DEF pa_t

\* What pmm_add_region does to the table.
LEMMA AddEffect ==
  ASSUME PmmTypeOK, NEW start \in pa_t, NEW size \in pa_t, pmm_add_region(start, size)
  PROVE  /\ PmmTypeOK'
         /\ \A i \in 0..(pmm_available.count - 1) :
              pmm_available'.regions[i] = pmm_available.regions[i]
         /\ \/ /\ ~Full /\ ret' = "0"
               /\ pmm_available'.count = pmm_available.count + 1
               /\ pmm_available'.regions[pmm_available.count] = [start |-> start, size |-> size]
            \/ /\ Full /\ ret' = "-ENOMEM"
               /\ UNCHANGED pmm_available
<1> USE PmmAssumption DEF PmmTypeOK, Region, Slots
<1>1. CASE Refuse /\ ret' = "-ENOMEM"
  BY <1>1 DEF Refuse
<1>2. CASE Store(start, size) /\ ret' = "0"
  <2> DEFINE n == pmm_available.count
             r == [start |-> start, size |-> size]
  <2>1. n \in Slots /\ n + 1 \in 0..PMM_MAX_REGIONS
    BY <1>2 DEF Store, Full
  <2>2. pmm_available' = [pmm_available EXCEPT !.count = n + 1, !.regions[n] = r]
    BY <1>2 DEF Store
  <2>3. r \in Region
    OBVIOUS
  <2>4. /\ pmm_available'.count = n + 1
        /\ pmm_available'.regions = [pmm_available.regions EXCEPT ![n] = r]
    BY <2>2
  <2>5. pmm_available' = [count   |-> n + 1,
                          regions |-> [pmm_available.regions EXCEPT ![n] = r]]
    BY <2>2
  <2>6. [pmm_available.regions EXCEPT ![n] = r] \in [Slots -> Region]
    BY <2>3
  <2>7. PmmTypeOK'
    BY <2>1, <2>5, <2>6
  <2>8. pmm_available'.regions[n] = r
    BY <2>1, <2>4
  <2>9. \A i \in 0..(n - 1) : pmm_available'.regions[i] = pmm_available.regions[i]
    BY <2>1, <2>4
  <2> QED
    BY <1>2, <2>4, <2>7, <2>8, <2>9 DEF Store
<1> QED
  BY <1>1, <1>2 DEF pmm_add_region

\* What pmm_init does to it.
LEMMA ClearEffect ==
  ASSUME PmmTypeOK, pmm_init
  PROVE  PmmTypeOK' /\ pmm_available'.count = 0
BY PmmAssumption DEF PmmTypeOK, pmm_init

\* The arguments that c_entry and the callers of pmm.h give.
Given == info \in [flags : SUBSET {MB_MEM_VALID}, mem_lower : MemSizes, mem_upper : MemSizes]

TableInv == PmmTypeOK /\ Given /\ region \in Region

\* Every step does to the table what its place in the code says: it adds the
\* region that is asked for there, clears the table, or leaves it alone.
LEMMA TableSteps ==
  ASSUME TableInv, Next
  PROVE  IF Asked # NULL
         THEN Asked \in Region /\ pmm_add_region(Asked.start, Asked.size)
         ELSE IF Clears THEN pmm_init ELSE UNCHANGED pmm_available
<1> USE BootAssumption, ZeroIsAddress
<1>a. \A a, b \in pa_t :
        /\ [start |-> a, size |-> b] \in Region
        /\ [start |-> a, size |-> b].start = a /\ [start |-> a, size |-> b].size = b
        /\ [start |-> a, size |-> b] # NULL
  BY DEF Region
<1>1. CASE X86Start \/ ArmStart \/ ArmMap \/ ArmEnable \/ NiosStart \/ LibraryCall
            \/ kernel_main \/ panic \/ NiosSpin
  <2>1. UNCHANGED pmm_available
    BY <1>1 DEF X86Start, ArmStart, ArmMap, ArmEnable, NiosStart, LibraryCall,
       kernel_main, panic, NiosSpin, vars
  <2>2. Asked = NULL
    BY <1>1 DEF X86Start, ArmStart, ArmMap, ArmEnable, NiosStart, LibraryCall,
       kernel_main, panic, NiosSpin, On, Asked
  <2>3. ~Clears
    BY <1>1 DEF X86Start, ArmStart, ArmMap, ArmEnable, NiosStart, LibraryCall,
       kernel_main, panic, NiosSpin, On, Clears
  <2> QED
    BY <2>1, <2>2, <2>3
<1>2. CASE X86Low
  <2>1. info.mem_lower \in pa_t /\ pc = "low"
    BY <1>2 DEF TableInv, Given, X86Low, On
  <2>2. CASE info.mem_lower # 0
    <3>1. Asked = [start |-> 0, size |-> info.mem_lower]
      BY <2>1, <2>2 DEF Asked
    <3>2. pmm_add_region(0, info.mem_lower)
      BY <1>2, <2>2 DEF X86Low
    <3> QED
      BY <1>a, <2>1, <3>1, <3>2
  <2>3. CASE info.mem_lower = 0
    BY <1>2, <2>1, <2>3 DEF X86Low, Asked, Clears
  <2> QED
    BY <2>2, <2>3
<1>3. CASE X86High
  <2>1. info.mem_upper \in pa_t /\ HIGHMEM_START \in pa_t /\ pc = "high"
    BY <1>3 DEF TableInv, Given, X86High, On
  <2>2. CASE info.mem_upper # 0
    <3>1. Asked = [start |-> HIGHMEM_START, size |-> info.mem_upper]
      BY <2>1, <2>2 DEF Asked
    <3>2. pmm_add_region(HIGHMEM_START, info.mem_upper)
      BY <1>3, <2>2 DEF X86High
    <3> QED
      BY <1>a, <2>1, <3>1, <3>2
  <2>3. CASE info.mem_upper = 0
    BY <1>3, <2>1, <2>3 DEF X86High, Asked, Clears
  <2> QED
    BY <2>2, <2>3
<1>4. CASE InitTable \/ LibraryInit
  BY <1>4 DEF InitTable, LibraryInit, On, Asked, Clears
<1>5. CASE AddRam
  <2>1. Asked = [start |-> 0, size |-> RAM_SIZE] /\ pmm_add_region(0, RAM_SIZE)
    BY <1>5 DEF AddRam, On, Asked
  <2> QED
    BY <1>a, <2>1
<1>6. CASE LibraryAdd
  <2>1. Asked = region /\ pmm_add_region(region.start, region.size)
    BY <1>6 DEF LibraryAdd, On, Asked
  <2> QED
    BY <2>1 DEF TableInv
<1> QED
  BY <1>1, <1>2, <1>3, <1>4, <1>5, <1>6 DEF Next

LEMMA TableStep == TableInv /\ [Next]_vars => TableInv'
<1> SUFFICES ASSUME TableInv, [Next]_vars PROVE TableInv'
  OBVIOUS
<1>1. UNCHANGED info
  BY DEF Next, vars, X86Start, X86Low, X86High, ArmStart, ArmMap, ArmEnable, NiosStart,
     InitTable, AddRam, LibraryInit, LibraryCall, LibraryAdd, kernel_main, panic, NiosSpin
<1>2. region' \in Region
  <2>1. LibraryCall => region' \in Region
    BY BootAssumption DEF LibraryCall, Region
  <2>2. ~LibraryCall => UNCHANGED region
    BY DEF Next, vars, X86Start, X86Low, X86High, ArmStart, ArmMap, ArmEnable, NiosStart,
       InitTable, AddRam, LibraryInit, LibraryAdd, kernel_main, panic, NiosSpin
  <2> QED
    BY <2>1, <2>2 DEF TableInv
<1>3. PmmTypeOK'
  <2>1. CASE UNCHANGED vars
    BY <2>1 DEF vars, TableInv, PmmTypeOK
  <2>2. CASE Next
    <3>1. UNCHANGED pmm_available => PmmTypeOK'
      BY DEF TableInv, PmmTypeOK
    <3>2. Asked \in Region => Asked.start \in pa_t /\ Asked.size \in pa_t
      BY DEF Region
    <3> QED
      BY <2>2, <3>1, <3>2, TableSteps, AddEffect, ClearEffect DEF TableInv
  <2> QED
    BY <2>1, <2>2
<1> QED
  BY <1>1, <1>2, <1>3 DEF TableInv, Given

\* Each call of pmm_add_region puts the region it is given behind the others, or
\* refuses with the table full; nothing but pmm_init takes a region out, and
\* nothing changes one (pmm.c:62-81): for any table and any calls.
THEOREM RegionsCorrect == Spec => RegionsKept
<1> DEFINE Kept ==
      IF Asked # NULL
      THEN \/ ret' = "0" /\ PutBehind(Asked)
           \/ ret' = "-ENOMEM" /\ Full /\ UNCHANGED pmm_available
      ELSE IF Clears THEN pmm_available'.count = 0 ELSE UNCHANGED pmm_available
<1>1. Init => TableInv
  BY TableInit, ZeroIsAddress DEF Init, TableInv, Given, Region
<1>2. ASSUME TableInv, Next
      PROVE  Kept
  <2>1. PmmTypeOK
    BY <1>2 DEF TableInv
  <2>2. CASE Asked # NULL
    <3>1. Asked \in Region /\ pmm_add_region(Asked.start, Asked.size)
      BY <1>2, <2>2, TableSteps
    <3>2. /\ Asked.start \in pa_t /\ Asked.size \in pa_t
          /\ Asked = [start |-> Asked.start, size |-> Asked.size]
      BY <3>1 DEF Region
    <3> QED
      BY <2>1, <2>2, <3>1, <3>2, AddEffect DEF PutBehind
  <2>3. CASE Asked = NULL
    BY <1>2, <2>1, <2>3, TableSteps, ClearEffect
  <2> QED
    BY <2>2, <2>3
<1>3. TableInv /\ [Next]_vars => [Kept]_vars
  BY <1>2
<1> QED
  BY <1>1, <1>3, TableStep, PTL DEF Spec, RegionsKept

-----------------------------------------------------------------------------
(* What kernel_main finds in the table.                                    *)

\* pmm_init drops what the boot loader reported, and c_entry adds one region.
AtMain ==
  /\ pc = "pmm_add" => pmm_available.count = 0
  /\ pc = "kernel_main" =>
       /\ pmm_available.count = 1
       /\ pmm_available.regions[0] = [start |-> 0, size |-> RAM_SIZE]

LEMMA AtMainStep ==
  ASSUME PMM_MAX_REGIONS > 1, TableInv, AtMain, [Next]_vars
  PROVE  AtMain'
<1>1. CASE UNCHANGED vars \/ kernel_main \/ panic \/ NiosSpin
  BY <1>1 DEF vars, AtMain, kernel_main, panic, NiosSpin
<1>2. CASE \/ X86Start \/ X86Low \/ X86High \/ ArmStart \/ ArmMap \/ ArmEnable \/ NiosStart
           \/ LibraryInit \/ LibraryCall \/ LibraryAdd
  <2>1. pc' \notin {"pmm_add", "kernel_main"}
    BY <1>2 DEF X86Start, X86Low, X86High, ArmStart, ArmMap, ArmEnable, NiosStart,
       LibraryInit, LibraryCall, LibraryAdd, On
  <2> QED
    BY <2>1 DEF AtMain
<1>3. CASE InitTable
  BY <1>3, ClearEffect DEF InitTable, On, AtMain, TableInv
<1>4. CASE AddRam
  <2>1. pmm_available.count = 0 /\ pc' = "kernel_main"
    BY <1>4 DEF AddRam, On, AtMain
  <2>2. ~Full
    BY <2>1, PmmAssumption DEF Full
  <2>3. RAM_SIZE \in pa_t
    BY BootAssumption
  <2>4. pmm_add_region(0, RAM_SIZE)
    BY <1>4 DEF AddRam
  <2>5. /\ pmm_available'.count = pmm_available.count + 1
        /\ pmm_available'.regions[pmm_available.count] = [start |-> 0, size |-> RAM_SIZE]
    BY <2>2, <2>3, <2>4, ZeroIsAddress, AddEffect DEF TableInv
  <2> QED
    BY <2>1, <2>5 DEF AtMain
<1> QED
  BY <1>1, <1>2, <1>3, <1>4 DEF Next

\* Where the table has room for it (pmm.c never uses the last place), the one
\* region that c_entry names is all that kernel_main finds, whatever the boot
\* loader reported (x86 entry.c:32-57, arm entry.c:37-39).
THEOREM OneRegion ==
  ASSUME PMM_MAX_REGIONS > 1
  PROVE  Spec => []OneRegionAtMain
<1>1. Init => TableInv /\ AtMain
  BY TableInit, ZeroIsAddress DEF Init, TableInv, Given, Region, AtMain
<1>2. TableInv /\ AtMain /\ [Next]_vars => (TableInv /\ AtMain)'
  BY TableStep, AtMainStep
<1>3. AtMain => OneRegionAtMain
  <2> SUFFICES ASSUME AtMain, pc = "kernel_main"
               PROVE  Regions = {[start |-> 0, size |-> RAM_SIZE]}
    BY DEF OneRegionAtMain
  <2>1. /\ pmm_available.count = 1
        /\ pmm_available.regions[0] = [start |-> 0, size |-> RAM_SIZE]
    BY DEF AtMain
  <2>2. 0..(pmm_available.count - 1) = {0}
    BY <2>1
  <2> QED
    BY <2>1, <2>2 DEF Regions
<1> QED
  BY <1>1, <1>2, <1>3, PTL DEF Spec

-----------------------------------------------------------------------------
(* The page directory.                                                     *)

\* Quotient and remainder.
LEMMA DivisionOf ==
  ASSUME NEW a \in Nat, NEW d \in Nat \ {0}
  PROVE  /\ a \div d \in Nat /\ a % d \in 0..(d - 1)
         /\ a = d * (a \div d) + (a % d)
<1>1. a \div d \in Nat
  OBVIOUS
<1>2. a % d \in 0..(d - 1)
  OBVIOUS
<1>3. a = d * (a \div d) + (a % d)
  OBVIOUS
<1> QED
  BY <1>1, <1>2, <1>3

LEMMA ProductsOrdered ==
  ASSUME NEW d \in Nat \ {0}, NEW m \in Int, NEW n \in Int, d * m < d * n
  PROVE  m < n
OBVIOUS

LEMMA DivisionIs ==
  ASSUME NEW d \in Nat \ {0}, NEW q \in Nat, NEW r \in 0..(d - 1)
  PROVE  /\ (d * q + r) \div d = q
         /\ (d * q + r) % d = r
<1> DEFINE a == d * q + r
<1>1. a \in Nat
  OBVIOUS
<1>2. /\ a \div d \in Nat /\ a % d \in 0..(d - 1)
      /\ a = d * (a \div d) + (a % d)
  BY <1>1, DivisionOf
<1>3. d * (a \div d) < d * (q + 1)
  BY <1>2
<1>4. d * q < d * ((a \div d) + 1)
  BY <1>2
<1> HIDE DEF a
<1>5. a \div d < q + 1 /\ q < (a \div d) + 1
  BY <1>2, <1>3, <1>4, ProductsOrdered
<1>6. a \div d = q
  BY <1>2, <1>5
<1>7. a = d * q + (a % d)
  BY <1>2, <1>6
<1>8. a = d * q + r
  BY DEF a
<1>9. a % d = r
  <2>1. d * q \in Nat /\ a % d \in Nat
    BY <1>2
  <2> QED
    BY <1>7, <1>8, <2>1
<1> QED
  BY <1>6, <1>9 DEF a

\* The first sections of the kernel: where it was loaded, and where it runs.
LoadSection == SectionOf(phys)
KernelSection == SectionOf(KERNEL_START)

\* The loop has mapped n sections.
Mapped(n) ==
  /\ r5 = SECTION_SIZE * (LoadSection + n)
  /\ r6 = SECTION_SIZE * (KernelSection + n)
  /\ \A i \in 0..(n - 1) :
       /\ dir[LoadSection + i] = SECTION_SIZE * (LoadSection + i)
       /\ dir[KernelSection + i] = SECTION_SIZE * (LoadSection + i)

\* Translation is on only after the loop, which stops at the first section
\* past the kernel's end.
MapInv ==
  /\ phys \in PhysStarts
  /\ DOMAIN dir = Sections
  /\ pc = "map" => \E n \in Nat : Mapped(n) /\ r6 <= KERNEL_END
  /\ pc = "enable" \/ mmu => \E n \in Nat : Mapped(n) /\ r6 > KERNEL_END
  /\ mmu => pc \in {"pmm_init", "pmm_add", "kernel_main"}

\* The kernel is as far behind the start of a section where it was loaded as
\* where it runs.
LEMMA Layout ==
  ASSUME phys \in PhysStarts
  PROVE  /\ LoadSection \in Nat /\ KernelSection \in Nat
         /\ KERNEL_START = SECTION_SIZE * KernelSection
         /\ TEXT_START - KERNEL_START \in 0..(SECTION_SIZE - 1)
         /\ phys = SECTION_SIZE * LoadSection + (TEXT_START - KERNEL_START)
         /\ SECTION_SIZE \in Nat \ {0} /\ KERNEL_END \in Nat
         /\ TEXT_START \in Nat /\ phys \in Nat
<1> DEFINE r == TEXT_START - KERNEL_START
<1>1. /\ SECTION_SIZE \in Nat \ {0} /\ KERNEL_START \in Nat /\ TEXT_START \in Nat
      /\ KERNEL_END \in Nat /\ r \in 0..(SECTION_SIZE - 1)
      /\ phys \in Nat
  BY BootAssumption
<1>2. /\ KernelSection \in Nat
      /\ KERNEL_START = SECTION_SIZE * KernelSection + (KERNEL_START % SECTION_SIZE)
  BY <1>1, DivisionOf DEF KernelSection, SectionOf
<1>3. KERNEL_START = SECTION_SIZE * KernelSection
  BY <1>1, <1>2, BootAssumption
<1>4. TEXT_START % SECTION_SIZE = r
  <2>1. (SECTION_SIZE * KernelSection + r) % SECTION_SIZE = r
    BY <1>1, <1>2, DivisionIs
  <2>2. TEXT_START = SECTION_SIZE * KernelSection + r
    BY <1>1, <1>3
  <2> QED
    BY <2>1, <2>2
<1>5. /\ LoadSection \in Nat
      /\ phys = SECTION_SIZE * LoadSection + (phys % SECTION_SIZE)
  BY <1>1, DivisionOf DEF LoadSection, SectionOf
<1>6. phys % SECTION_SIZE = r
  BY <1>4, BootAssumption
<1> QED
  BY <1>1, <1>2, <1>3, <1>5, <1>6

\* The loop's next section is in the directory, both times, and the part of the
\* directory that maps the kernel 1:1 ends before the part that maps it where it
\* runs.
LEMMA SectionsApart ==
  ASSUME phys \in PhysStarts, NEW n \in Nat,
         SECTION_SIZE * (KernelSection + n) <= KERNEL_END
  PROVE  /\ LoadSection + n < KernelSection
         /\ LoadSection + n \in Sections /\ KernelSection + n \in Sections
<1> DEFINE l == LoadSection
           k == KernelSection
           d == SECTION_SIZE
<1>1. /\ l \in Nat /\ k \in Nat /\ KERNEL_START = d * k
      /\ phys = d * l + (TEXT_START - KERNEL_START)
      /\ d \in Nat \ {0} /\ KERNEL_END \in Nat /\ TEXT_START \in Nat /\ phys \in Nat
  BY Layout
<1>2. phys + (KERNEL_END - TEXT_START) + d < KERNEL_START
  BY BootAssumption
<1>3. ADDRESSES \in Nat /\ KERNEL_END <= ADDRESSES - d
  BY BootAssumption
<1>4. d * (k + n) <= KERNEL_END
  OBVIOUS
<1> HIDE DEF l, k, d
<1>5. d * (k + n) = d * k + d * n /\ d * (l + n) = d * l + d * n
      /\ d * k \in Nat /\ d * l \in Nat /\ d * n \in Nat
  BY <1>1
<1>6. d * (l + n) < d * k
  BY <1>1, <1>2, <1>4, <1>5
<1>7. l + n < k
  BY <1>1, <1>6, ProductsOrdered
<1>8. k + n < ADDRESSES \div d
  <2>1. /\ ADDRESSES \div d \in Nat /\ ADDRESSES % d \in 0..(d - 1)
        /\ ADDRESSES = d * (ADDRESSES \div d) + (ADDRESSES % d)
    BY <1>1, <1>3, DivisionOf
  <2>2. d * (ADDRESSES \div d) > ADDRESSES - d /\ d * (ADDRESSES \div d) \in Nat
    BY <1>1, <1>3, <2>1
  <2>3. d * (k + n) < d * (ADDRESSES \div d)
    BY <1>1, <1>3, <1>4, <1>5, <2>2
  <2>4. k + n \in Int /\ ADDRESSES \div d \in Int
    BY <1>1, <2>1
  <2> QED
    BY <1>1, <2>3, <2>4, ProductsOrdered
<1>9. ADDRESSES \div d \in Nat
  BY <1>1, <1>3, DivisionOf
<1>10. Sections = 0..((ADDRESSES \div d) - 1)
  BY DEF Sections, d
<1>11. l + n \in Sections /\ k + n \in Sections
  BY <1>1, <1>7, <1>8, <1>9, <1>10
<1> QED
  BY <1>7, <1>11 DEF l, k

\* One turn of the loop.
LEMMA MapStep ==
  ASSUME phys \in PhysStarts, DOMAIN dir = Sections, NEW n \in Nat, Mapped(n),
         r6 <= KERNEL_END, ArmMap
  PROVE  /\ n + 1 \in Nat /\ Mapped(n + 1)'
         /\ pc' = IF r6' > KERNEL_END THEN "enable" ELSE "map"
         /\ DOMAIN dir' = Sections
<1> DEFINE l == LoadSection
           k == KernelSection
           d == SECTION_SIZE
<1>1. /\ l \in Nat /\ k \in Nat /\ KERNEL_START = d * k
      /\ d \in Nat \ {0} /\ KERNEL_END \in Nat
  BY Layout
<1>2. r5 = d * (l + n) /\ r6 = d * (k + n)
  BY DEF Mapped
<1>3. l + n < k /\ l + n \in Sections /\ k + n \in Sections
  BY <1>2, SectionsApart
<1>4. /\ dir' = [dir EXCEPT ![SectionOf(r5)] = r5, ![SectionOf(r6)] = r5]
      /\ r5' = r5 + d /\ r6' = r6 + d /\ UNCHANGED phys
      /\ pc' = IF r6 + d > KERNEL_END THEN "enable" ELSE "map"
  BY DEF ArmMap, On, KernelMapped
<1>5. l' = l /\ k' = k
  BY <1>4 DEF LoadSection, KernelSection, SectionOf
<1>6. \A i \in 0..(n - 1) : dir[l + i] = d * (l + i) /\ dir[k + i] = d * (l + i)
  BY DEF Mapped
<1> USE <1>1
<1> HIDE DEF l, k, d
<1>7. SectionOf(r5) = l + n /\ SectionOf(r6) = k + n
  <2>1. 0 \in 0..(d - 1) /\ l + n \in Nat /\ k + n \in Nat
    OBVIOUS
  <2>2. (d * (l + n) + 0) \div d = l + n /\ (d * (k + n) + 0) \div d = k + n
    BY <2>1, DivisionIs
  <2>3. d * (l + n) + 0 = r5 /\ d * (k + n) + 0 = r6
    BY <1>2
  <2> QED
    BY <2>2, <2>3 DEF SectionOf, d
<1>8. r5' = d * (l + (n + 1)) /\ r6' = d * (k + (n + 1))
  BY <1>2, <1>4
<1>9. /\ dir' = [dir EXCEPT ![l + n] = d * (l + n), ![k + n] = d * (l + n)]
      /\ DOMAIN dir' = Sections
  BY <1>2, <1>4, <1>7
<1>10. dir'[l + n] = d * (l + n) /\ dir'[k + n] = d * (l + n)
  BY <1>3, <1>9
<1>11. \A i \in 0..(n - 1) : dir'[l + i] = dir[l + i] /\ dir'[k + i] = dir[k + i]
  <2> SUFFICES ASSUME NEW i \in 0..(n - 1)
               PROVE  dir'[l + i] = dir[l + i] /\ dir'[k + i] = dir[k + i]
    OBVIOUS
  <2>1. l + i # l + n /\ l + i # k + n /\ k + i # k + n /\ k + i # l + n
    BY <1>3
  <2>2. l + i \in Sections /\ k + i \in Sections
    <3>1. l + i \in Int /\ 0 <= l + i /\ l + i <= l + n
      OBVIOUS
    <3>2. k + i \in Int /\ 0 <= k + i /\ k + i <= k + n
      OBVIOUS
    <3>3. \A a, b \in Int : 0 <= a /\ a <= b /\ b \in Sections => a \in Sections
      <4>1. ADDRESSES \div SECTION_SIZE \in Nat
        BY BootAssumption, DivisionOf
      <4> QED
        BY <4>1 DEF Sections
    <3> QED
      BY <1>3, <3>1, <3>2, <3>3
  <2> QED
    BY <1>9, <2>1, <2>2
<1>12. \A i \in 0..n : dir'[l + i] = d * (l + i) /\ dir'[k + i] = d * (l + i)
  <2> SUFFICES ASSUME NEW i \in 0..n
               PROVE  dir'[l + i] = d * (l + i) /\ dir'[k + i] = d * (l + i)
    OBVIOUS
  <2>1. CASE i = n
    BY <1>10, <2>1
  <2>2. CASE i # n
    <3>1. i \in 0..(n - 1)
      BY <2>2
    <3> QED
      BY <1>6, <1>11, <3>1
  <2> QED
    BY <2>1, <2>2
<1>13. (n + 1) - 1 = n
  OBVIOUS
<1>14. Mapped(n + 1)'
  BY <1>5, <1>8, <1>12, <1>13 DEF Mapped, l, k, d
<1> QED
  BY <1>4, <1>9, <1>14

LEMMA MapInit == Init => MapInv
BY DEF Init, MapInv

LEMMA MapInvStep == MapInv /\ [Next]_vars => MapInv'
<1> SUFFICES ASSUME MapInv, [Next]_vars PROVE MapInv'
  OBVIOUS
\* Steps that leave the directory alone.
<1>1. ASSUME UNCHANGED <<phys, dir, r5, r6, mmu>>, pc' \notin {"map", "enable"},
             mmu => pc' \in {"pmm_init", "pmm_add", "kernel_main"}
      PROVE  MapInv'
  <2>1. \A n : Mapped(n)' <=> Mapped(n)
    BY <1>1 DEF Mapped, LoadSection, KernelSection, SectionOf
  <2> QED
    BY <1>1, <2>1 DEF MapInv
<1>2. CASE UNCHANGED vars
  <2>1. \A n : Mapped(n)' <=> Mapped(n)
    BY <1>2 DEF Mapped, LoadSection, KernelSection, SectionOf, vars, machinery
  <2> QED
    BY <1>2, <2>1 DEF MapInv, vars, machinery
<1>3. CASE \/ X86Start \/ X86Low \/ X86High \/ NiosStart \/ InitTable \/ AddRam
           \/ LibraryInit \/ LibraryCall \/ LibraryAdd
  <2>1. UNCHANGED <<phys, dir, r5, r6, mmu>>
    BY <1>3 DEF X86Start, X86Low, X86High, NiosStart, InitTable, AddRam, LibraryInit,
       LibraryCall, LibraryAdd, machinery
  <2>2. pc' \notin {"map", "enable"}
    BY <1>3 DEF X86Start, X86Low, X86High, NiosStart, InitTable, AddRam, LibraryInit,
       LibraryCall, LibraryAdd, On
  <2>3. \/ pc \notin {"pmm_init", "pmm_add", "kernel_main"}
        \/ pc' \in {"pmm_init", "pmm_add", "kernel_main"}
    BY <1>3 DEF X86Start, X86Low, X86High, NiosStart, InitTable, AddRam, LibraryInit,
       LibraryCall, LibraryAdd, On
  <2> QED
    BY <1>1, <2>1, <2>2, <2>3 DEF MapInv
<1>4. CASE kernel_main \/ panic \/ NiosSpin
  BY <1>2, <1>4 DEF kernel_main, panic, NiosSpin
<1>5. CASE ArmStart
  <2>1. /\ phys \in PhysStarts /\ phys' = phys
        /\ r5' = SECTION_SIZE * SectionOf(phys) /\ r6' = KERNEL_START
        /\ pc = "start" /\ pc' = "map" /\ mmu' = mmu /\ DOMAIN dir' = Sections
    BY <1>5 DEF ArmStart, On, MapInv
  <2>2. /\ LoadSection \in Nat /\ KernelSection \in Nat
        /\ KERNEL_START = SECTION_SIZE * KernelSection
    BY <2>1, Layout
  <2>3. Mapped(0)'
    <3>1. LoadSection' = LoadSection /\ KernelSection' = KernelSection
      BY <2>1 DEF LoadSection, KernelSection, SectionOf
    <3>2. LoadSection + 0 = LoadSection /\ KernelSection + 0 = KernelSection
      BY <2>2
    <3>3. \A i \in 0..(0 - 1) : FALSE
      OBVIOUS
    <3> QED
      BY <2>1, <2>2, <3>1, <3>2, <3>3 DEF Mapped, LoadSection
  <2>4. r6' <= KERNEL_END
    BY <2>1, BootAssumption
  <2> QED
    BY <2>1, <2>3, <2>4 DEF MapInv
<1>6. CASE ArmMap
  <2>1. /\ phys \in PhysStarts /\ DOMAIN dir = Sections /\ pc = "map"
        /\ UNCHANGED <<phys, mmu>> /\ ~mmu
    BY <1>6 DEF ArmMap, On, MapInv
  <2>2. PICK n \in Nat : Mapped(n) /\ r6 <= KERNEL_END
    BY <2>1 DEF MapInv
  <2>3. /\ n + 1 \in Nat /\ Mapped(n + 1)'
        /\ pc' = IF r6' > KERNEL_END THEN "enable" ELSE "map"
        /\ DOMAIN dir' = Sections
    BY <1>6, <2>1, <2>2, MapStep
  <2>4. r6' \in Int /\ KERNEL_END \in Int
    <3>1. r6' = SECTION_SIZE * (KernelSection' + (n + 1)) /\ KernelSection' = KernelSection
      BY <2>3 DEF Mapped, KernelSection, SectionOf
    <3> QED
      BY <2>1, <3>1, Layout
  <2>5. pc' = "map" => r6' <= KERNEL_END
    BY <2>3, <2>4
  <2>6. pc' = "enable" => r6' > KERNEL_END
    BY <2>3, <2>4
  <2> QED
    BY <2>1, <2>3, <2>5, <2>6 DEF MapInv
<1>7. CASE ArmEnable
  <2>1. /\ UNCHANGED <<phys, dir, r5, r6>> /\ pc = "enable" /\ pc' = "pmm_init"
    BY <1>7 DEF ArmEnable, On
  <2>2. \A n : Mapped(n)' <=> Mapped(n)
    BY <2>1 DEF Mapped, LoadSection, KernelSection, SectionOf
  <2> QED
    BY <2>1, <2>2 DEF MapInv
<1> QED
  BY <1>2, <1>3, <1>4, <1>5, <1>6, <1>7 DEF Next

\* An address off the start of a section that is mapped.
LEMMA Translates ==
  ASSUME NEW l \in Nat, NEW k \in Nat, NEW n \in Nat, NEW off \in Nat,
         off < SECTION_SIZE * n, SECTION_SIZE \in Nat \ {0}, NULL \notin Nat,
         \A i \in 0..(n - 1) : dir[k + i] = SECTION_SIZE * (l + i)
  PROVE  TranslatesTo(SECTION_SIZE * k + off, SECTION_SIZE * l + off)
<1> DEFINE d == SECTION_SIZE
           i == off \div d
           r == off % d
<1>1. d \in Nat \ {0}
  OBVIOUS
<1>2. i \in Nat /\ r \in 0..(d - 1) /\ off = d * i + r
  BY DivisionOf
<1> HIDE DEF i, r, d
<1>3. i < n
  <2>1. d * i < d * n
    <3>1. off < d * n
      BY DEF d
    <3>2. d * i \in Nat /\ d * n \in Nat
      BY <1>1, <1>2
    <3> QED
      BY <1>2, <3>1, <3>2
  <2>2. i \in Int /\ n \in Int
    BY <1>2
  <2> QED
    BY <1>1, <2>1, <2>2, ProductsOrdered
<1>4. d * k + off = d * (k + i) + r /\ d * l + off = d * (l + i) + r
  BY <1>1, <1>2
<1>5. k + i \in Nat /\ l + i \in Nat
  BY <1>2
<1>6. (d * (k + i) + r) \div d = k + i /\ (d * (k + i) + r) % d = r
  BY <1>1, <1>2, <1>5, DivisionIs
<1>7. dir[k + i] = d * (l + i)
  BY <1>2, <1>3 DEF d
<1>8. d * (l + i) \in Nat
  BY <1>1, <1>5
<1> QED
  BY <1>4, <1>6, <1>7, <1>8 DEF TranslatesTo, SectionOf, d

LEMMA MapImplies == MapInv => KernelTranslates
<1> SUFFICES ASSUME MapInv, mmu PROVE KernelTranslates
  BY DEF KernelTranslates
<1>1. PICK n \in Nat : Mapped(n) /\ r6 > KERNEL_END
  BY DEF MapInv
<1>2. phys \in PhysStarts
  BY DEF MapInv
<1> DEFINE l == LoadSection
           k == KernelSection
           d == SECTION_SIZE
           x == TEXT_START - KERNEL_START
<1>3. /\ l \in Nat /\ k \in Nat /\ KERNEL_START = d * k
      /\ x \in 0..(d - 1) /\ phys = d * l + x
      /\ d \in Nat \ {0} /\ KERNEL_END \in Nat /\ TEXT_START \in Nat /\ phys \in Nat
  BY <1>2, Layout
<1>4. NULL \notin Nat
  BY BootAssumption
<1>5. /\ \A i \in 0..(n - 1) : dir[l + i] = d * (l + i)
      /\ \A i \in 0..(n - 1) : dir[k + i] = d * (l + i)
      /\ d * (k + n) > KERNEL_END
  BY <1>1 DEF Mapped
<1>6. TEXT_START = d * k + x
  <2>1. KERNEL_START \in Nat /\ TEXT_START = KERNEL_START + x
    BY BootAssumption
  <2> QED
    BY <1>3, <2>1
<1>7. /\ d * k \in Nat /\ d * l \in Nat /\ d * n \in Nat
      /\ d * (k + n) = d * k + d * n
  BY <1>3
<1> HIDE DEF l, k, d, x
<1>8. \A off \in Nat : off < d * n =>
        /\ TranslatesTo(d * k + off, d * l + off)
        /\ TranslatesTo(d * l + off, d * l + off)
  BY <1>3, <1>4, <1>5, Translates DEF d
<1>9. ASSUME NEW a \in TEXT_START..(KERNEL_END - 1)
      PROVE  TranslatesTo(a, phys + (a - TEXT_START))
  <2> DEFINE off == a - d * k
  <2>1. off \in Nat /\ off < d * n /\ a = d * k + off
    BY <1>3, <1>5, <1>6, <1>7
  <2>2. phys + (a - TEXT_START) = d * l + off
    BY <1>3, <1>6, <1>7
  <2> HIDE DEF off
  <2> QED
    BY <1>8, <2>1, <2>2
<1>10. ASSUME NEW a \in phys..(phys + Image - 1)
       PROVE  TranslatesTo(a, a)
  <2> DEFINE off == a - d * l
  <2>1. off \in Nat /\ off < d * n /\ a = d * l + off
    BY <1>3, <1>5, <1>6, <1>7 DEF Image
  <2> HIDE DEF off
  <2> QED
    BY <1>8, <2>1
<1> QED
  BY <1>9, <1>10 DEF KernelTranslates

\* Wherever the kernel is loaded and however large it is, as long as it is not in
\* its own way: when translation is turned on, all of the kernel is mapped where
\* it runs and where it was loaded (head.S:55-134).
THEOREM KernelMappedCorrect == Spec => []KernelTranslates
BY MapInit, MapInvStep, MapImplies, PTL DEF Spec

=============================================================================
