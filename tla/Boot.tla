-------------------------------- MODULE Boot --------------------------------
(***************************************************************************)
(* From the entry of the kernel to kernel_main, on the three machines      *)
(* (arch/*/kernel/head.S and entry.c), and the table of memory regions     *)
(* that this leaves.  Machine "library" is any caller of pmm.c.            *)
(*                                                                         *)
(* Addresses are counted in units of which a section has a few.            *)
(***************************************************************************)
EXTENDS Pmm

CONSTANTS
  Machines,      \* those of "x86", "arm", "nios2" and "library"
  MemSizes,      \* the sizes of memory a boot loader reports, 0 for none
  HIGHMEM_START, \* X86_HIGHMEM_START
  RAM_SIZE,      \* 0x32 << 20
  SECTION_SIZE,
  PAGEDIR_SIZE,
  ADDRESSES,     \* the number of virtual addresses
  KERNEL_START,
  KERNEL_END,    \* ... and the first address past the kernel
  TEXT_START,    \* the address of _start
  PhysStarts,    \* the physical addresses _start may be loaded at
  NULL

\* The comments at head.S:74-76: the sections line up, the directory fits in
\* front of the kernel, and 1:1 and virtual sections do not overlap.  _start is
\* in the first section of the kernel (kernel.ld:5-9).
ASSUME BootAssumption ==
  /\ MemSizes \subseteq pa_t
  /\ HIGHMEM_START \in pa_t /\ RAM_SIZE \in pa_t
  /\ SECTION_SIZE \in Nat \ {0} /\ PAGEDIR_SIZE \in Nat /\ ADDRESSES \in Nat
  /\ KERNEL_START \in Nat /\ KERNEL_START % SECTION_SIZE = 0
  /\ KERNEL_END \in KERNEL_START..(ADDRESSES - SECTION_SIZE)
  /\ TEXT_START \in KERNEL_START..KERNEL_END
  /\ TEXT_START < KERNEL_START + SECTION_SIZE
  /\ \A p \in PhysStarts :
       /\ p \in Nat /\ p >= PAGEDIR_SIZE
       /\ p % SECTION_SIZE = TEXT_START % SECTION_SIZE
       /\ p + (KERNEL_END - TEXT_START) + SECTION_SIZE < KERNEL_START
  /\ NULL \notin Nat \cup Region
  /\ NULL \notin {"0", "-ENOMEM"}

VARIABLES
  machine,
  pc,
  info,   \* the boot loader's mb_info: flags, mem_lower and mem_upper
  phys,   \* where _start was loaded
  dir,    \* the page directory: the base each section is mapped to, or NULL
  r5, r6, \* the loop of __setup_pgtbl: the next section, 1:1 and virtual
  mmu,    \* whether addresses are translated
  region, \* the arguments a caller of the library gives to pmm_add_region
  ret     \* what the last pmm_add_region returned, or NULL

machinery == <<phys, dir, r5, r6, mmu>>
vars == <<pmm_available, machine, pc, info, machinery, region, ret>>

Labels == {"start", "low", "high", "map", "enable", "pmm_init", "pmm_add", "call",
           "kernel_main", "panic", "halt"}

Sections == 0..(ADDRESSES \div SECTION_SIZE - 1)
SectionOf(a) == a \div SECTION_SIZE

TypeOK ==
  /\ PmmTypeOK
  /\ pc \in Labels
  /\ dir \in [Sections -> {s * SECTION_SIZE : s \in Sections} \cup {NULL}]
  /\ {r5, r6} \subseteq 0..ADDRESSES
  /\ mmu \in BOOLEAN
  /\ region \in Region
  /\ ret \in {"0", "-ENOMEM", NULL}

MB_MEM_VALID == "MB_MEM_VALID"

Init ==
  /\ PmmInit
  /\ machine \in Machines
  /\ pc = "start"
  /\ info \in [flags : SUBSET {MB_MEM_VALID}, mem_lower : MemSizes, mem_upper : MemSizes]
  /\ phys \in PhysStarts
  /\ dir = [s \in Sections |-> NULL]
  /\ r5 = 0 /\ r6 = 0
  /\ mmu = FALSE
  /\ region = [start |-> 0, size |-> 0]
  /\ ret = NULL

On(m, from, to) == machine = m /\ pc = from /\ pc' = to

pmm_add_region(start, size) ==
  \/ Store(start, size) /\ ret' = "0"
  \/ Refuse /\ ret' = "-ENOMEM"

-----------------------------------------------------------------------------
(* Faulty variants of the operations below: each breaks a property.        *)

\* Leaves out the kernel's last section.
MapsTooLittle == r6 + 2 * SECTION_SIZE > KERNEL_END

-----------------------------------------------------------------------------
(* x86: c_entry.                                                           *)

\* Without a memory map there is nothing to go on with.
X86Start ==
  /\ On("x86", "start", IF MB_MEM_VALID \in info.flags THEN "low" ELSE "panic")
  /\ UNCHANGED <<pmm_available, machine, info, machinery, region, ret>>

X86Low ==
  /\ On("x86", "low", "high")
  /\ IF info.mem_lower # 0 THEN pmm_add_region(0, info.mem_lower)
                           ELSE UNCHANGED <<pmm_available, ret>>
  /\ UNCHANGED <<machine, info, machinery, region>>

X86High ==
  /\ On("x86", "high", "pmm_init")
  /\ IF info.mem_upper # 0 THEN pmm_add_region(HIGHMEM_START, info.mem_upper)
                           ELSE UNCHANGED <<pmm_available, ret>>
  /\ UNCHANGED <<machine, info, machinery, region>>

-----------------------------------------------------------------------------
(* ARM: _start builds a directory and turns translation on.                *)

ArmStart ==
  /\ On("arm", "start", "map")
  /\ dir' = [s \in Sections |-> NULL]
  /\ r5' = SECTION_SIZE * SectionOf(phys)
  /\ r6' = KERNEL_START
  /\ UNCHANGED <<pmm_available, machine, info, phys, mmu, region, ret>>

KernelMapped == r6 + SECTION_SIZE > KERNEL_END

\* One section, 1:1 and at its virtual address.
ArmMap ==
  /\ On("arm", "map", IF KernelMapped THEN "enable" ELSE "map")
  /\ dir' = [dir EXCEPT ![SectionOf(r5)] = r5, ![SectionOf(r6)] = r5]
  /\ r5' = r5 + SECTION_SIZE
  /\ r6' = r6 + SECTION_SIZE
  /\ UNCHANGED <<pmm_available, machine, info, phys, mmu, region, ret>>

\* __enable_mmu and the jump to __call_kernel.
ArmEnable ==
  /\ On("arm", "enable", "pmm_init")
  /\ mmu' = TRUE
  /\ UNCHANGED <<pmm_available, machine, info, phys, dir, r5, r6, region, ret>>

-----------------------------------------------------------------------------
\* Nios II has no memory to manage yet: its c_entry does not call anything.
NiosStart ==
  /\ On("nios2", "start", "halt")
  /\ UNCHANGED <<pmm_available, machine, info, machinery, region, ret>>

\* The last steps of c_entry on x86 and ARM.
InitTable ==
  /\ \E m \in {"x86", "arm"} : On(m, "pmm_init", "pmm_add")
  /\ pmm_init
  /\ UNCHANGED <<machine, info, machinery, region, ret>>

AddRam ==
  /\ \E m \in {"x86", "arm"} : On(m, "pmm_add", "kernel_main")
  /\ pmm_add_region(0, RAM_SIZE)
  /\ UNCHANGED <<machine, info, machinery, region>>

\* Any caller of pmm.h.
LibraryInit ==
  /\ On("library", "start", "start")
  /\ pmm_init /\ ret' = NULL
  /\ UNCHANGED <<machine, info, machinery, region>>

LibraryCall ==
  /\ On("library", "start", "call")
  /\ region' \in [start : MemSizes, size : MemSizes]
  /\ UNCHANGED <<pmm_available, machine, info, machinery, ret>>

LibraryAdd ==
  /\ On("library", "call", "start")
  /\ pmm_add_region(region.start, region.size)
  /\ UNCHANGED <<machine, info, machinery, region>>

\* These do nothing, for ever; on Nios II it is c_entry itself.
kernel_main == pc = "kernel_main" /\ UNCHANGED vars
panic       == pc = "panic" /\ UNCHANGED vars
NiosSpin    == pc = "halt" /\ UNCHANGED vars

Next ==
  \/ X86Start \/ X86Low \/ X86High
  \/ ArmStart \/ ArmMap \/ ArmEnable
  \/ NiosStart
  \/ InitTable \/ AddRam
  \/ LibraryInit \/ LibraryCall \/ LibraryAdd
  \/ kernel_main \/ panic \/ NiosSpin

Spec == Init /\ [][Next]_vars

-----------------------------------------------------------------------------
(* The properties.                                                         *)

\* The region that the call about to be made names.
Asked ==
  CASE pc = "low" /\ info.mem_lower # 0  -> [start |-> 0, size |-> info.mem_lower]
    [] pc = "high" /\ info.mem_upper # 0 -> [start |-> HIGHMEM_START, size |-> info.mem_upper]
    [] pc = "pmm_add"                    -> [start |-> 0, size |-> RAM_SIZE]
    [] pc = "call"                       -> region
    [] OTHER                             -> NULL

\* The steps that call pmm_init.
Clears ==
  \/ pc = "pmm_init"
  \/ machine = "library" /\ pc = "start" /\ pc' = "start"

PutBehind(r) ==
  /\ pmm_available'.count = pmm_available.count + 1
  /\ pmm_available'.regions[pmm_available.count] = r
  /\ \A i \in 0..(pmm_available.count - 1) :
       pmm_available'.regions[i] = pmm_available.regions[i]

\* Each call of pmm_add_region puts the region it was given behind those in the
\* table and says so, or says -ENOMEM with the table full and leaves it alone;
\* pmm_init empties the table, and nothing else changes it, so that a region is
\* never lost, moved or mixed up with another (pmm.c:62-81).
RegionsKept ==
  [][IF Asked # NULL
     THEN \/ ret' = "0" /\ PutBehind(Asked)
          \/ ret' = "-ENOMEM" /\ Full /\ UNCHANGED pmm_available
     ELSE IF Clears THEN pmm_available'.count = 0 ELSE UNCHANGED pmm_available]_vars

\* pmm.c:31, "Max number of non-contiguous memory regions", and pmm.c:72, "No
\* room to store descriptor": a region is refused only when all are there.
RefusedOnlyWhenFull ==
  [][Asked # NULL /\ ret' = "-ENOMEM" => pmm_available.count = PMM_MAX_REGIONS]_vars

TranslatesTo(a, p) ==
  dir[SectionOf(a)] # NULL /\ dir[SectionOf(a)] + (a % SECTION_SIZE) = p

Image == KERNEL_END - TEXT_START

\* When translation is turned on, every address of the kernel is where it was
\* loaded, up to the last byte; and so is the code that turns it on, which still
\* runs at its physical address (head.S:55-134).
KernelTranslates ==
  mmu => /\ \A a \in TEXT_START..(KERNEL_END - 1) : TranslatesTo(a, phys + (a - TEXT_START))
         /\ \A a \in phys..(phys + Image - 1) : TranslatesTo(a, a)

\* kernel_main starts with the one region that c_entry names, on x86 as well,
\* where the regions the boot loader reported are gone by then, however many
\* and large they are (x86 entry.c:32-57, arm entry.c:37-39).
OneRegionAtMain ==
  pc = "kernel_main" => Regions = {[start |-> 0, size |-> RAM_SIZE]}

=============================================================================
