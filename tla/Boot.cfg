SPECIFICATION Spec
CONSTANTS
  PMM_MAX_REGIONS = 4
  PaValues = 128
  Machines = {"x86", "arm", "nios2", "library"}
  MemSizes = {0, 5, 100}
  HIGHMEM_START = 16
  RAM_SIZE = 50
  SECTION_SIZE = 4
  PAGEDIR_SIZE = 2
  ADDRESSES = 128
  KERNEL_START = 64
  KERNEL_END = 75
  TEXT_START = 66
  PhysStarts = {2, 6, 10, 30}
  NULL = NULL
INVARIANTS KernelTranslates OneRegionAtMain
PROPERTY RegionsKept
