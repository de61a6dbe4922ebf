CONSTANTS
  PROCESS_COUNT_MAX = 4
  PAGING_DIRECTORY_TABLE_MAX_COUNT = 3
  PAGE_FRAME_MAX_COUNT = 8
  PROCESS_PAGE_FRAME_COUNT_MAX = 2
  KillPids = {0, 1, 2, 3, 4, 5}
  Null = Null
SPECIFICATION Spec
INVARIANT TypeOK
INVARIANT DirPoolMatchesPCBs
INVARIANT LiveSpacesReachKernel
INVARIANT FreeCountMatchesMap
