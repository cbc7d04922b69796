CONSTANTS
  PAGE_SZ <- MC_PAGE_SZ
  HeapBase <- MC_HeapBase
  MaxArena <- MC_MaxArena
  Requests <- MC_UnsafeRequests
  FsmChoices = {1}
  MaxLive = 2
SPECIFICATION Spec
INVARIANTS
  MetadataIntact
CHECK_DEADLOCK FALSE
