CONSTANTS
  PAGE_SZ <- MC_PAGE_SZ
  HeapBase <- MC_HeapBase
  MaxArena <- MC_MaxArena
  Requests <- MC_SafeRequests
  FsmChoices = {1}
  MaxLive = 2
SPECIFICATION Spec
INVARIANTS
  TypeOK
  LiveAllocationsDisjoint
  MetadataIntact
  FreeListMatchesFlags
PROPERTIES
  BestWorstGrowOnlyWhenNoFit
CHECK_DEADLOCK FALSE
