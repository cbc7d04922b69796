\* First fit, switched to worst fit and back (malloc_setfsm(3) is not a
\* strategy and selects first fit).
CONSTANTS
  PAGE_SZ <- MC_PAGE_SZ
  HeapBase <- MC_HeapBase
  MaxArena <- MC_MaxArena
  Requests <- MC_SafeRequests
  FsmChoices = {2, 3}
  MaxLive = 2
SPECIFICATION Spec
INVARIANTS
  TypeOK
  LiveAllocationsDisjoint
  MetadataIntact
  FreeListMatchesFlags
PROPERTIES
  BestWorstGrowOnlyWhenNoFit
CHECK_DEADLOCK FALSE
