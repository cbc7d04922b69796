CONSTANTS
  PAGE_SZ <- MC_PAGE_SZ
  HeapBase <- MC_HeapBase
  MaxArena <- MC_MaxArena
  Requests <- MC_LeakRequests
  FsmChoices = {}
  MaxLive = 1
SPECIFICATION Spec
PROPERTIES
  FirstFitGrowOnlyWhenNoFit
CHECK_DEADLOCK FALSE
