CONSTANTS
  PAGE_SZ <- MC_PAGE_SZ
  HeapBase <- MC_HeapBase
  MaxArena <- MC_MaxArena
  Requests <- MC_SafeRequests
  FsmChoices = {}
  MaxLive = 2
SPECIFICATION Spec
INVARIANTS
  BlocksTileArena
CHECK_DEADLOCK FALSE
