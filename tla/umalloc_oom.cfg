\* Three whole-page requests: the third finds the two-page arena used up.
CONSTANTS
  PAGE_SZ <- MC_PAGE_SZ
  HeapBase <- MC_HeapBase
  MaxArena <- MC_MaxArena
  Requests <- MC_LeakRequests
  FsmChoices = {}
  MaxLive = 3
SPECIFICATION Spec
INVARIANTS
  OutOfMemoryReported
CHECK_DEADLOCK FALSE
