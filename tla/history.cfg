CONSTANTS
  HIST_CAP <- MC_HIST_CAP
  PAIRS_SZ <- MC_PAIRS_SZ
  MaxTotal <- MC_MaxTotal
  Cmds <- MC_Cmds
  CdCmds <- MC_CdCmds
  Nums <- MC_Nums
  Words <- MC_Prefixes
  Junk = Junk
  Fault = Fault
  None = None
SPECIFICATION Spec
\* The shell stops at exit, after a fault, or at the MaxTotal bound.
CHECK_DEADLOCK FALSE
INVARIANTS
  TypeOK
PROPERTIES
  HistoryRefinesLog
  SearchByCmdRunsLatestMatch
