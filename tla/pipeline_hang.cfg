\* a | b with b not executable: a writes two bytes into a one-byte pipe
\* (boogsh; leetify on the same line finishes).
CONSTANTS
  N = 2
  NOFILE <- MC_NOFILE
  PIPESIZE <- MC_PIPESIZE
  Items <- MC_Items
  Redirs <- MC_NoRedirs
SPECIFICATION LabSpec
CHECK_DEADLOCK FALSE
PROPERTIES
  ShellResumes
