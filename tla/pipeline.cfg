\* a | b | c, a | b | c > out and a | b | c < in > out, run by boogsh, and
\* leetify's cat | tolower | fnr with and without an output file.
CONSTANTS
  N = 3
  NOFILE <- MC_NOFILE
  PIPESIZE <- MC_PIPESIZE
  Items <- MC_Items
  Redirs <- MC_AllRedirs
SPECIFICATION LabSpec
\* A failed exec of boogsh's last stage can leave the pipeline stuck for
\* good (run pipeline_hang); every other end state is Done.
CHECK_DEADLOCK FALSE
INVARIANTS
  TypeOK
  StagesPlumbed
PROPERTIES
  ShellResumesAfterExec
  LeetifyFinishes
