\* Every short typed line and MCParse's longer ones, and the scripts of
\* MCScript run through getline into the same parse; catlines on the
\* same files; memcpy over every
\* placement of two ranges.
CONSTANTS
  Lines <- MC_Lines
  NULL = NULL
  Files <- MC_Files
  GETLINE_N <- MC_GETLINE_N
  BUFFER_SIZE <- MC_BUFFER_SIZE
  Garbage = Garbage
  READ_SZ <- MC_READ_SZ
  LINE_SZ <- MC_LINE_SZ
  Unwritten = Unwritten
  CatFiles <- MC_Files
  MEM_SZ <- MC_MEM_SZ
SPECIFICATION ScriptSpec
INVARIANTS
  TypeOK
  TokensAsTyped
  ScriptTypeOK
  GetlineReadsNextLine
  CatLinesPrintsEveryLine
  MemcpyMovesBytes
PROPERTIES
  ScriptReadsAdvance
