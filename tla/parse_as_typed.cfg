\* 'a >> f < g': a '<' after '>>' clears stdout_file.
CONSTANTS
  Lines <- MC_AppendThenInOnly
  NULL = NULL
SPECIFICATION Spec
INVARIANTS
  ParsedAsTyped
