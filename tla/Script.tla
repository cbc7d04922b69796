------------------------------ MODULE Script ------------------------------
(***************************************************************************)
(* boogsh's scripting mode (main of user/boogsh.c with a file argument)    *)
(* composed with the parse of each program line it runs (module Parse).   *)
(*                                                                         *)
(* main reads the script with getline (user/ulib.c), which reads into a    *)
(* heap buffer with fgets and doubles the buffer until the line's newline *)
(* fits.  main overwrites the line's last byte, skips the first line (the  *)
(* "#!" header), copies the line into its stack buffer buf, cuts it at     *)
(* '#' (check_comment) and hands it to choose_cmd, which drops an empty    *)
(* line and a trailing '&' and forks a child that runs parse_and_run_cmd   *)
(* on it.  The shell waits for that child before it reads the next line:   *)
(* the child shares no memory with the shell, so a background child, not  *)
(* waited for, can be taken to run before the next read all the same.     *)
(*                                                                         *)
(* Without a file, main reads a line at the prompt instead; that mode is   *)
(* Parse's own Init (a line of Lines) and stays in spc = "prompt".         *)
(***************************************************************************)
EXTENDS Parse

CONSTANTS
  Files,        \* script contents, as sequences of one-character strings
  GETLINE_N,    \* the first buffer getline allocates (128 in the code)
  BUFFER_SIZE,  \* main's buf (128 in the code)
  Garbage       \* a heap byte malloc returned and nobody wrote

NL == "\n"
CR == "\r"
NulByte == "\\0"

ASSUME /\ GETLINE_N > 1 /\ BUFFER_SIZE > 1
       /\ \A f \in Files : \A i \in DOMAIN f : f[i] # NulByte

VARIABLES
  file,     \* the script's bytes (fixed)
  off,      \* the file offset of fd
  mem,      \* the bytes of the buffer `line` points to, <<>> while NULL
  max,      \* main's `max`, the size getline keeps for that buffer
  total,    \* getline's total_read
  from,     \* the file offset when getline was called
  started,  \* read_first_script_line
  spc       \* "prompt", "read", "getline", "line" (getline returned),
            \* "parse", "end", or "wild" (buf overflowed)

svars == <<file, off, mem, max, total, from, started, spc>>
allvars == <<vars, svars>>

\* The bytes of a C string: up to its NUL.
CString(m) == SubSeq(m, 1, SelectInSeq(m, LAMBDA b : b = NulByte) - 1)

(***************************************************************************)
(* fgets(m + at, lim, fd) at file offset o: read up to lim - 1 bytes, one  *)
(* at a time, stopping after '\n' or '\r' or at the end of the file, and   *)
(* write a NUL after them.  The result is the buffer and the count.        *)
(***************************************************************************)
fgets(m, at, lim, o) ==
  LET rest == SubSeq(file, o + 1, Len(file))
      stop == SelectInSeq(rest, LAMBDA c : c \in {NL, CR})
      avail == IF stop = 0 THEN Len(rest) ELSE stop
      k == IF lim < 2 THEN 0 ELSE Min({lim - 1, avail})
  IN [mem |-> [j \in DOMAIN m |-> IF j - at \in 1 .. k THEN rest[j - at]
                                  ELSE IF j = at + k + 1 THEN NulByte ELSE m[j]],
      read |-> k]

(* Seeded fault: the old bytes are not copied into the new buffer.       *)
GrowNoCopy(m, n) ==
  [mem |-> [j \in 1 .. 2 * n |-> Garbage], n |-> 2 * n]

(* Seeded fault: the doubled buffer is used but *n is not updated.       *)
GrowKeepN(m, n) ==
  [mem |-> [j \in 1 .. 2 * n |-> IF j <= n THEN m[j] ELSE Garbage], n |-> n]

\* No newline yet: malloc(*n * 2), memcpy the *n old bytes, free the old.
Grow(m, n) ==
  [mem |-> [j \in 1 .. 2 * n |-> IF j <= n THEN m[j] ELSE Garbage], n |-> 2 * n]

\* getline(&line, &max, fd) is called: a NULL line with max 0 gets
\* GETLINE_N fresh bytes, and total_read starts at 0.
GetlineBegin ==
  LET fresh == mem = <<>> /\ max = 0
  IN /\ spc = "read"
     /\ mem' = IF fresh THEN [j \in 1 .. GETLINE_N |-> Garbage] ELSE mem
     /\ max' = IF fresh THEN GETLINE_N ELSE max
     /\ total' = 0 /\ from' = off
     /\ spc' = "getline"
     /\ UNCHANGED <<vars, file, off, started>>

(***************************************************************************)
(* One pass of getline's loop: fgets at buf + total_read into the          *)
(* *n - total_read bytes left.  0 bytes, or a line now ending in '\n',     *)
(* returns total_read; otherwise the buffer doubles and the loop goes on.  *)
(***************************************************************************)
GetlineStep ==
  LET r == fgets(mem, total, max - total, off)
      t == total + r.read
      g == Grow(r.mem, max)
  IN /\ spc = "getline"
     /\ \/ /\ r.read = 0
           /\ mem' = r.mem /\ spc' = "line"
           /\ UNCHANGED <<off, max, total>>
        \/ /\ r.read > 0 /\ r.mem[t] = NL
           /\ mem' = r.mem /\ total' = t /\ off' = off + r.read
           /\ spc' = "line"
           /\ UNCHANGED max
        \/ /\ r.read > 0 /\ r.mem[t] # NL
           /\ mem' = g.mem /\ max' = g.n /\ total' = t /\ off' = off + r.read
           /\ UNCHANGED spc
     /\ UNCHANGED <<vars, file, from, started>>

(* Seeded fault: only a negative result ends the loop.                   *)
EndOfScriptNeg(n) == n < 0

\* main breaks out of its loop when getline returns 0 or less.
EndOfScript(n) == n <= 0

\* check_comment: the line ends at its first '#'.
check_comment(b) ==
  LET i == SelectInSeq(b, LAMBDA c : c = "#") IN IF i = 0 THEN b ELSE SubSeq(b, 1, i - 1)

\* choose_cmd: an empty line runs nothing; a trailing '&' is cut off.
ProgramText(b) == IF b # <<>> /\ b[Len(b)] = "&" THEN SubSeq(b, 1, Len(b) - 1) ELSE b

\* run_program forks; the child's parse_and_run_cmd starts on the text.
StartParse(t) ==
  /\ line' = t /\ s' = t /\ tok' = NULL
  /\ cmds' = <<>> /\ cap' = 2
  /\ found_in' = FALSE /\ found_out' = FALSE
  /\ pc' = "outer"
  /\ spc' = "parse"

(***************************************************************************)
(* main after getline returns: at the end of the script main returns;     *)
(* else line[strlen(line) - 1] = 0; the first line is skipped; strcpy into *)
(* buf (past BUFFER_SIZE bytes it writes over main's frame); check_comment; *)
(* choose_cmd, which returns at once on an empty line.                     *)
(***************************************************************************)
ScriptLine ==
  LET len == Len(CString(mem))
      m == [mem EXCEPT ![len] = NulByte]
      text == CString(m)
      b == check_comment(text)
  IN
  /\ spc = "line"
  /\ IF EndOfScript(total)
       THEN spc' = "end" /\ UNCHANGED <<vars, mem, started>>
       ELSE /\ mem' = m
            /\ CASE ~started ->
                      started' = TRUE /\ spc' = "read" /\ UNCHANGED vars
                 [] Len(text) >= BUFFER_SIZE ->
                      spc' = "wild" /\ UNCHANGED <<vars, started>>
                 [] b = <<>> ->
                      spc' = "read" /\ UNCHANGED <<vars, started>>
                 [] OTHER ->
                      StartParse(ProgramText(b)) /\ UNCHANGED started
  /\ UNCHANGED <<file, off, max, total, from>>

\* The child's parse: a step of Parse while the shell waits for it.
ParseStep ==
  /\ spc \in {"prompt", "parse"}
  /\ Next
  /\ UNCHANGED svars

(***************************************************************************)
(* run_program's wait returns: it does so only when the child exits, after *)
(* execute_pipeline has run the line, which Pipeline models and which      *)
(* pipeline_hang shows need not happen.  Here the wait may return once the *)
(* parse is done, or never: no fairness is assumed for it.                 *)
(***************************************************************************)
ScriptResume ==
  /\ spc = "parse" /\ pc \in {"done", "panic", "wild"}
  /\ spc' = "read"
  /\ UNCHANGED <<vars, file, off, mem, max, total, from, started>>

\* main returned, or its frame is overwritten: nothing more happens.
ScriptOver == spc \in {"end", "wild"} /\ UNCHANGED allvars

\* Either a line typed at the prompt, or a script run from its start.
ScriptInit ==
  \/ /\ Init
     /\ file = <<>> /\ off = 0 /\ mem = <<>> /\ max = 0 /\ total = 0 /\ from = 0
     /\ started = FALSE /\ spc = "prompt"
  \/ /\ line = <<>> /\ s = <<>> /\ tok = NULL /\ cmds = <<>> /\ cap = 2
     /\ found_in = FALSE /\ found_out = FALSE /\ pc = "outer"
     /\ file \in Files /\ off = 0 /\ mem = <<>> /\ max = 0 /\ total = 0 /\ from = 0
     /\ started = FALSE /\ spc = "read"

ScriptNext == GetlineBegin \/ GetlineStep \/ ScriptLine \/ ParseStep \/ ScriptResume \/ ScriptOver

(***************************************************************************)
(* The shell is one process, and the xv6 scheduler keeps running it while  *)
(* it is RUNNABLE: reading and handling a line are its own steps.  The     *)
(* child's parse and the return of wait get no fairness, since the child   *)
(* may hang (pipeline_hang).                                               *)
(***************************************************************************)
ScriptFairness ==
  /\ WF_allvars(GetlineBegin) /\ WF_allvars(GetlineStep) /\ WF_allvars(ScriptLine)

ScriptSpec == ScriptInit /\ [][ScriptNext]_allvars /\ ScriptFairness

-----------------------------------------------------------------------------
\* The line of the file that starts at offset o, through its newline.
NextLine(f, o) ==
  LET rest == SubSeq(f, o + 1, Len(f))
      nl == SelectInSeq(rest, LAMBDA c : c = NL)
  IN IF nl = 0 THEN rest ELSE SubSeq(rest, 1, nl)

\* The script variables have their types; the buffer is as large as the
\* size getline keeps for it.
ScriptTypeOK ==
  /\ off \in 0 .. Len(file)
  /\ mem = <<>> \/ Len(mem) = max
  /\ started \in BOOLEAN
  /\ total \in 0 .. max /\ from \in 0 .. off
  /\ spc \in {"prompt", "read", "getline", "line", "parse", "end", "wild"}

(***************************************************************************)
(* Every getline call gives main exactly the next line of the script,     *)
(* newline included, and leaves the file offset past it: however often the *)
(* line stops fgets (at '\r', at the end of the buffer) and the buffer     *)
(* doubles, no byte is lost, repeated or left over from the old buffer.    *)
(***************************************************************************)
GetlineReadsNextLine ==
  spc = "line" =>
    /\ CString(mem) = NextLine(file, from)
    /\ total = Len(CString(mem))
    /\ off = from + total

(***************************************************************************)
(* Every read of the script gets somewhere: getline returns however often  *)
(* its buffer doubles, and main, skipping the header, empty lines and      *)
(* comments, goes on reading until it hands a line to a child, reaches the *)
(* end of the script, or overruns buf.  (Whether the child returns is      *)
(* Pipeline's question.)                                                   *)
(***************************************************************************)
ScriptReadsAdvance == spc = "read" ~> spc \in {"parse", "end", "wild"}
=============================================================================
