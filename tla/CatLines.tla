------------------------------ MODULE CatLines ------------------------------
(***************************************************************************)
(* user/catlines.c: better_fgets, a line reader over a static READ_SZ     *)
(* buffer that survives between calls, and the main loop that prints every *)
(* line it returns.  The program is a function of the file, so it is       *)
(* written as operators: a record of the static variables is threaded     *)
(* through the calls, and each pass of better_fgets's while loop is one    *)
(* level of recursion.  read(fd, buffer, READ_SZ) on a file returns        *)
(* min(READ_SZ, bytes left) (xv6 readi).                                   *)
(***************************************************************************)
EXTENDS Integers, Sequences, SequencesExt

CONSTANTS
  READ_SZ,    \* the static buffer (4096 in the code)
  LINE_SZ,    \* the first line buffer malloc gives (128 in the code)
  Unwritten,  \* a heap byte malloc returned and nobody wrote
  CatFiles    \* the files catlines is given, as sequences of characters

ASSUME READ_SZ > 0 /\ LINE_SZ > 0

Newline == "\n"
Nul == "\\0"
NoLine == "NULL"

\* The static variables buffer, buffer_pos, buffer_size, and fd's offset.
StartState == [buf |-> [j \in 1 .. READ_SZ |-> Nul], pos |-> 0, size |-> 0, off |-> 0]

\* read(fd, buffer, READ_SZ): the next bytes of f go to the front of buf.
ReadInto(f, s) ==
  LET n == Min({READ_SZ, Len(f) - s.off})
  IN [buf |-> [j \in 1 .. READ_SZ |-> IF j <= n THEN f[s.off + j] ELSE s.buf[j]],
      pos |-> 0, size |-> n, off |-> s.off + n]

\* The line: line[line_pos] = '\0', and printf's %s stops at the NUL.
LineText(ln, lpos) ==
  LET m == [ln EXCEPT ![lpos + 1] = Nul]
  IN SubSeq(m, 1, SelectInSeq(m, LAMBDA b : b = Nul) - 1)

(* Seeded fault: memcpy(tmp, line, line_pos) left out.                    *)
GrowLineNoCopy(ln, lsz, lpos) == [j \in 1 .. 2 * lsz |-> Unwritten]

\* line_pos + 1 >= line_size: malloc(line_size * 2), memcpy line_pos bytes.
GrowLine(ln, lsz, lpos) ==
  [j \in 1 .. 2 * lsz |-> IF j <= lpos THEN ln[j] ELSE Unwritten]

RECURSIVE Pass(_, _, _, _, _)
RECURSIVE Take(_, _, _, _, _)

(***************************************************************************)
(* One pass of the loop.  An exhausted buffer is refilled first; a read of *)
(* 0 returns NULL (freeing the line) if the line is empty, and otherwise   *)
(* ends it.  A read of less than 0 cannot happen on an open file.          *)
(***************************************************************************)
Pass(f, s, ln, lsz, lpos) ==
  IF s.pos >= s.size
    THEN LET r == ReadInto(f, s)
         IN IF r.size = 0
              THEN IF lpos = 0 THEN [line |-> NoLine, st |-> r]
                               ELSE [line |-> LineText(ln, lpos), st |-> r]
              ELSE Take(f, r, ln, lsz, lpos)
    ELSE Take(f, s, ln, lsz, lpos)

\* c = buffer[buffer_pos++]: a newline ends the line; any other byte is
\* stored, after doubling the line buffer when it has no room left.
Take(f, s, ln, lsz, lpos) ==
  LET c == s.buf[s.pos + 1]
      s2 == [s EXCEPT !.pos = @ + 1]
      full == lpos + 1 >= lsz
      ln2 == IF full THEN GrowLine(ln, lsz, lpos) ELSE ln
      lsz2 == IF full THEN 2 * lsz ELSE lsz
  IN IF c = Newline
       THEN [line |-> LineText(ln, lpos), st |-> s2]
       ELSE Pass(f, s2, [ln2 EXCEPT ![lpos + 1] = c], lsz2, lpos + 1)

\* better_fgets(fd): a fresh LINE_SZ line buffer, then the loop.
better_fgets(f, s) == Pass(f, s, [j \in 1 .. LINE_SZ |-> Unwritten], LINE_SZ, 0)

RECURSIVE Printed(_, _)
\* main: while ((line = better_fgets(fd))) printf the line.
Printed(f, s) ==
  LET r == better_fgets(f, s)
  IN IF r.line = NoLine THEN <<>> ELSE <<r.line>> \o Printed(f, r.st)

catlines(f) == Printed(f, StartState)

-----------------------------------------------------------------------------
RECURSIVE FileLines(_)
\* The lines of a file, without their newlines; a last line without a
\* newline is a line too.
FileLines(f) ==
  LET nl == SelectInSeq(f, LAMBDA c : c = Newline)
  IN IF f = <<>> THEN <<>>
     ELSE IF nl = 0 THEN <<f>>
     ELSE <<SubSeq(f, 1, nl - 1)>> \o FileLines(SubSeq(f, nl + 1, Len(f)))

(***************************************************************************)
(* catlines prints every line of the file, in order and exactly as it is   *)
(* there: however the lines fall across READ_SZ reads of the static buffer *)
(* (a line split between two reads, a read ending on a newline, the buffer *)
(* left over from the call before) and however often a line's buffer      *)
(* doubles, and a last line without a newline is printed too.             *)
(***************************************************************************)
CatLinesPrintsEveryLine == \A f \in CatFiles : catlines(f) = FileLines(f)
=============================================================================
