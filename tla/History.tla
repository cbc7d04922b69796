------------------------------ MODULE History ------------------------------
(***************************************************************************)
(* The command history of the boogsh shell (user/boogsh.c): the history   *)
(* struct, add_history, and the three history builtins `!!`                *)
(* (repeat_history), `!<number>` (search_by_num) and `!<prefix>`           *)
(* (search_by_cmd), driven by the interactive loop of main.               *)
(*                                                                         *)
(* One step is one line typed at the prompt: choose_cmd runs it, and main  *)
(* calls add_history(buf) when choose_cmd did not set exit_status.  A      *)
(* command's text is a sequence of characters drawn from a small set; a    *)
(* program's success is a nondeterministic choice (exec or the program     *)
(* may fail, which sets exit_status through wait in run_program).          *)
(***************************************************************************)
EXTENDS Integers, Sequences, SequencesExt

CONSTANTS
  HIST_CAP,   \* entries kept by add_history (100 in the code)
  PAIRS_SZ,   \* length of the pairs array (BUFFER_SIZE = 128 in the code)
  MaxTotal,   \* bound on total_count, the number the next entry gets
  Cmds,       \* command lines the user types, as character sequences
  CdCmds,     \* "cd <dir>" lines the user types, without their '\n'
  Nums,       \* digit strings typed after `!`, as sequences of 0..9
  Words,   \* lower-case words typed after `!`
  Junk,       \* the text at an address read from an unwritten pair
  Fault,      \* reading that address faults and kills the shell
  None        \* no command was run

ASSUME /\ 0 < HIST_CAP /\ HIST_CAP < PAIRS_SZ
       /\ MaxTotal \in Nat \ {0}
       /\ Junk \notin Cmds /\ Fault \notin Cmds /\ None \notin Cmds
       /\ \A c \in CdCmds : Len(c) >= 3 /\ c[1] = "c" /\ c[2] = "d" /\ c[3] = " "
       /\ \A c \in Cmds : Len(c) < 2 \/ c[1] # "c" \/ c[2] # "d"

VARIABLES
  pairs,        \* h->pairs: slot -> [command, val], or Uninit if never written
  count,        \* h->count
  total_count,  \* h->total_count
  argbuf,       \* the digits left in search_by_num's arg_nums stack buffer
  executed,     \* the commands add_history recorded, oldest first
  crashed,      \* the shell faulted
  exited,       \* the shell ran the exit builtin
  last          \* the line just handled: [op, arg, ran]

vars == <<pairs, count, total_count, argbuf, executed, crashed, exited, last>>

Slots == 0 .. PAIRS_SZ - 1
Uninit == [command |-> None, val |-> 0]
\* The texts an entry can hold: the lines typed, and what is left of a cd
\* line after change_directory has cut bytes off it.
Texts == Cmds \cup UNION {{SubSeq(c, 1, k) : k \in 2 .. Len(c)} : c \in CdCmds}
Entry == [command : Texts, val : 1 .. MaxTotal]

\* The history as print_history shows it: pairs[0 .. count-1].
Displayed == [i \in 1 .. count |-> pairs[i - 1]]

\* atoi: the value of the leading digits (ulib.c).
Atoi(ds) == FoldLeft(LAMBDA n, d : n * 10 + d, 0, ds)

\* The first word of a command: search_by_cmd cuts its copy at ' '.
FirstWord(c) ==
  LET sp == SelectInSeq(c, LAMBDA ch : ch = " ")
  IN IF sp = 0 THEN c ELSE SubSeq(c, 1, sp - 1)

\* Running a command succeeds or fails; junk text never execs.
Outcomes(c) == IF c = Junk THEN {FALSE} ELSE BOOLEAN

init_history ==
  /\ count = 0
  /\ total_count = 1

Init ==
  /\ pairs = [i \in Slots |-> Uninit]
  /\ init_history
  /\ argbuf = <<>>
  /\ executed = <<>>
  /\ crashed = FALSE
  /\ exited = FALSE
  /\ last = [op |-> "none", arg |-> <<>>, ran |-> None]

(* Seeded fault: the shift loop stops one slot early (i < 98).           *)
ShiftOldestShort(p) == [i \in Slots |-> IF i < HIST_CAP - 2 THEN p[i + 1] ELSE p[i]]

\* The shift done when the history is full: pairs[i] = pairs[i+1], i < 99.
ShiftOldest(p) == [i \in Slots |-> IF i < HIST_CAP - 1 THEN p[i + 1] ELSE p[i]]

(* Seeded fault: no cap, count grows with every command.                 *)
add_history_uncapped(p, c) ==
  /\ count' = count + 1
  /\ pairs' = [p EXCEPT ![count] = [command |-> c, val |-> total_count]]
  /\ total_count' = total_count + 1
  /\ executed' = Append(executed, c)

\* add_history for a valid command c (every text is valid), on the pairs p.
add_history(p, c) ==
  LET full == count = HIST_CAP
      n == IF full THEN count ELSE count + 1
  IN /\ count' = n
     /\ pairs' = [(IF full THEN ShiftOldest(p) ELSE p)
                    EXCEPT ![n - 1] = [command |-> c, val |-> total_count]]
     /\ total_count' = total_count + 1
     /\ executed' = Append(executed, c)

\* main: after choose_cmd ran c (leaving the pairs p), record c if
\* exit_status is still 0.
Record(p, c, ok) ==
  IF ok THEN add_history(p, c)
        ELSE pairs' = p /\ UNCHANGED <<count, total_count, executed>>

\* check_built_in: a line starting "cd " is a cd, before the '\n' is cut.
IsCd(t) == Len(t) >= 3 /\ t[1] = "c" /\ t[2] = "d" /\ t[3] = " "

\* change_directory at the prompt: buf[strlen(buf)-1] = '\0'.
Chop(t) == SubSeq(t, 1, Len(t) - 1)

\* Every line is read only while the shell runs.
Prompting == ~crashed /\ ~exited /\ total_count < MaxTotal

\* A program line: run_program forks, parses and execs it.
RunProgram(c) ==
  /\ Prompting
  /\ \E ok \in Outcomes(c) : Record(pairs, c, ok)
  /\ last' = [op |-> "run", arg |-> c, ran |-> c]
  /\ UNCHANGED <<argbuf, crashed, exited>>

\* "cd <dir>\n" typed: change_directory cuts the '\n'; chdir may fail,
\* which sets exit_status = 1.
TypedCd(c) ==
  /\ Prompting
  /\ \E ok \in BOOLEAN : Record(pairs, c, ok)
  /\ last' = [op |-> "cd", arg |-> c, ran |-> c]
  /\ UNCHANGED <<argbuf, crashed, exited>>

(***************************************************************************)
(* choose_cmd(found_cmd) on the text stored in slot j: a cd line goes to   *)
(* change_directory, which cuts the last byte off that stored text in      *)
(* place (it expects the typed '\n'); anything else runs as a program.    *)
(* strcpy(buf, found_cmd) then hands main the text as it now is.           *)
(***************************************************************************)
Recalled(j) ==
  IF IsCd(pairs[j].command) THEN Chop(pairs[j].command) ELSE pairs[j].command

RunStored(j) ==
  \E ok \in Outcomes(Recalled(j)) :
    Record([pairs EXCEPT ![j].command = Recalled(j)], Recalled(j), ok)

\* What reading pairs[i].command yields: the stored text, or, for a slot
\* never written or past the array, whatever the stack holds there.
ReadSlot(i) ==
  IF i \in Slots /\ pairs[i] # Uninit THEN {pairs[i].command} ELSE {Junk, Fault}

\* `!!`: repeat_history runs pairs[total_count - 1] and copies it to buf.
repeat_history ==
  /\ Prompting
  /\ \E prev \in ReadSlot(total_count - 1) :
       CASE prev = Fault ->
              /\ crashed' = TRUE
              /\ last' = [op |-> "repeat", arg |-> <<>>, ran |-> Fault]
              /\ UNCHANGED <<pairs, count, total_count, executed>>
         [] prev = Junk ->
              /\ \E ok \in Outcomes(Junk) : Record(pairs, Junk, ok)
              /\ last' = [op |-> "repeat", arg |-> <<>>, ran |-> Junk]
              /\ UNCHANGED crashed
         [] OTHER ->
              /\ RunStored(total_count - 1)
              /\ last' = [op |-> "repeat", arg |-> <<>>, ran |-> Recalled(total_count - 1)]
              /\ UNCHANGED crashed
  /\ UNCHANGED <<argbuf, exited>>

\* The digits atoi reads from arg_nums: the typed digits, then, because
\* no terminator is written, what an earlier call left after them unless
\* another call's frame has overwritten it with a non-digit.
ArgNums(ds, stale) ==
  IF stale THEN ds \o SubSeq(argbuf, Len(ds) + 1, Len(argbuf)) ELSE ds

\* The index of the last entry with the given number, 0 if none.
LastWithVal(v) == SelectLastInSeq(Displayed, LAMBDA e : e.val = v)

\* `!<digits>`: search_by_num runs the last entry whose number matches.
search_by_num(ds) ==
  /\ Prompting
  /\ \E stale \in BOOLEAN :
       LET read == ArgNums(ds, stale)
           k == LastWithVal(Atoi(read))
       IN /\ argbuf' = read
          /\ IF k = 0
               THEN /\ UNCHANGED <<pairs, count, total_count, executed>>
                    /\ last' = [op |-> "num", arg |-> ds, ran |-> None]
               ELSE /\ RunStored(k - 1)
                    /\ last' = [op |-> "num", arg |-> ds, ran |-> Recalled(k - 1)]
  /\ UNCHANGED <<crashed, exited>>

(* Seeded fault: the scan stops at the first match.                      *)
FirstWithPrefix(p) ==
  SelectInSeq(Displayed, LAMBDA e : IsPrefix(p, FirstWord(e.command)))

\* The index of the last entry whose first word starts with the prefix.
LastWithPrefix(p) ==
  SelectLastInSeq(Displayed, LAMBDA e : IsPrefix(p, FirstWord(e.command)))

\* `!<word>`: search_by_cmd runs the last entry the word is a prefix of.
search_by_cmd(p) ==
  /\ Prompting
  /\ LET k == LastWithPrefix(p)
     IN IF k = 0
          THEN /\ UNCHANGED <<pairs, count, total_count, executed>>
               /\ last' = [op |-> "cmd", arg |-> p, ran |-> None]
          ELSE /\ RunStored(k - 1)
               /\ last' = [op |-> "cmd", arg |-> p, ran |-> Recalled(k - 1)]
  /\ UNCHANGED <<argbuf, crashed, exited>>

\* `exit`: choose_cmd calls exit(0).
Exit ==
  /\ Prompting
  /\ exited' = TRUE
  /\ last' = [op |-> "exit", arg |-> <<>>, ran |-> None]
  /\ UNCHANGED <<pairs, count, total_count, argbuf, executed, crashed>>

Next ==
  \/ \E c \in Cmds : RunProgram(c)
  \/ repeat_history
  \/ \E ds \in Nums : search_by_num(ds)
  \/ \E p \in Words : search_by_cmd(p)
  \/ Exit

Spec == Init /\ [][Next]_vars

\* The same shell with cd lines typed as well.
NextCd == Next \/ \E c \in CdCmds : TypedCd(c)

SpecCd == Init /\ [][NextCd]_vars

-----------------------------------------------------------------------------
\* Every variable holds a value of its intended kind.
TypeOK ==
  /\ pairs \in [Slots -> Entry \cup {Uninit}]
  /\ count \in 0 .. HIST_CAP
  /\ total_count \in 1 .. MaxTotal
  /\ argbuf \in Seq(0 .. 9)
  /\ executed \in Seq(Texts)
  /\ crashed \in BOOLEAN /\ exited \in BOOLEAN

\* The history print_history shows is the log HistoryLog describes: the
\* pairs array implements a log of the last HIST_CAP commands that ran and
\* succeeded, oldest first and numbered in order.  Every line either adds
\* exactly the command it ran as the newest entry, numbered total_count,
\* dropping the oldest only at the cap, or leaves the history as it was:
\* the shift of pairs at the cap never loses, duplicates or renumbers one.
Log == INSTANCE HistoryLog
         WITH CAP <- HIST_CAP, Commands <- Texts,
              log <- Displayed, next <- total_count, ran <- last.ran

HistoryRefinesLog == Log!Spec

\* `!<word>` runs the most recently executed command, among the ones the
\* history still holds, whose first word starts with the word, and runs
\* nothing when none of them does.
SearchByCmdRunsLatestMatch ==
  [][last'.op = "cmd" =>
       LET m == Len(executed)
           hits == {i \in m - count + 1 .. m :
                      IsPrefix(last'.arg, FirstWord(executed[i]))}
       IN IF hits = {} THEN last'.ran = None
                       ELSE last'.ran = executed[Max(hits)]]_vars

(***************************************************************************)
(* A history builtin that names an entry print_history shows runs that     *)
(* entry: `!!` names the last one, and `!<n>` the one numbered n.  This is  *)
(* what repeat_history and search_by_num each promise, whatever lines came *)
(* before (a `!n` whose digits outlive the call, a cap that shifted the    *)
(* pairs).                                                                 *)
(***************************************************************************)
Names(l, i) ==
  \/ l.op = "repeat" /\ i = count
  \/ l.op = "num" /\ Displayed[i].val = Atoi(l.arg)

BuiltinRunsNamedEntry ==
  [][\A i \in 1 .. count : Names(last', i) => last'.ran = Displayed[i].command]_vars
=============================================================================
