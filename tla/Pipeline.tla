----------------------------- MODULE Pipeline -----------------------------
(***************************************************************************)
(* The processes and file descriptors of one boogsh pipeline: the child   *)
(* that run_program forks runs parse_and_run_cmd and execute_pipeline      *)
(* (user/boogsh.c), and the shell waits for it.                            *)
(*                                                                         *)
(* Process N is that child (C0).  For each stage k < N, execute_pipeline   *)
(* makes pipe k, forks process k to exec stage k with its stdout on the    *)
(* pipe, moves the pipe's read end to its own stdin and recurses; at the   *)
(* last stage it applies the redirects and execs stage N itself.  Every   *)
(* system call that changes a file table is translated by what the xv6     *)
(* kernel does: open, pipe and dup take the lowest free descriptor, and a  *)
(* pipe end stays open while any descriptor of any process refers to it.   *)
(*                                                                         *)
(* The programs are abstract: stage 1 writes Items items to stdout, and    *)
(* every later stage copies stdin to stdout until end of file.  Each       *)
(* exits with status 0 or 1.                                               *)
(***************************************************************************)
EXTENDS Integers, FiniteSets, FiniteSetsExt

CONSTANTS
  N,           \* stages in the command line
  NOFILE,      \* descriptors per process (xv6 param.h)
  PIPESIZE,    \* bytes a pipe buffers before a writer sleeps
  Items,       \* what stage 1 writes
  Redirs       \* the redirects the typed line may give its last stage:
               \* [out |-> a `> file`, in |-> a `< file`]

ASSUME /\ N \in Nat \ {0} /\ PIPESIZE \in Nat \ {0} /\ Items \in Nat
       /\ NOFILE >= N + 4
       /\ Redirs \subseteq [out : BOOLEAN, in : BOOLEAN] /\ Redirs # {}

Stages == 1 .. N
C0 == N
Pipes == 1 .. N - 1
FDS == 0 .. NOFILE - 1

\* What a descriptor refers to: the console, the redirect files, an end of
\* pipe i, or nothing.
Obj(kind, i) == [kind |-> kind, pipe |-> i]
TTY == Obj("tty", 0)
FIN == Obj("fin", 0)
FOUT == Obj("fout", 0)
NoFile == Obj("none", 0)
R(i) == Obj("r", i)
W(i) == Obj("w", i)

VARIABLES
  fds,     \* process -> descriptor -> object
  pc,      \* process -> where it is
  cur,     \* the stage C0's execute_pipeline is at (cmd - cmds + 1)
  pfd,     \* process -> <<fd[0], fd[1]>> of the pipe(fd) it saw
  buf,     \* pipe -> bytes buffered
  held,    \* process -> a byte read and not yet written (0 or 1)
  sent,    \* bytes stage 1 has written
  status,  \* process -> exit status, Running while it runs
  execd,   \* process -> its exec succeeded
  waits,   \* wait(0) calls left in C0's unwinding frames
  shell,   \* the status the shell's wait returned, Running while waiting
  redir    \* the last stage's redirects (stdout_file, stdin_file)

vars == <<fds, pc, cur, pfd, buf, held, sent, status, execd, waits, shell, redir>>

\* No exit status yet: exit statuses are -1 (killed), 0 and 1.
Running == -2

Std == [f \in FDS |-> IF f < 3 THEN TTY ELSE NoFile]
Closed == [f \in FDS |-> NoFile]

Init ==
  /\ fds = [k \in Stages |-> IF k = C0 THEN Std ELSE Closed]
  /\ pc = [k \in Stages |-> IF k = C0 THEN "start" ELSE "unborn"]
  /\ cur = 1
  /\ pfd = [k \in Stages |-> <<0, 0>>]
  /\ buf = [i \in Pipes |-> 0]
  /\ held = [k \in Stages |-> 0]
  /\ sent = 0
  /\ status = [k \in Stages |-> Running]
  /\ execd = [k \in Stages |-> FALSE]
  /\ waits = 0
  /\ shell = Running
  /\ redir \in Redirs

-----------------------------------------------------------------------------
(* The kernel's descriptor operations.                                      *)
LowestFree(t) == Min({f \in FDS : t[f] = NoFile})
close(t, fd) == [t EXCEPT ![fd] = NoFile]
dup(t, fd) == [t EXCEPT ![LowestFree(t)] = t[fd]]
open(t, o) == [t EXCEPT ![LowestFree(t)] = o]

\* A pipe end is open while some process has a descriptor on it.
Holders(o) == {k \in Stages : \E f \in FDS : fds[k][f] = o}
IsOpen(o) == Holders(o) # {}

\* exit(s): the kernel closes every descriptor; the process is a zombie.
Exit(k, s) ==
  /\ fds' = [fds EXCEPT ![k] = Closed]
  /\ status' = [status EXCEPT ![k] = s]
  /\ pc' = [pc EXCEPT ![k] = "zombie"]

-----------------------------------------------------------------------------
(* execute_pipeline with stdout_pipe set: pipe(fd), then pork(): the child  *)
(* gets a copy of C0's table, pipe ends included.                           *)
PipeFork ==
  /\ pc[C0] = "start" /\ cur < N
  /\ LET r == LowestFree(fds[C0])
         t1 == [fds[C0] EXCEPT ![r] = R(cur)]
         w == LowestFree(t1)
         t2 == [t1 EXCEPT ![w] = W(cur)]
     IN /\ fds' = [fds EXCEPT ![C0] = t2, ![cur] = t2]
        /\ pfd' = [pfd EXCEPT ![C0] = <<r, w>>, ![cur] = <<r, w>>]
  /\ pc' = [pc EXCEPT ![C0] = "parent", ![cur] = "child"]
  /\ UNCHANGED <<cur, buf, held, sent, status, execd, waits, shell, redir>>

(* Seeded fault: the parent keeps the write end (no close(fd[1])).        *)
ParentPlumbKeepsW(t, r, w) == dup(close(t, 0), r)

(* Parent side: close(fd[1]); close(0); dup(fd[0]).                          *)
ParentPlumb(t, r, w) == dup(close(close(t, w), 0), r)

(* The parent then recurses: execute_pipeline(cmd + 1).                     *)
ParentSide ==
  /\ pc[C0] = "parent"
  /\ fds' = [fds EXCEPT ![C0] = ParentPlumb(@, pfd[C0][1], pfd[C0][2])]
  /\ cur' = cur + 1
  /\ pc' = [pc EXCEPT ![C0] = "start"]
  /\ UNCHANGED <<pfd, buf, held, sent, status, execd, waits, shell, redir>>

(* Seeded fault: dup(fd[1]) before close(1).                              *)
ChildPlumbDupFirst(t, r, w) == close(dup(close(t, r), w), 1)

(* Child side: close(fd[0]); close(1); dup(fd[1]).  fd[1] itself stays open. *)
ChildPlumb(t, r, w) == dup(close(close(t, r), 1), w)

ChildSide(k) ==
  /\ pc[k] = "child"
  /\ fds' = [fds EXCEPT ![k] = ChildPlumb(@, pfd[k][1], pfd[k][2])]
  /\ pc' = [pc EXCEPT ![k] = "exec"]
  /\ UNCHANGED <<cur, pfd, buf, held, sent, status, execd, waits, shell, redir>>

(* The child's exec: the program starts, or "failed to exec" and exit(1).    *)
ChildExec(k) ==
  /\ pc[k] = "exec"
  /\ \/ /\ execd' = [execd EXCEPT ![k] = TRUE]
        /\ pc' = [pc EXCEPT ![k] = "run"]
        /\ UNCHANGED <<fds, status, redir>>
     \/ /\ Exit(k, 1)
        /\ UNCHANGED execd
  /\ UNCHANGED <<cur, pfd, buf, held, sent, waits, shell, redir>>

(* Seeded fault: the close(std) before dup(fd) left out.                 *)
RedirectNoClose(t, std, o) ==
  LET fd == LowestFree(t) IN close(dup(open(t, o), fd), fd)

(* A redirect: open the file (lowest free descriptor), close(std), dup(fd),  *)
(* close(fd).                                                                *)
Redirect(t, std, o) ==
  LET fd == LowestFree(t) IN close(dup(close(open(t, o), std), fd), fd)

RedirOut(t) == IF redir.out THEN Redirect(t, 1, FOUT) ELSE t
RedirIn(t) == IF redir.in THEN Redirect(t, 0, FIN) ELSE t

(* Seeded fault: a wait for the base case's own frame too.                *)
UnwindFramesAll == N

(* The frames a failed exec unwinds through, each ending in wait(0).       *)
UnwindFrames == N - 1

(***************************************************************************)
(* The base case of execute_pipeline, in C0: the stdout redirect, then the *)
(* stdin redirect (an open that fails panics: exit(1)), then exec.  A      *)
(* failed exec returns 1.  With one stage, parse_and_run_cmd then exit(1)s; *)
(* otherwise the 1 is returned into the frame of stage N-1, and each of    *)
(* the N-1 enclosing frames calls wait(0) and returns 0.                   *)
(***************************************************************************)
BaseCase ==
  /\ pc[C0] = "start" /\ cur = N
  /\ \E opened \in (IF redir.out \/ redir.in THEN BOOLEAN ELSE {TRUE}),
        ok \in BOOLEAN :
       IF ~opened
         THEN Exit(C0, 1) /\ UNCHANGED <<execd, waits, redir>>
         ELSE IF ~ok /\ N = 1
         THEN Exit(C0, 1) /\ UNCHANGED <<execd, waits, redir>>
         ELSE /\ fds' = [fds EXCEPT ![C0] = RedirIn(RedirOut(@))]
              /\ IF ok
                   THEN /\ execd' = [execd EXCEPT ![C0] = TRUE]
                        /\ pc' = [pc EXCEPT ![C0] = "run"]
                        /\ UNCHANGED waits
                   ELSE /\ pc' = [pc EXCEPT ![C0] = "unwind"]
                        /\ waits' = UnwindFrames
                        /\ UNCHANGED execd
              /\ UNCHANGED status
  /\ UNCHANGED <<cur, pfd, buf, held, sent, shell, redir>>

\* The children of C0 that have not been reaped.
Kids == {k \in Pipes : pc[k] \notin {"unborn", "reaped"}}

(* wait(0) in an unwinding frame: reap a zombie child, or sleep.  (It      *)
(* would return -1 with no child left, but C0 forked one child per frame,  *)
(* so each of the N-1 waits finds one.)                                     *)
UnwindWait ==
  /\ pc[C0] = "unwind" /\ waits > 0
  /\ \E k \in Kids : /\ pc[k] = "zombie"
                     /\ pc' = [pc EXCEPT ![k] = "reaped"]
  /\ waits' = waits - 1
  /\ UNCHANGED <<fds, cur, pfd, buf, held, sent, status, execd, shell, redir>>

(* The outermost frame returned 0: parse_and_run_cmd exit(0)s.              *)
UnwindExit ==
  /\ pc[C0] = "unwind" /\ waits = 0
  /\ Exit(C0, 0)
  /\ UNCHANGED <<cur, pfd, buf, held, sent, execd, waits, shell, redir>>

-----------------------------------------------------------------------------
(* write(1, ...) of one byte by process k: to the console or a file it     *)
(* succeeds; to a pipe it fails when no read end is open (pipewrite), and  *)
(* sleeps (is not enabled) while the buffer is full.                       *)
WriteFails(k) == LET o == fds[k][1] IN
  o.kind = "none" \/ (o.kind = "w" /\ ~IsOpen(R(o.pipe)))
CanWrite(k) == LET o == fds[k][1] IN
  IF o.kind = "w" THEN ~IsOpen(R(o.pipe)) \/ buf[o.pipe] < PIPESIZE ELSE TRUE
Put(k) == LET o == fds[k][1] IN
  IF o.kind = "w" THEN [buf EXCEPT ![o.pipe] = @ + 1] ELSE buf

(* Stage 1 writes its next byte; a failed write makes it exit(1).           *)
Produce ==
  /\ pc[1] = "run" /\ sent < Items /\ CanWrite(1)
  /\ IF WriteFails(1)
       THEN Exit(1, 1) /\ UNCHANGED <<buf, sent, redir>>
       ELSE buf' = Put(1) /\ sent' = sent + 1 /\ UNCHANGED <<fds, pc, status, redir>>
  /\ UNCHANGED <<cur, pfd, held, execd, waits, shell, redir>>

(* Stage 1 has written everything and exits.                               *)
ProduceDone ==
  /\ pc[1] = "run" /\ sent = Items
  /\ \E s \in {0, 1} : Exit(1, s)
  /\ UNCHANGED <<cur, pfd, buf, held, sent, execd, waits, shell, redir>>

(* A later stage reads a byte of its stdin pipe (piperead).                 *)
FilterRead(k) ==
  LET o == fds[k][0] IN
  /\ k > 1 /\ pc[k] = "run" /\ held[k] = 0
  /\ o.kind = "r" /\ buf[o.pipe] > 0
  /\ buf' = [buf EXCEPT ![o.pipe] = @ - 1]
  /\ held' = [held EXCEPT ![k] = 1]
  /\ UNCHANGED <<fds, pc, cur, pfd, sent, status, execd, waits, shell, redir>>

(* read returns 0: the pipe is empty and no write end is open, or stdin is  *)
(* a file (empty here) or closed.  The stage exits.                         *)
FilterEOF(k) ==
  LET o == fds[k][0] IN
  /\ k > 1 /\ pc[k] = "run" /\ held[k] = 0
  /\ \/ o.kind = "r" /\ buf[o.pipe] = 0 /\ ~IsOpen(W(o.pipe))
     \/ o.kind # "r"
  /\ \E s \in {0, 1} : Exit(k, s)
  /\ UNCHANGED <<cur, pfd, buf, held, sent, execd, waits, shell, redir>>

(* A later stage writes the byte it holds.                                  *)
FilterWrite(k) ==
  /\ k > 1 /\ pc[k] = "run" /\ held[k] = 1 /\ CanWrite(k)
  /\ IF WriteFails(k)
       THEN Exit(k, 1) /\ UNCHANGED <<buf, held, redir>>
       ELSE /\ buf' = Put(k) /\ held' = [held EXCEPT ![k] = 0]
            /\ UNCHANGED <<fds, pc, status, redir>>
  /\ UNCHANGED <<cur, pfd, sent, execd, waits, shell, redir>>

(* run_program: `while (wait(&status) != pid)`; C0 is the shell's only child. *)
ShellWait ==
  /\ shell = Running /\ pc[C0] = "zombie"
  /\ shell' = status[C0]
  /\ pc' = [pc EXCEPT ![C0] = "reaped"]
  /\ UNCHANGED <<fds, cur, pfd, buf, held, sent, status, execd, waits, redir>>

\* Every step process k can take.
Proc(k) ==
  \/ k = C0 /\ (PipeFork \/ ParentSide \/ BaseCase \/ UnwindWait \/ UnwindExit)
  \/ ChildSide(k) \/ ChildExec(k)
  \/ k = 1 /\ (Produce \/ ProduceDone)
  \/ FilterRead(k) \/ FilterEOF(k) \/ FilterWrite(k)

\* Every process has exited and the shell has its status.
Done ==
  /\ shell # Running
  /\ \A k \in Stages : pc[k] \in {"unborn", "zombie", "reaped"}
  /\ UNCHANGED vars

Next == (\E k \in Stages : Proc(k)) \/ ShellWait \/ Done

(* xv6's scheduler runs every runnable process, and a sleeping one is      *)
(* woken when its condition holds: weak fairness for each process.          *)
Fairness == (\A k \in Stages : WF_vars(Proc(k))) /\ WF_vars(ShellWait)

Spec == Init /\ [][Next]_vars /\ Fairness

-----------------------------------------------------------------------------
TypeOK ==
  /\ fds \in [Stages -> [FDS -> {TTY, FIN, FOUT, NoFile} \cup
                                 {R(i) : i \in Pipes} \cup {W(i) : i \in Pipes}]]
  /\ pc \in [Stages -> {"unborn", "start", "parent", "child", "exec", "run",
                        "unwind", "stray", "zombie", "reaped"}]
  /\ cur \in Stages
  /\ buf \in [Pipes -> 0 .. PIPESIZE]
  /\ held \in [Stages -> 0 .. 1] /\ sent \in 0 .. Items
  /\ status \in [Stages -> {Running, -1, 0, 1}] /\ shell \in {Running, -1, 0, 1}
  /\ waits \in 0 .. N - 1
  /\ redir \in Redirs

\* Where stage k's stdin and stdout should lead: the previous and the next
\* pipe, the console at the two ends, and the redirect files of the last
\* stage in place of those.
StdinOf(k) ==
  IF k = N /\ redir.in THEN FIN ELSE IF k = 1 THEN TTY ELSE R(k - 1)
StdoutOf(k) ==
  IF k < N THEN W(k) ELSE IF redir.out THEN FOUT ELSE TTY

(***************************************************************************)
(* Every stage that exec'd runs with stdin, stdout and stderr on the right *)
(* objects: the close/dup sequences of both sides of the fork and of the   *)
(* redirects, with the kernel's lowest-descriptor rule, land each end on   *)
(* descriptor 0 or 1 as intended.                                          *)
(***************************************************************************)
StagesPlumbed ==
  \A k \in Stages :
    pc[k] = "run" =>
      /\ fds[k][0] = StdinOf(k) /\ fds[k][1] = StdoutOf(k) /\ fds[k][2] = TTY

(***************************************************************************)
(* Once the last stage has exec'd, the shell eventually gets the           *)
(* pipeline's status back from run_program's wait: every stage reaches end *)
(* of file or a failed write and exits, whatever the others do.            *)
(***************************************************************************)
ShellResumesAfterExec == [](execd[C0] => <>(shell # Running))

(* The shell always gets the pipeline's status back.                        *)
ShellResumes == <>(shell # Running)
=============================================================================
