---------------------------- MODULE LeetPipeline ----------------------------
(***************************************************************************)
(* The pipeline of user/leetify.c, the lab's scaffolding for the same job  *)
(* as boogsh's execute_pipeline: main forks a child (C0, process N) that   *)
(* runs execute_pipeline(cmds) and waits for it once.                      *)
(*                                                                         *)
(* Its plumbing is boogsh's, line for line: pipe and fork, close(fd[1]),   *)
(* close(0), dup(fd[0]) in the parent, close(fd[0]), close(1), dup(fd[1])  *)
(* in the child, the stdout redirect of the last stage, so those actions   *)
(* and the stage programs are taken from Pipeline.  It differs where an    *)
(* exec fails and in waiting: a stage child whose exec fails returns up    *)
(* the recursion into main and exits 0; when the last stage's exec fails,  *)
(* C0 falls through into the pipe-and-fork code with the last command and  *)
(* then recurses past the end of cmds; and C0 never waits for a stage.    *)
(* The last command has no stdin redirect.                                 *)
(*                                                                         *)
(* impl selects which of the two programs a behaviour runs, so that one   *)
(* model checks both against the same properties.                          *)
(***************************************************************************)
EXTENDS Pipeline

VARIABLE impl   \* "boogsh" or "leetify"

labvars == <<vars, impl>>

(* A child's exec: the program starts, or "failed to exec %s in rec case",  *)
(* and the child returns through every frame of execute_pipeline into      *)
(* main, whose `return 0` exits with status 0.                             *)
LeetChildExec(k) ==
  /\ pc[k] = "exec"
  /\ \/ /\ execd' = [execd EXCEPT ![k] = TRUE]
        /\ pc' = [pc EXCEPT ![k] = "run"]
        /\ UNCHANGED <<fds, status>>
     \/ /\ Exit(k, 0)
        /\ UNCHANGED execd
  /\ UNCHANGED <<cur, pfd, buf, held, sent, waits, shell, redir>>

(* Seeded fault: C0 unwinds and waits for its children as boogsh does.   *)
LeetExecFailedWaits ==
  /\ pc' = [pc EXCEPT ![C0] = "unwind"]
  /\ waits' = UnwindFrames

(* After "failed to exec %s in base case" C0 goes on past the if.          *)
LeetExecFailed ==
  /\ pc' = [pc EXCEPT ![C0] = "stray"]
  /\ UNCHANGED waits

(***************************************************************************)
(* The base case in C0: with an output file, open it (failure: exit(1)),   *)
(* close(1), dup(fd), close(fd); then exec the last command.               *)
(***************************************************************************)
LeetBaseCase ==
  /\ pc[C0] = "start" /\ cur = N
  /\ \E opened \in (IF redir.out THEN BOOLEAN ELSE {TRUE}), ok \in BOOLEAN :
       IF ~opened
         THEN Exit(C0, 1) /\ UNCHANGED <<execd, waits>>
         ELSE /\ fds' = [fds EXCEPT ![C0] = RedirOut(@)]
              /\ IF ok
                   THEN /\ execd' = [execd EXCEPT ![C0] = TRUE]
                        /\ pc' = [pc EXCEPT ![C0] = "run"]
                        /\ UNCHANGED waits
                   ELSE LeetExecFailed /\ UNCHANGED execd
              /\ UNCHANGED status
  /\ UNCHANGED <<cur, pfd, buf, held, sent, shell, redir>>

(***************************************************************************)
(* C0 after the failed base case: pipe(fd) and fork of the last command    *)
(* again (that child's exec fails the same way; it writes nothing and      *)
(* exits 0, holding only the read end C0 had), then execute_pipeline(cmd   *)
(* + 1) reads the struct past the end of cmds.  That is undefined: the     *)
(* build recurses on whatever the stack holds until a fork or an open      *)
(* fails (exit(1)), a garbage exec fails and the frames return into main   *)
(* (exit 0), or a load from a garbage pointer faults and the kernel kills  *)
(* C0 (exit(-1)).  The extra child is left out: it only delays.            *)
(***************************************************************************)
LeetStray ==
  /\ pc[C0] = "stray"
  /\ \E s \in {-1, 0, 1} : Exit(C0, s)
  /\ UNCHANGED <<cur, pfd, buf, held, sent, execd, waits, shell, redir>>

\* Every step process k can take in leetify: C0 has no unwinding waits.
LeetProc(k) ==
  \/ k = C0 /\ (PipeFork \/ ParentSide \/ LeetBaseCase \/ LeetStray)
  \/ ChildSide(k) \/ LeetChildExec(k)
  \/ k = 1 /\ (Produce \/ ProduceDone)
  \/ FilterRead(k) \/ FilterEOF(k) \/ FilterWrite(k)

(* main's wait(&status) returns when C0, its only child, exits: ShellWait. *)
LeetNext == (\E k \in Stages : LeetProc(k)) \/ ShellWait \/ Done

\* Either program, on a command line it can be given.
LabInit ==
  /\ Init
  /\ impl \in {"boogsh", "leetify"}
  /\ impl = "leetify" => ~redir.in

LabNext ==
  \/ impl = "boogsh" /\ Next /\ UNCHANGED impl
  \/ impl = "leetify" /\ LeetNext /\ UNCHANGED impl

(* The scheduler runs every runnable process of the program being run.    *)
LabFairness ==
  /\ \A k \in Stages : /\ WF_labvars(impl = "boogsh" /\ Proc(k) /\ UNCHANGED impl)
                       /\ WF_labvars(impl = "leetify" /\ LeetProc(k) /\ UNCHANGED impl)
  /\ WF_labvars(ShellWait /\ UNCHANGED impl)

LabSpec == LabInit /\ [][LabNext]_labvars /\ LabFairness

-----------------------------------------------------------------------------
\* main has its status and no stage process is left running.
Finished ==
  /\ shell # Running
  /\ \A k \in Stages : pc[k] \in {"unborn", "zombie", "reaped"}

(***************************************************************************)
(* leetify always finishes, whichever exec fails: main's wait returns and  *)
(* every stage exits.  C0 never waits, and the read ends the parent side   *)
(* leaves open (fd[0] is never closed) and passes to later stages only     *)
(* keep a writer blocked until the last stage exits.  (boogsh's C0 waits   *)
(* with a read end open and can hang: run pipeline_hang.)                  *)
(***************************************************************************)
LeetifyFinishes == impl = "leetify" => <>Finished
=============================================================================
