# TLA+ models of the xv6 boogsh shell and its user-space allocator

This directory holds TLA+ models of the user-space programs in `src/RISCV xv6/`. Each module is translated from the C source. The `.cfg` files are the TLC runs, and `PROJECT.json` lists the components, runs, seeded faults, the source lines each definition models, the findings and the hazards.

## 1. The system

| Part | Source | State | Operations |
|---|---|---|---|
| Allocator | `user/umalloc.c` | block list, free list, a size field with a free bit per header, the fit strategy `fsm`, and the process break | `malloc`, `free`, `malloc_setfsm`. Helpers: `first_fit`/`best_fit`/`worst_fit`, `check_can_split`, `split`, `insert_split`, `add_block`, `add_free`, `remove_free` |
| Arena growth | `kernel/sysproc.c` `sys_sbrk` | `p->sz` | `sbrk(n)`, which returns the old break or -1 |
| Shell history | `user/boogsh.c` | `struct history`: 128 `pairs`, `count` (at most 100) and `total_count` | `init_history`, `add_history`, `print_history`, `repeat_history` (`!!`), `search_by_num` (`!n`), `search_by_cmd` (`!word`) |
| Shell dispatch | `user/boogsh.c` | `exit_status`, `cmd_num` | `main`'s loop, `check_built_in`, `choose_cmd`, `run_program` |
| Scripting mode | `user/boogsh.c` | `main`'s `line`, `max`, `buf`, `read_first_script_line`; the script's file offset | `main`'s `getline` loop, `check_comment` |
| Parsing | `user/boogsh.c` | the `cmds` array of `struct command`, each with its `tokens` array and redirect fields | `parse_and_run_cmd` |
| Pipelines | `user/boogsh.c` | the processes and file descriptors of a pipeline | `execute_pipeline` (pipe, fork, dup, exec, wait) |
| leetify | `user/leetify.c` | the same processes and descriptors | `main` (fork, one `wait`) and its own `execute_pipeline` |
| Line input and tokens | `user/ulib.c` | the caller's buffer | `next_token`, `strspn`, `strcspn`, `gets`, `fgets`, `getline` (doubles the buffer), `atoi`, `memmove`/`memcpy` |
| catlines | `user/catlines.c` | `better_fgets`'s static `buffer`, `buffer_pos`, `buffer_size`; the line buffer | `better_fgets` (refill, take a byte, double the line), `main`'s print loop |
| Demos | `user/*.c` (others) | their own | stand-alone test programs |

**How the parts interact.**
- The shell reads a line: at the prompt with `gets`, or, given a script file, with `getline`. In a script it skips the first line, removes each line's last byte, copies the line into `buf` and cuts it at `#`.
- `check_built_in` classifies the line.
- `choose_cmd` runs it. A history builtin resolves to a stored command and runs that command recursively through `choose_cmd`.
- A program is forked by `run_program`. The child splits the line at `|` and at spaces with `next_token`, then `execute_pipeline` builds the pipeline.
- When `exit_status` is still 0, `main` records the line with `add_history`.
- Every string and array the shell keeps comes from `malloc`.
- The shell is single-threaded. The only concurrency is between the processes of a pipeline.

## 2. Modules

### UMalloc / MCUMalloc (allocator, plus the result of `sys_sbrk`)

The heap is modelled at the level of headers:

| Variable | Models |
|---|---|
| `size` | the size field of every header written (address to value, free flag in bit 0) |
| `blocks` | `block_list_head..tail` |
| `freelist` | `free_list_head..tail` |
| `brk` | `p->sz` |
| `fsm` | the global `fsm` |
| `live` | a bag of the allocations the client holds |
| `crashed` | a fault inside `malloc` |

uint64 arithmetic is kept in two's complement (`UGeq`, `UGt`), so that the wrap of `block_size - total_size_needed` and the `uint` truncation of a wrapped size both reach the state they produce.

`malloc` is one action with five disjuncts, one per path through the code:

| Disjunct | Path |
|---|---|
| `MallocSplit` | reuse by splitting a free block |
| `MallocWhole` | reuse of a whole block |
| `MallocGrowSplit` | `sbrk`, `add_block`, split, then `set_free` and `add_free` |
| `MallocGrowWhole` | `sbrk` and `add_block` without a split |
| `MallocFault` | `sbrk` returned -1, or a wrapped size sent `split` out of the arena |

`free` and `malloc_setfsm` are one action each. The environment is a client that calls `malloc(n)` for `n` in `Requests`, frees any allocation it holds, and calls `malloc_setfsm(c)` for `c` in `FsmChoices`.

### History / MCHistory (the boogsh history and its builtins)

| Variable | Models |
|---|---|
| `pairs` | the whole 128-slot array (`PAIRS_SZ`), with `Uninit` for a slot never written |
| `count`, `total_count` | the struct fields |
| `argbuf` | the digits `search_by_num` leaves in its `arg_nums` stack buffer |
| `executed` | a history variable: every command recorded |
| `last` | the line just handled |

- **One step is one typed line**: a program (which succeeds or fails), `!!`, `!n`, `!word` or `exit`. As in `main`, the command that ran is recorded only if it succeeded.
- **`cd`** (`TypedCd`, in `NextCd` and `SpecCd`): `check_built_in` returns `CD` before it cuts the `'\n'`, and `change_directory` cuts the last byte itself; `chdir` may fail, which sets `exit_status`. A builtin that recalls an entry runs it through `RunStored`: `choose_cmd(found_cmd)` gets the stored text itself, so for a `cd` entry the cut removes a real byte from the entry (`Recalled`). `Texts` are the lines typed plus what is left of a `cd` line after such cuts.
- **Reading a slot never written** is undefined behaviour. The model lets it yield either junk text (which fails to exec) or a fault.
- **`arg_nums` is never terminated.** `atoi` reads the typed digits and then either the digits an earlier call left, or a byte another call's frame has since overwritten.

### HistoryLog (what the history promises)

An abstract specification of the history, with no array. `log` holds the most recent `CAP` commands that ran and succeeded, oldest first, each numbered by its position among all recorded commands ("only storing 100 items in recent history", `add_history`). `next` is the next number, and `ran` is the command the step ran.
- `Remember` adds the command that ran as the newest entry and drops the oldest beyond `CAP`.
- `Keep` leaves the log as it is: a failed command, a search with no match, `exit` or a fault.

`History` implements it. `Log == INSTANCE HistoryLog WITH log <- Displayed, next <- total_count, ran <- last.ran` maps the detailed state to the abstract one, and run `history` checks `Log!Spec` as the property `HistoryRefinesLog`.

### Parse / MCParse (parse_and_run_cmd and next_token)

| Variable | Models |
|---|---|
| `line` | the line `run_program` passed in (fixed) |
| `s`, `tok` | the outer and inner `*str_ptr` of `next_token` (what is left of the line and of the stage, or `NULL`) |
| `cmds`, `cap` | the `cmds` array as a sequence of `struct command` records, and its capacity |
| `found_in`, `found_out` | the per-stage flags |
| `pc` | `outer`, `inner`, `done` (`execute_pipeline` is called), `panic` (a redirect with no file), or `wild` (`cmds[-1]` is written) |

- `next_token` is an operator over `strspn` and `strcspn`. It returns the token and the new `*str_ptr`. The NUL it writes over the delimiter is why the new pointer starts one past it.
- The outer loop is two actions: `NextStage` grows the array at `sz == cap - 1` and starts a stage, and `EndPipeline` clears `stdout_pipe` of `cmds[sz-1]`.
- `NextPart` is one pass of the inner loop: the end of the stage, a redirect without a file, a redirect with its file (`RedirOut`, `RedirIn`, `RedirAppend`), or a word.
- The reference operators `Split`, `Words`, `Args` (RECURSIVE), `LastFile` and `LastIsAppend` say what the line means, written without `next_token`.

### Script / MCScript (scripting mode, composed with Parse)

`Script` EXTENDS `Parse`. It adds `main`'s scripting branch in front of the parse:

| Variable | Models |
|---|---|
| `file`, `off` | the script's bytes and the offset of `fd` |
| `mem`, `max` | the heap buffer `line` points to (`<<>>` while `NULL`, `Garbage` for bytes `malloc` returned unwritten) and `main`'s `max` |
| `total`, `from` | `getline`'s `total_read`, and the offset at the call |
| `started` | `read_first_script_line` |
| `spc` | `prompt` (a line typed at the prompt, Parse's own Init), `read`, `getline`, `line` (getline returned), `parse` (the forked child parses), `end`, or `wild` (`strcpy` overran `buf`) |

- `GetlineBegin` is the call and its first `malloc`. `GetlineStep` is one pass of `getline`'s loop: an `fgets` (which also stops at `'\r'`), then return, or double the buffer (`Grow`: `malloc`, `memcpy`, `free`, new `*n` and `*lineptr`).
- `ScriptLine` is the rest of the pass of `main`'s loop, through to `choose_cmd`:
  - end of script;
  - `line[strlen(line)-1] = '\0'`;
  - the skipped header;
  - `strcpy` into `buf`;
  - `check_comment`;
  - an empty line;
  - the `&` cut.

  A program line starts the parse in the child (`StartParse`), and `ScriptResume` is `run_program`'s `wait` returning; it has no fairness, since the child may hang.
- Script lines are drawn from letters, spaces, `|`, `<`, `>`, `#`, `&` and `'\r'`, so `check_built_in` classifies every one as a program. The builtins are `History`'s.

### CatLines (catlines.c, checked in MCScript)

`catlines` reads a file line by line through `better_fgets`. Its state is a function of the file alone, so the module is written as operators and not as actions:
- a record `[buf, pos, size, off]` stands for the static `buffer`, `buffer_pos`, `buffer_size` and the file offset, and is threaded from one call to the next (`StartState` is their initial values);
- `Pass` is one pass of the `while (1)` loop: a refill with `ReadInto` when `buffer_pos >= buffer_size` (a read of 0 gives `NULL` for an empty line and ends a non-empty one), then `Take`;
- `Take` reads `buffer[buffer_pos++]`, ends the line at a newline, and otherwise doubles the line buffer with `GrowLine` when `line_pos + 1 >= line_size` before storing the byte;
- `LineText` is `line[line_pos] = '\0'` and what `%s` prints;
- `Printed` is `main`'s loop. The reference `FileLines` splits the file at newlines.

A read of less than 0 cannot happen on the open file. A failed `malloc` (`if (!tmp) return NULL`) and a failed `open` are not modelled.

### MemMove (memmove and memcpy, checked in MCScript)

`memcpy` is `memmove`, which `parse_and_run_cmd`, `getline` and `catlines` use to grow their buffers. `CopyUp` and `CopyDown` are its two loops, one level of recursion per byte. `memmove` copies upward when `src > dst` and downward otherwise. The reference `Moved` says what any copy must leave. The memory is 5 bytes, each holding its own address, so a misplaced byte always shows. The copies take every pair of addresses and every count from -1 to 5 that fits.

### Pipeline / MCPipeline (execute_pipeline, its processes and descriptors)

The child that `run_program` forks (called C0 here, process `N`) runs `parse_and_run_cmd` and `execute_pipeline`. For a line of `N` stages:
- C0 makes pipe `k` and forks process `k` for each stage `k < N`.
- Process `k` gets the pipe's write end on fd 1 and execs stage `k`.
- C0 moves the pipe's read end to its own fd 0 and recurses.
- At the last stage C0 applies the redirects and execs stage `N` itself.
- If that exec fails, C0 returns up through its recursion frames, and each frame calls `wait(0)`.

| Variable | Models |
|---|---|
| `fds` | the open-file table of every process (descriptor to console, redirect file, a pipe end, or nothing) |
| `pc` | where each process is |
| `cur` | the stage C0's `execute_pipeline` has reached |
| `pfd` | the `fd[2]` that `pipe(fd)` returned to each process |
| `buf` | the bytes buffered in each pipe |
| `held`, `sent` | a byte a copier has read and not yet written; the bytes stage 1 has written |
| `status`, `execd` | each process's exit status and whether its exec succeeded |
| `waits` | the `wait(0)` calls left in C0's unwinding frames |
| `shell` | the status `run_program`'s `wait` returned |
| `redir` | the last stage's `stdout_file` and `stdin_file`, chosen from `Redirs` and then fixed |

The system calls are translated by what the xv6 kernel does:
- `open`, `pipe` and `dup` take the lowest free descriptor;
- a pipe end stays open while any process holds a descriptor on it;
- a write with no reader fails, and a writer sleeps on a full pipe;
- a read of an empty pipe with no writer returns end of file;
- `exit` closes every descriptor, and `wait` reaps a zombie child.

Each action is one uninterrupted piece of a handler:
- `PipeFork`: `pipe` and `pork`;
- `ParentSide` and `ChildSide`: the two sides' close/dup plumbing, including the recursion into the next stage;
- `ChildExec`: the child's `exec`, or `exit(1)` after a failed exec;
- `BaseCase`: the redirects and the last `exec`;
- `UnwindWait` and `UnwindExit`: the unwinding frames and the `exit` in `parse_and_run_cmd`;
- `ShellWait`: the shell's `wait`.

The exec'd programs are abstract: stage 1 writes `Items` bytes, every later stage copies stdin to stdout until end of file, and each exits 0 or 1.

`Running` (-2) marks a process with no exit status yet and a shell still waiting; the statuses themselves are -1 (killed), 0 and 1.

### LeetPipeline (leetify's execute_pipeline, beside boogsh's)

`user/leetify.c` builds `cat | tolower | fnr | fnr [> file]` with its own `execute_pipeline`. Its plumbing is the same code as boogsh's, so `LeetPipeline` EXTENDS `Pipeline` and reuses `PipeFork`, `ParentSide`, `ChildSide`, the stdout redirect, the stage programs and `ShellWait` (leetify's `main` waits once for C0, its only child). It has its own actions where the code differs:
- `LeetChildExec`: a child whose exec fails does not exit. It returns up every frame into `main`, whose `return 0` exits with status 0.
- `LeetBaseCase`: the stdout redirect (leetify has no stdin redirect) and the last `exec`. If the exec fails, C0 does not return: it goes on past the `if` (`LeetExecFailed`).
- `LeetStray`: what follows is a `pipe`/`fork` of the last command again, then a recursion into `cmd + 1`, past the end of `cmds[4]`. That is undefined, so C0's end is a choice of exit statuses: `exit(1)` when a fork or open fails, 0 when garbage returns into `main`, and -1 when the kernel kills it for a bad load. The extra child of that fork is left out: its exec fails the same way, it writes nothing, and it exits 0. Until then it holds only a read end, which can delay a writer but never block one.
- C0 never waits, so there are no unwinding frames.

`impl` chooses `boogsh` or `leetify` in `LabInit` and never changes. `LabNext` runs that program's `Next` or `LeetNext`, and `LabFairness` gives weak fairness to each process of the program being run. The `pipeline` runs check both programs under the same properties.

## 3. Runs

Most runs use `CHECK_DEADLOCK FALSE` because each program has real stopping points:
- the allocator stops when a fault kills the process;
- the shell stops at `exit` or a fault;
- both also stop at the bounds below;
- a pipeline stops when the shell has its status (`Done` stutters there). The one other stop is the hang that `pipeline_hang` exhibits, which is why that is checked as a liveness property and not as a deadlock.

The two parse runs do check deadlock. A finished parse stutters (`Parsed`), and so do a finished or overrun script (`ScriptOver`). Any other state with no successor would be a parse or a script that got stuck.

| Run | Expect | Checks | What it shows |
|---|---|---|---|
| `umalloc_best_fit` | pass | TypeOK, LiveAllocationsDisjoint, MetadataIntact, FreeListMatchesFlags, BestWorstGrowOnlyWhenNoFit | first fit, then best fit after `malloc_setfsm(1)`, keep payloads disjoint, headers out of reach, and the free list in step with the flags; best fit never grows the arena while a big enough block is free |
| `umalloc_first_worst_fit` | pass | as for best fit | the same with the client switching between first and worst fit, `malloc_setfsm(3)` falling back to first fit |
| `umalloc_tiling` | violation | BlocksTileArena | a split made with the free bit still in the size lands at an odd address, overlapping the next block by a byte (and, at the end of the arena, handing out a byte past the break) |
| `umalloc_size_wrap` | violation | MetadataIntact | `malloc(40)` on a freed 48-byte block wraps the size and writes a header out of order |
| `umalloc_oom` | violation | OutOfMemoryReported | after two whole-page blocks fill the arena, a third `malloc(216)` writes its header at the `-1` that `sbrk` returned and the process faults; spec 4.4 says `malloc` reports the failure |
| `umalloc_firstfit_leak` | violation | FirstFitGrowOnlyWhenNoFit | first fit skips a block it cannot split, so the arena grows while the block is free (spec 4.4) |
| `history` | pass | TypeOK, HistoryRefinesLog, SearchByCmdRunsLatestMatch | for program lines (`Spec`, no `cd`), the pairs array, through its shift at the cap, implements `HistoryLog`: every line adds exactly the command it ran as the newest entry, numbered in order, or leaves the history alone; `!word` runs the latest match. A recalled `cd` rewrites an entry, which breaks this; `history_builtins` shows it |
| `history_builtins` | violation | BuiltinRunsNamedEntry | with `cd` lines as well (`SpecCd`): a builtin does not run the entry it names. TLC reports `!!` reading `pairs[total_count-1]`, a slot never written. With `repeat_history` reading `pairs[count-1]`, the same run reports `!1` after `!12` looking up 12. With `arg_nums` terminated as well, it reports `cd a` then `!!` running `cd ` and leaving `cd ` in the history |
| `pipeline` | pass | TypeOK, StagesPlumbed, ShellResumesAfterExec, LeetifyFinishes | for boogsh's and leetify's `execute_pipeline`, on `a \| b \| c` with no redirect, with `> out`, and (boogsh only) with `< in > out`: every exec'd stage reads the previous stage's pipe and writes the next one (or the file), and keeps the console on fd 2. Once the last stage has exec'd, the shell always gets the status back. leetify always finishes, whichever exec fails: `main` gets a status and every stage exits. Its C0 never waits, so the read ends it leaks only delay a writer |
| `pipeline_hang` | violation | ShellResumes | when boogsh's last stage of `a \| b` fails to exec, C0 waits for stage 1 while still holding the pipe's read end; stage 1 sleeps on the full pipe and the shell hangs |
| `script_parse` | pass | TypeOK, TokensAsTyped, ScriptTypeOK, GetlineReadsNextLine, CatLinesPrintsEveryLine, MemcpyMovesBytes, ScriptReadsAdvance | for typed lines and script lines, each `\|` stage gets exactly its words minus the redirects and their files, and neither array is overrun; `getline` gives `main` each script line whole through every doubling and every `'\r'`; `catlines` prints each line of the same script files exactly, across every split of a line between reads of its static buffer; `memcpy` copies exactly the source bytes however the two ranges overlap; each read of the script loop reaches a line handed to a child, the end, or an overrun |
| `parse_as_typed` | violation | ParsedAsTyped | the redirects `execute_pipeline` gets differ from the typed ones: after `a >> f < g` output goes to the terminal (`Lines` is held to that one line, `MC_AppendThenInOnly`, so the trace is always it). With `Lines` set to another single line it breaks in other ways: `append` kept after `a >> f > g`, `<` in a middle stage ending the pipeline in `a < f \| a`, an empty stage in ` \| a`, no stage at all in `\|` |

Two more hazards have a place in the model but no property checks them:
- a pipeline whose last stage fails to exec reports status 0, on the path of `pipeline_hang`;
- a script's last line without a newline losing its last character, and a script line of 128 characters or more overrunning `buf`.

`PROJECT.json` gives the reason for each.

### Bounds, and why they are enough

**MCUMalloc.**
- The header layout, 16-byte alignment and `MIN_BLOCK_SZ` are those of the code. The page is 256 bytes instead of 4096, and the arena is two pages.
- With these sizes, one page holds a whole-page block, a split, and a 48-byte remainder, which are all the cases of `check_can_split`.
- `MaxLive = 2` lets the client hold two allocations, so overlaps between them can occur.
- The passing runs use requests `{16, 216}`. This keeps the fit test away from the known size-wrap window, so the passes show what holds outside that bug. The `Unsafe` requests `{16, 40}` hit the window.
- `umalloc_oom` asks for whole pages only (`{216}`) with `MaxLive = 3`, so the third request finds the arena full.

**MCHistory.**
- The cap is 2 entries in an array of 3 slots, so the shift at the cap happens, and so does a `!!` past the array.
- Three command lines are used, two of them sharing a first word, so `!l` matches two entries.
- The `!` arguments are `!1`, `!2` and `!12`, so a two-digit number leaves a digit behind.
- One `cd` line, `cd a`, which two recalls cut to `cd ` and then `cd` (no longer a `cd` to `check_built_in`).

**MCParse.**
- Every line of up to 4 characters over `a`, space, `|`, `>` and `<` is used, 781 lines in all. They include leading, doubled and trailing spaces and `|`, a redirect with and without a file, `>>`, and an empty line.
- Five longer lines add what 4 characters cannot hold: `>>` followed by `<` or `>`, a `<` in a middle stage, three stages (which grow the `cmds` array from 2 to 4), and an empty stage.

**MCScript.**
- `catlines` gets the same six scripts, with a 3-byte read buffer (`READ_SZ`, 4096 in the code) and a 2-byte first line buffer (`LINE_SZ`, 128). So lines are split across reads, reads end on a newline, and lines double their buffer once and twice.
- `getline`'s first buffer and `main`'s `buf` are both 4 bytes. In the code both are 128.
- As in the code, a line long enough to make `getline` double its buffer need not overrun `buf` (3 characters and a newline), and one character more does.
- Six scripts reach every branch of the loop:
  - the empty file;
  - a header line;
  - a header that doubles the buffer twice;
  - a line that fills the buffer;
  - an empty line and a comment;
  - a last line with no newline;
  - `'\r'` before a newline;
  - a bare `&` and a background job;
  - a redirect without a file;
  - a line that overruns `buf`.

**MCPipeline.**
- Three stages give two pipes, a stage that both reads and writes a pipe, and the descriptor reuse of a second `pipe` call after the first plumbing.
- `PIPESIZE = 1` with two bytes written makes the writer sleep on a full pipe.
- `NOFILE = 16` is xv6's value; no process comes near it.
- `Redirs` gives both programs the line with and without an output file. Only boogsh gets the stdin redirect, because leetify has none.
- The hang needs only two stages, so `pipeline_hang` uses `N = 2`.

### Fairness

`Script` assumes weak fairness of `getline`'s steps (`GetlineBegin`, `GetlineStep`) and of `main`'s handling of the line read (`ScriptLine`), and of nothing else. The shell is one process, and the xv6 scheduler keeps running it while it is RUNNABLE. The parse in the child and the return of `run_program`'s `wait` (`ScriptResume`) get no fairness: `wait` returns only when the child exits, after `execute_pipeline` has run the line, and `pipeline_hang` shows that need not happen. So `ScriptReadsAdvance` claims only that each read reaches a line handed to a child, the end of the script, or an overrun, not that the script runs to its end. A line typed at the prompt gets no fairness either.

The allocator and history models check no liveness. Each of those programs is a single thread driven by its user or client, and nothing obliges that environment to act.

`Pipeline` and `LeetPipeline` assume weak fairness of every process's step and of the shell's (or leetify `main`'s) `wait`. The xv6 scheduler runs every RUNNABLE process in turn, so a process that can keep taking steps eventually does. A process asleep on a pipe or in `wait` is not enabled, so weak fairness does not make it run.

## 4. Not modelled (yet) and plan

Next steps, in this order:
1. **Dispatch on text.** `check_built_in` and `choose_cmd` as operators on the line's text, so that a script line reaches `History`'s builtins through the same code (a recalled line already does, for `cd` and programs). This includes the `!` followed by neither a digit nor a letter, which runs nothing and is still recorded.
2. **Background jobs (`&`).** `run_program` does not wait for them, and a later `wait` in the shell reaps them. This needs `Pipeline` composed with `main`'s `exit_status` bookkeeping.
3. **The unterminated `tokens` array.** The model would need the heap contents `exec` reads after the last word.
4. **An abstract allocator.** A set of disjoint held intervals inside a growing arena, with `UMalloc` shown to refine it. Outside its bugs, `UMalloc` would refine it. With the bugs present, the tiling fault (a payload byte past the break) already breaks the refinement under the requests the passing runs use.

Left out:
- `malloc_print` and `malloc_name` (output and the unread name field);
- the prompt, `print_history`'s output and the matrix animation (output only);
- the timing in `history -t`;
- `gets`: the typed lines are `Parse`'s `Lines`;
- the other demo programs (`pipe.c`, `io-redir.c`, `time.c`, `tracer.c`, `benchmark.c`, `broken.c`, `testing.c`). Each is one sequential run over fixed input, which a single execution exercises completely;
- in `Pipeline`, what the exec'd programs compute (only their use of stdin and stdout is modelled).
