------------------------------- MODULE Parse -------------------------------
(***************************************************************************)
(* How boogsh's parse_and_run_cmd (user/boogsh.c) turns a command line     *)
(* into the cmds array that execute_pipeline runs, with next_token,        *)
(* strspn and strcspn of user/ulib.c.                                      *)
(*                                                                         *)
(* The outer loop cuts the line at '|' with next_token; for every stage    *)
(* the inner loop cuts it at ' ' and either stores a word in the stage's   *)
(* tokens array or, after '>', '<' or '>>', takes the next word as a file  *)
(* and sets the stage's redirect fields.  A line is a sequence of          *)
(* one-character strings; next_token returns the token and the new        *)
(* *str_ptr (NULL when the string is used up).  A token is a copy of the   *)
(* bytes it points at: next_token only ever writes the NUL after a token,  *)
(* so no token changes once returned.                                      *)
(***************************************************************************)
EXTENDS Integers, Sequences, SequencesExt

CONSTANTS
  Lines,   \* the command lines run_program may pass in
  NULL     \* the null pointer

VARIABLES
  line,       \* the line being parsed (fixed)
  s,          \* the outer *str_ptr: what is left of the line, or NULL
  tok,        \* the inner *str_ptr: what is left of the stage, or NULL
  cmds,       \* cmds[0 .. sz-1] as a sequence of struct command
  cap,        \* the capacity of the cmds array
  found_in,   \* a '<' was seen in this stage
  found_out,  \* a '>' was seen in this stage
  pc          \* "outer", "inner", "done", "panic", or "wild" (cmds[-1])

vars == <<line, s, tok, cmds, cap, found_in, found_out, pc>>

GT == <<">">>
GTGT == <<">", ">">>
LT == <<"<">>

\* strspn: the length of the prefix made of delimiters.
strspn(str, D) ==
  LET i == SelectInSeq(str, LAMBDA c : c \notin D) IN IF i = 0 THEN Len(str) ELSE i - 1

\* strcspn: the length of the prefix free of delimiters.
strcspn(str, D) ==
  LET i == SelectInSeq(str, LAMBDA c : c \in D) IN IF i = 0 THEN Len(str) ELSE i - 1

(* Seeded fault: the leading delimiters are not skipped (tok_start = 0).  *)
next_token_noskip(p, D) ==
  IF p = NULL THEN [tok |-> NULL, rest |-> NULL]
  ELSE LET en == strcspn(p, D)
       IN IF en = 0 THEN [tok |-> NULL, rest |-> NULL]
          ELSE [tok |-> SubSeq(p, 1, en),
                rest |-> IF en = Len(p) THEN NULL ELSE SubSeq(p, en + 2, Len(p))]

(***************************************************************************)
(* next_token(&p, D): skip the delimiters, take the run of non-delimiters; *)
(* none left ends the string (p = NULL); otherwise p moves past the token, *)
(* and past the delimiter after it, which becomes the token's NUL.         *)
(***************************************************************************)
next_token(p, D) ==
  IF p = NULL THEN [tok |-> NULL, rest |-> NULL]
  ELSE LET st == strspn(p, D)
           en == strcspn(SubSeq(p, st + 1, Len(p)), D)
       IN IF en = 0 THEN [tok |-> NULL, rest |-> NULL]
          ELSE [tok |-> SubSeq(p, st + 1, st + en),
                rest |-> IF st + en = Len(p) THEN NULL
                         ELSE SubSeq(p, st + en + 2, Len(p))]

(* Seeded fault: malloc(strlen(tok)) bytes, without the pointer size.     *)
TokensSlotsNoSizeof(t) == Len(t) \div 8

\* The tokens array holds strlen(tok) pointers.
TokensSlots(t) == Len(t)

\* A stage as the code starts it: no tokens, no files, piped onward.
NewCommand(t) ==
  [tokens |-> <<>>, slots |-> TokensSlots(t), stdin_file |-> NULL,
   stdout_file |-> NULL, stdout_pipe |-> TRUE, append |-> FALSE]

Init ==
  /\ line \in Lines
  /\ s = line
  /\ tok = NULL
  /\ cmds = <<>>
  /\ cap = 2
  /\ found_in = FALSE /\ found_out = FALSE
  /\ pc = "outer"

(***************************************************************************)
(* The outer loop takes the next stage: the array doubles when sz reaches  *)
(* cap - 1 (malloc, memcpy, free), then cmds[sz] is set up and the flags  *)
(* are reset.                                                              *)
(***************************************************************************)
NextStage ==
  LET r == next_token(s, {"|"}) IN
  /\ pc = "outer" /\ r.tok # NULL
  /\ cap' = IF Len(cmds) = cap - 1 THEN cap * 2 ELSE cap
  /\ cmds' = Append(cmds, NewCommand(r.tok))
  /\ s' = r.rest /\ tok' = r.tok
  /\ found_in' = FALSE /\ found_out' = FALSE
  /\ pc' = "inner"
  /\ UNCHANGED line

(***************************************************************************)
(* No stage is left: cmds[sz - 1].stdout_pipe = false ends the pipeline.   *)
(* With sz = 0 this writes before the array ("wild"), and execute_pipeline *)
(* then reads a cmds[0] nobody wrote.                                      *)
(***************************************************************************)
EndPipeline ==
  /\ pc = "outer" /\ next_token(s, {"|"}).tok = NULL
  /\ s' = NULL
  /\ IF cmds = <<>>
       THEN pc' = "wild" /\ UNCHANGED cmds
       ELSE /\ cmds' = [cmds EXCEPT ![Len(cmds)].stdout_pipe = FALSE]
            /\ pc' = "done"
  /\ UNCHANGED <<line, tok, cap, found_in, found_out>>

\* '>' file: stdin_file is cleared unless a '<' came first.
RedirOut(c, f) ==
  [c EXCEPT !.stdin_file = IF found_in THEN @ ELSE NULL,
            !.stdout_pipe = FALSE, !.stdout_file = f]

\* '<' file: stdout_file is cleared unless a '>' came first.
RedirIn(c, f) ==
  [c EXCEPT !.stdout_file = IF found_out THEN @ ELSE NULL,
            !.stdout_pipe = FALSE, !.stdin_file = f]

\* '>>' file: as '>', and append is set; found_out is left alone.
RedirAppend(c, f) ==
  [c EXCEPT !.stdin_file = IF found_in THEN @ ELSE NULL,
            !.stdout_pipe = FALSE, !.stdout_file = f, !.append = TRUE]

(***************************************************************************)
(* One pass of the inner loop: the next part of the stage is a word, which *)
(* goes to tokens[curr_tok_idx++], or a redirect, whose file is the part   *)
(* after it (none: panic).  No part left ends the stage (token_count).     *)
(***************************************************************************)
NextPart ==
  LET r == next_token(tok, {" "})
      f == next_token(r.rest, {" "})
  IN
  /\ pc = "inner"
  /\ \/ /\ r.tok = NULL
        /\ tok' = NULL /\ pc' = "outer"
        /\ UNCHANGED <<cmds, found_in, found_out>>
     \/ /\ r.tok \in {GT, LT, GTGT} /\ f.tok = NULL
        /\ pc' = "panic"
        /\ UNCHANGED <<tok, cmds, found_in, found_out>>
     \/ /\ r.tok \in {GT, LT, GTGT} /\ f.tok # NULL
        /\ tok' = f.rest
        /\ cmds' = [cmds EXCEPT ![Len(cmds)] =
                      CASE r.tok = GT -> RedirOut(@, f.tok)
                        [] r.tok = LT  -> RedirIn(@, f.tok)
                        [] r.tok = GTGT -> RedirAppend(@, f.tok)]
        /\ found_out' = (found_out \/ r.tok = GT)
        /\ found_in' = (found_in \/ r.tok = LT)
        /\ UNCHANGED pc
     \/ /\ r.tok \notin {NULL, GT, LT, GTGT}
        /\ tok' = r.rest
        /\ cmds' = [cmds EXCEPT ![Len(cmds)].tokens = Append(@, r.tok)]
        /\ UNCHANGED <<pc, found_in, found_out>>
  /\ UNCHANGED <<line, s, cap>>

\* The parse is over: execute_pipeline runs, or the process panicked.
Parsed == pc \in {"done", "panic", "wild"} /\ UNCHANGED vars

Next == NextStage \/ EndPipeline \/ NextPart \/ Parsed

Spec == Init /\ [][Next]_vars

-----------------------------------------------------------------------------
(* Reference definitions, written independently of next_token.            *)

\* The maximal runs of non-delimiters of str, in order.
Split(str, D) ==
  LET starts == {i \in 1 .. Len(str) :
                   str[i] \notin D /\ (i = 1 \/ str[i - 1] \in D)}
      EndOf(i) == CHOOSE j \in i .. Len(str) :
                    /\ \A k \in i .. j : str[k] \notin D
                    /\ (j = Len(str) \/ str[j + 1] \in D)
      firsts == SetToSortSeq(starts, <)
  IN [n \in 1 .. Len(firsts) |-> SubSeq(str, firsts[n], EndOf(firsts[n]))]

\* The typed stages, and the words of a stage.
Stages == Split(line, {"|"})
Words(seg) == Split(seg, {" "})

\* The words of a stage that are arguments: each redirect and its file out.
RECURSIVE Args(_)
Args(ws) ==
  IF ws = <<>> THEN <<>>
  ELSE IF Head(ws) \in {GT, LT, GTGT}
       THEN IF Len(ws) < 2 THEN <<>> ELSE Args(SubSeq(ws, 3, Len(ws)))
       ELSE <<Head(ws)>> \o Args(Tail(ws))

\* The file after the last of the given redirects in ws, NULL if none.
LastFile(ws, ops) ==
  LET i == SelectLastInSeq(ws, LAMBDA w : w \in ops)
  IN IF i = 0 \/ i = Len(ws) THEN NULL ELSE ws[i + 1]

\* Whether the last output redirect of ws is '>>'.
LastIsAppend(ws) ==
  LET i == SelectLastInSeq(ws, LAMBDA w : w \in {GT, GTGT})
  IN i # 0 /\ ws[i] = GTGT

-----------------------------------------------------------------------------
\* A word may keep the "\\r" of a script line that ends in "\\r\\n".
Word == Seq({"a", "f", "g", ">", "<", "\r"})
Command == [tokens : Seq(Word), slots : Nat, stdin_file : Word \cup {NULL},
            stdout_file : Word \cup {NULL}, stdout_pipe : BOOLEAN,
            append : BOOLEAN]

\* Every variable has its type, and no write leaves an allocation: cmds
\* holds at most cap structs, and each tokens array at most its slots.
TypeOK ==
  /\ cmds \in Seq(Command)
  /\ Len(cmds) <= cap
  /\ \A i \in DOMAIN cmds : Len(cmds[i].tokens) <= cmds[i].slots
  /\ found_in \in BOOLEAN /\ found_out \in BOOLEAN
  /\ pc \in {"outer", "inner", "done", "panic", "wild"}

(***************************************************************************)
(* When the parse reaches execute_pipeline, there is one struct command    *)
(* per '|'-separated stage of the line, and each one's tokens are the      *)
(* stage's words without the redirects and their files: the two nested    *)
(* next_token loops, sharing the line's buffer, split it as typed.         *)
(***************************************************************************)
TokensAsTyped ==
  pc = "done" =>
    /\ Len(cmds) = Len(Stages)
    /\ \A i \in DOMAIN cmds : cmds[i].tokens = Args(Words(Stages[i]))

(***************************************************************************)
(* execute_pipeline is handed the command line as typed: at least one      *)
(* stage; it walks every stage (only the last one has stdout_pipe false);  *)
(* every stage has a program to exec; and the last stage's redirects are   *)
(* the last '>' or '>>' of its line (with its mode) and the last '<'.      *)
(***************************************************************************)
ParsedAsTyped ==
  pc \in {"done", "wild"} =>
    /\ pc = "done"
    /\ SelectInSeq(cmds, LAMBDA c : ~c.stdout_pipe) = Len(cmds)
    /\ \A i \in DOMAIN cmds : cmds[i].tokens # <<>>
    /\ LET ws == Words(Stages[Len(Stages)])
           c == cmds[Len(cmds)]
       IN /\ c.stdout_file = LastFile(ws, {GT, GTGT})
          /\ c.append = LastIsAppend(ws)
          /\ c.stdin_file = LastFile(ws, {LT})
=============================================================================
