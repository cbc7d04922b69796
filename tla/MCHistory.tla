----------------------------- MODULE MCHistory -----------------------------
(* History instantiated for TLC: a history of 2 entries in an array of 3   *)
(* pairs, so that add_history shifts and `!!` reads past the array within  *)
(* five recorded commands.                                                 *)
EXTENDS History

MC_HIST_CAP == 2
MC_PAIRS_SZ == 3
MC_MaxTotal == 6

\* "ls", "ls x" and "cat": two commands share the first word ls.
MC_Cmds == { <<"l", "s">>, <<"l", "s", " ", "x">>, <<"c", "a", "t">> }
\* "cd a": recalled, it becomes "cd " and then "cd".
MC_CdCmds == { <<"c", "d", " ", "a">> }
\* "!1", "!2" and "!12": a two-digit number leaves a digit behind it.
MC_Nums == { <<1>>, <<2>>, <<1, 2>> }
\* "!l" matches both ls lines, "!ca" matches cat, "!x" matches nothing.
MC_Prefixes == { <<"l">>, <<"c", "a">>, <<"x">> }
=============================================================================
