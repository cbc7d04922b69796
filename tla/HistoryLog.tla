----------------------------- MODULE HistoryLog -----------------------------
(***************************************************************************)
(* What boogsh's history promises, without the array that implements it:  *)
(* a log of the most recent CAP commands that ran successfully, oldest     *)
(* first, each numbered by its position among every command ever          *)
(* recorded ("only storing 100 items in recent history", add_history).     *)
(*                                                                         *)
(* A step either runs a command and remembers it, or changes nothing the  *)
(* log shows: a failed command, a search that found nothing, exit or a     *)
(* fault.  `ran` is the command the step ran, None if it ran none.         *)
(***************************************************************************)
EXTENDS Integers, Sequences

CONSTANTS CAP, Commands, None

VARIABLES log, next, ran

\* The log after one more entry: the oldest falls out once CAP are kept.
Recent(s) == IF Len(s) > CAP THEN Tail(s) ELSE s

Init ==
  /\ log = <<>>
  /\ next = 1
  /\ ran = None

\* A command ran and succeeded: it becomes the newest entry, numbered next.
Remember ==
  /\ ran' \in Commands
  /\ log' = Recent(Append(log, [command |-> ran', val |-> next]))
  /\ next' = next + 1

\* Any other line: the log and the numbering stay as they are.
Keep == UNCHANGED <<log, next>>

Spec == Init /\ [][Remember \/ Keep]_<<log, next, ran>>
=============================================================================
