---------------------------- MODULE MCPipeline ----------------------------
(* Pipeline and LeetPipeline instantiated for TLC: one-byte pipes, so that *)
(* a writer of two bytes sleeps on a full pipe.                            *)
EXTENDS LeetPipeline

MC_NOFILE == 16
MC_PIPESIZE == 1
MC_Items == 2

\* a | b | c > out, and a | b | c < in > out.
MC_FileRedirs == {[out |-> TRUE, in |-> FALSE], [out |-> TRUE, in |-> TRUE]}
\* No redirect: a | b.
MC_NoRedirs == {[out |-> FALSE, in |-> FALSE]}
\* With and without redirects (leetify with and without its output-file
\* argument).
MC_AllRedirs == MC_FileRedirs \cup MC_NoRedirs
=============================================================================
