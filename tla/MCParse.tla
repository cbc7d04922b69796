------------------------------ MODULE MCParse ------------------------------
(* Parse instantiated for TLC over short lines: every line of up to        *)
(* MC_MaxLen characters, and longer lines with '>>' and several stages.    *)
EXTENDS Parse

MC_MaxLen == 4
MC_Chars == {"a", " ", "|", ">", "<"}

\* Every line of at most MC_MaxLen characters.
MC_Short == UNION {[1 .. n -> MC_Chars] : n \in 0 .. MC_MaxLen}

\* a >> f < g
MC_AppendThenIn == <<"a", " ", ">", ">", " ", "f", " ", "<", " ", "g">>
\* a < f | a
MC_InMidPipe == <<"a", " ", "<", " ", "f", " ", "|", " ", "a">>
\* a >> f > g
MC_AppendThenOut == <<"a", " ", ">", ">", " ", "f", " ", ">", " ", "g">>
\* a  a|a|a > f   (a double space, three stages)
MC_ThreeStages == <<"a", " ", " ", "a", "|", "a", "|", "a", " ", ">", " ", "f">>
\* a > f < g | |a
MC_Mixed == <<"a", " ", ">", " ", "f", " ", "<", " ", "g", " ", "|", " ", "|", "a">>

MC_Typical == {MC_AppendThenIn, MC_InMidPipe, MC_AppendThenOut, MC_ThreeStages, MC_Mixed}

\* The line of the finding alone, so that TLC's trace is always this line.
MC_AppendThenInOnly == {MC_AppendThenIn}

MC_Lines == MC_Short \cup MC_Typical
=============================================================================
