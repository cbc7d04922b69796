------------------------------ MODULE MCScript ------------------------------
(* Script instantiated for TLC: getline's first buffer and main's buf both *)
(* hold 4 bytes (both 128 in the code), so a 4-byte line makes getline     *)
(* double its buffer and a 4-character command overruns buf, and a handful *)
(* of scripts reach every branch of the loop.  Typed lines are MCParse's.  *)
(* catlines reads the same files through a 3-byte static buffer into a    *)
(* 2-byte first line buffer: lines cross reads and every longer line       *)
(* doubles its buffer.  memcpy copies within 5 bytes of memory, enough    *)
(* for ranges that overlap by one to four bytes either way.               *)
EXTENDS Script, MCParse, CatLines, MemMove

MC_MEM_SZ == 5

MC_READ_SZ == 3
MC_LINE_SZ == 2

MC_GETLINE_N == 4
MC_BUFFER_SIZE == 4

\* "#\na|a\n": a header, then a line that fills the first buffer.
MC_Pipe == <<"#", NL, "a", "|", "a", NL>>
\* "#\n\na#g\na": an empty line, a comment, a last line with no newline.
MC_Tail == <<"#", NL, NL, "a", "#", "g", NL, "a">>
\* "#aaaaaaa\naaaa\n": a header that doubles the buffer twice, a long line.
MC_Long == <<"#", "a", "a", "a", "a", "a", "a", "a", NL, "a", "a", "a", "a", NL>>
\* "#\r\n&\na&\n": fgets stops at '\r'; a bare '&'; a background job.
MC_Bg == <<"#", CR, NL, "&", NL, "a", "&", NL>>
\* "#\na\r\n>\n": a line ending in "\r\n", a redirect without a file.
MC_CrLf == <<"#", NL, "a", CR, NL, ">", NL>>

MC_Files == {<<>>, MC_Pipe, MC_Tail, MC_Long, MC_Bg, MC_CrLf}
=============================================================================
