------------------------------ MODULE MemMove ------------------------------
(***************************************************************************)
(* memmove and memcpy of user/ulib.c over a byte array.  memcpy is         *)
(* memmove (parse_and_run_cmd, getline and catlines grow their buffers     *)
(* with it); memmove picks the copy direction from the order of the two    *)
(* pointers, so that an overlapping source is read before it is written.   *)
(* The memory is a function from addresses 0 .. MEM_SZ - 1 to bytes, and   *)
(* each loop is a RECURSIVE operator, one level per byte.                  *)
(***************************************************************************)
EXTENDS Integers

CONSTANT MEM_SZ   \* bytes of memory the copies run in

Addrs == 0 .. MEM_SZ - 1

RECURSIVE CopyUp(_, _, _, _)
\* while (n-- > 0) *dst++ = *src++;
CopyUp(m, d, s, k) ==
  IF k <= 0 THEN m ELSE CopyUp([m EXCEPT ![d] = m[s]], d + 1, s + 1, k - 1)

RECURSIVE CopyDown(_, _, _, _)
\* dst += n; src += n; while (n-- > 0) *--dst = *--src;
CopyDown(m, d, s, k) ==
  IF k <= 0 THEN m ELSE CopyDown([m EXCEPT ![d - 1] = m[s - 1]], d - 1, s - 1, k - 1)

(* Seeded fault: always copies upward, as a naive memcpy would.          *)
memmove_up(m, dst, src, n) == CopyUp(m, dst, src, n)

\* memmove(dst, src, n): upward when src > dst, downward otherwise.
memmove(m, dst, src, n) ==
  IF src > dst THEN CopyUp(m, dst, src, n) ELSE CopyDown(m, dst + n, src + n, n)

\* memcpy(dst, src, n) == memmove(dst, src, n).
memcpy(m, dst, src, n) == memmove(m, dst, src, n)

-----------------------------------------------------------------------------
\* What a copy of n bytes from src to dst leaves: dst .. dst+n-1 hold what
\* src .. src+n-1 held before the call, and every other byte is unchanged.
Moved(m, dst, src, n) ==
  [a \in Addrs |-> IF dst <= a /\ a < dst + n THEN m[src + a - dst] ELSE m[a]]

\* Memory whose every byte differs, so any misplaced byte shows.
Distinct == [a \in Addrs |-> a]

(***************************************************************************)
(* memcpy leaves the destination holding exactly the bytes the source held *)
(* before the call, and touches nothing else, for every placement of the   *)
(* two ranges in memory: disjoint, overlapping with the source before or   *)
(* after the destination, or the same.  A count of 0 or less copies        *)
(* nothing.                                                                *)
(***************************************************************************)
MemcpyMovesBytes ==
  \A dst, src \in Addrs, n \in -1 .. MEM_SZ :
    (dst + n <= MEM_SZ /\ src + n <= MEM_SZ) =>
      memcpy(Distinct, dst, src, n) = Moved(Distinct, dst, src, n)
=============================================================================
