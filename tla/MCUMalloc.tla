----------------------------- MODULE MCUMalloc -----------------------------
(***************************************************************************)
(* Model-checking instance of UMalloc.  The code's header size, alignment  *)
(* and MIN_BLOCK_SZ are kept; the page is shrunk from 4096 to 256 bytes so *)
(* that an arena page is used up after a handful of allocations.           *)
(***************************************************************************)
EXTENDS UMalloc

MC_PAGE_SZ == 256
MC_HeapBase == 0
(* Two pages of arena before sbrk fails. *)
MC_MaxArena == 2 * 256
(* Requests of at most 16 bytes and 209..224 bytes: no free extent the     *)
(* allocator can produce lies in [n - 1, TotalNeeded(n) - 1), so the fit   *)
(* test never lets a too-small block through.                              *)
MC_SafeRequests == {16, 216}
(* 40 lands a 48-byte freed block in the unsafe window.                    *)
MC_UnsafeRequests == {16, 40}
(* 216 needs a 256-byte block, a whole page: once freed, first fit can    *)
(* neither split it nor take it whole, so every request grows the arena.  *)
MC_LeakRequests == {216}
=============================================================================
