------------------------------ MODULE UMalloc ------------------------------
(***************************************************************************)
(* The user-space allocator of user/umalloc.c.                             *)
(*                                                                         *)
(* The heap is modelled at the level of block headers: `size` holds the    *)
(* size field of every header the allocator has written (free flag in bit  *)
(* 0), `blocks` is the block list (block_list_head .. block_list_tail) and *)
(* `freelist` the free list (free_list_head .. free_list_tail), both as    *)
(* sequences of header addresses.  `brk` is the process break (p->sz),     *)
(* moved only by the sbrk() call in malloc.                                *)
(*                                                                         *)
(* Every operation (malloc, free, malloc_setfsm) runs to completion before *)
(* the next begins: the program is single threaded, so each is one step.   *)
(*                                                                         *)
(* uint64 values are kept modulo 2^64 in two's complement: an integer r    *)
(* with r < 0 stands for 2^64 + r.  This is exact for every value the      *)
(* allocator computes, and it lets the model follow the unsigned wrap in   *)
(* check_can_split to the state it produces.                               *)
(***************************************************************************)
EXTENDS Integers, Sequences, SequencesExt, BagsExt

CONSTANTS
  PAGE_SZ,       \* PAGE_SZ of umalloc.c: the unit of arena growth
  HeapBase,      \* p->sz when the program first calls malloc
  MaxArena,      \* growproc() fails when p->sz would pass this address
  Requests,      \* the nbytes values callers pass to malloc
  FsmChoices,       \* the arguments callers pass to malloc_setfsm
  MaxLive        \* how many allocations the caller holds at once

ASSUME /\ {PAGE_SZ, MaxLive} \subseteq Nat \ {0}
       /\ HeapBase \in Nat /\ HeapBase % PAGE_SZ = 0
       /\ MaxArena \in Nat /\ MaxArena >= HeapBase
       /\ Requests \subseteq Nat /\ FsmChoices \subseteq Int

MIN_BLOCK_SZ == 48  \* smallest remainder a split may leave
ALIGNMENT    == 16  \* what check_can_split and malloc round to
NAME_SZ      == 8   \* mem_block.name
HDR          == 32  \* sizeof(struct mem_block), packed: name, size, next, prev
FREE_HDR     == 48  \* sizeof(struct free_block): adds next_free, prev_free

FIRST_FIT == 0
BEST_FIT  == 1
WORST_FIT == 2

VARIABLES
  size,      \* header address -> size field (bit 0 = free flag)
  blocks,    \* the block list, in list order
  freelist,  \* the free list, in list order
  brk,       \* the process break
  fsm,       \* the fit strategy (global `fsm`)
  live,      \* bag of [blk, n]: headers returned by malloc(n), not yet freed
  crashed    \* the process took a page fault inside malloc

vars == <<size, blocks, freelist, brk, fsm, live, crashed>>

-----------------------------------------------------------------------------
(* Unsigned comparison of two uint64 values in two's complement.           *)
UGeq(a, b) == IF (a < 0) = (b < 0) THEN a >= b ELSE a < 0
UGt(a, b)  == UGeq(a, b) /\ a # b

(* Size field encoding: is_free, set_free (|= 1), set_used (^= 1) and the  *)
(* byte extent (real_size: size & ~1).                                      *)
is_free(s)  == s % 2 = 1
(* Seeded fault: set_free written as a toggle, like set_used.              *)
set_free_toggle(s) == IF is_free(s) THEN s - 1 ELSE s + 1
set_free(s) == IF is_free(s) THEN s ELSE s + 1
set_used(s) == IF is_free(s) THEN s - 1 ELSE s + 1
real_size(s) == s - (s % 2)

align(orig, a) == (orig \div a) * a + (IF orig % a # 0 THEN a ELSE 0)

(* total_size_needed of check_can_split, and the block malloc carves.      *)
(* Seeded fault: the header left out of the block size.                   *)
TotalNeededNoHeader(n) == align(n, ALIGNMENT)
TotalNeeded(n) == align(HDR + n, ALIGNMENT)

(***************************************************************************)
(* check_can_split(block, block_size, nbytes), by its outcome.  The size   *)
(* field reaches it through a `uint` parameter: a wrapped (negative) size  *)
(* becomes about 2^32, passes every test, and split() then writes a header *)
(* 4 GiB past the block, which faults.  Otherwise the unsigned difference  *)
(* block_size - total wraps when the block is too small, and the block is  *)
(* split anyway.                                                           *)
(***************************************************************************)
(* Seeded fault: no minimum size for the remainder a split leaves.         *)
check_can_split_nomin(bs, n) ==
  LET total == TotalNeeded(n) IN
  IF bs < 0 THEN "fault"
  ELSE IF bs >= total /\ bs - total < 0 THEN "unsafe"
  ELSE IF bs = total THEN "whole"
  ELSE "split"
check_can_split(bs, n) ==
  LET total == TotalNeeded(n) IN
  IF bs < 0 THEN "fault"
  ELSE IF bs >= total /\ bs - total < MIN_BLOCK_SZ THEN "unsafe"
  ELSE IF bs = total THEN "whole"
  ELSE "split"

(* The test `block_size >= nbytes` every scan applies (no header counted). *)
Fits(b, n) == UGeq(size[b], n)

(* The positions a scan visits (`while (free != NULL)`); the seeded fault  *)
(* stops at the tail.                                                      *)
FreeIdxNoTail == 1 .. Len(freelist) - 1
FreeIdx == 1 .. Len(freelist)

(* first_fit: the first block that fits and check_can_split does not       *)
(* reject; a rejected block is skipped (`if (!safe) continue`).            *)
first_fit(n) ==
  SelectInSeq(freelist, LAMBDA b : Fits(b, n) /\ check_can_split(size[b], n) # "unsafe")

(* best_fit / worst_fit: the first fitting block of least / greatest size  *)
(* (a later block replaces the candidate only when strictly better).       *)
Extreme(n, dir) ==
  LET C == {i \in FreeIdx : Fits(freelist[i], n)}
      Better(x, y) == IF dir = "max" THEN UGt(x, y) ELSE UGt(y, x)
  IN IF C = {} THEN 0
     ELSE CHOOSE i \in C :
            \A j \in C : j # i =>
              IF j < i THEN Better(size[freelist[i]], size[freelist[j]])
                       ELSE ~Better(size[freelist[j]], size[freelist[i]])

best_fit(n)  == Extreme(n, "min")
worst_fit(n) == Extreme(n, "max")

(* fsm_find: index in the free list of the block the strategy picks, 0 if *)
(* none.                                                                   *)
fsm_find(n) ==
  CASE fsm = FIRST_FIT -> first_fit(n)
    [] fsm = BEST_FIT  -> best_fit(n)
    [] fsm = WORST_FIT -> worst_fit(n)

(* malloc_setfsm: any other choice falls back to first fit.               *)
(* Seeded fault: the default branch dropped.                               *)
malloc_setfsm_unchecked(choice) == choice
malloc_setfsm(choice) ==
  IF choice \in {FIRST_FIT, BEST_FIT, WORST_FIT} THEN choice ELSE FIRST_FIT

(* add_block / add_free: link a block at the tail of its list.            *)
add_block(bl, block) == Append(bl, block)
add_free(fl, block) == Append(fl, block)

(* remove_free: unlink the block at position i.                           *)
remove_free(fl, i) == RemoveAt(fl, i)

(* insert_split: link `split` right after `block` in the block list.       *)
insert_split(bl, block, split) ==
  InsertAt(bl, SelectInSeq(bl, LAMBDA a : a = block) + 1, split)

(* split(block, block_size, total): the new used header is written at      *)
(* block + block_size - total; the old block keeps block_size - total and  *)
(* the free flag.  Returns the new header table.                           *)
SplitAddr(block, bs, total) == block + bs - total
split(hdrs, block, bs, total) ==
  LET new == SplitAddr(block, bs, total) IN
  [a \in DOMAIN hdrs \cup {new} |->
     IF a = block THEN set_free(bs - total)
     ELSE IF a = new THEN total
     ELSE hdrs[a]]

Holds(b, n) == [blk |-> b, n |-> n]

-----------------------------------------------------------------------------
(* sbrk(ts) fails: growproc cannot extend the process past MaxArena.      *)
(* Seeded fault: the bound checked one page late.                          *)
sbrk_fails_late(ts) == brk + ts > MaxArena + PAGE_SZ
sbrk_fails(ts) == brk + ts > MaxArena

(* malloc(n), reuse path: the strategy found a block and split it.          *)
MallocSplit(n) ==
  LET i == fsm_find(n)
      b == freelist[i]
      total == TotalNeeded(n)
  IN /\ i > 0
     /\ check_can_split(size[b], n) = "split"
     /\ size' = split(size, b, size[b], total)
     /\ blocks' = insert_split(blocks, b, SplitAddr(b, size[b], total))
     /\ live' = BagAdd(live, Holds(SplitAddr(b, size[b], total), n))
     /\ UNCHANGED <<freelist, brk, crashed>>

(* malloc(n), reuse path: the block is returned whole: set_used flips the  *)
(* flag and remove_free unlinks it.                                         *)
MallocWhole(n) ==
  LET i == fsm_find(n)
      b == freelist[i]
  IN /\ i > 0
     /\ check_can_split(size[b], n) \in {"unsafe", "whole"}
     /\ size' = [size EXCEPT ![b] = set_used(@)]
     /\ freelist' = remove_free(freelist, i)
     /\ live' = BagAdd(live, Holds(b, n))
     /\ UNCHANGED <<blocks, brk, crashed>>

(* The new arena block's size: align(align(n + header, 16), PAGE_SZ).      *)
GrowSize(n) == align(TotalNeeded(n), PAGE_SZ)

(* malloc(n), growth path: nothing found, sbrk succeeds, the new block is  *)
(* appended (add_block) and its tail split off; the head goes on the free  *)
(* list (set_free, add_free).                                              *)
MallocGrowSplit(n) ==
  LET ts == GrowSize(n)
      total == TotalNeeded(n)
  IN /\ fsm_find(n) = 0
     /\ ~sbrk_fails(ts)
     /\ check_can_split(ts, n) = "split"
     /\ brk' = brk + ts
     /\ size' = split(brk :> ts @@ size, brk, ts, total)
     /\ blocks' = insert_split(add_block(blocks, brk), brk, SplitAddr(brk, ts, total))
     /\ freelist' = add_free(freelist, brk)
     /\ live' = BagAdd(live, Holds(SplitAddr(brk, ts, total), n))
     /\ UNCHANGED crashed

(* malloc(n), growth path, no split: the whole new block is returned used. *)
MallocGrowWhole(n) ==
  LET ts == GrowSize(n) IN
  /\ fsm_find(n) = 0
  /\ ~sbrk_fails(ts)
  /\ check_can_split(ts, n) # "split"
  /\ brk' = brk + ts
  /\ size' = brk :> ts @@ size
  /\ blocks' = add_block(blocks, brk)
  /\ live' = BagAdd(live, Holds(brk, n))
  /\ UNCHANGED <<freelist, crashed>>

(* malloc(n) faults: sbrk fails and returns -1, and malloc writes the      *)
(* header at that address; or a scan reaches a block whose size wrapped.   *)
MallocFault(n) ==
  LET i == fsm_find(n) IN
  /\ \/ i > 0 /\ check_can_split(size[freelist[i]], n) = "fault"
     \/ i = 0 /\ sbrk_fails(GrowSize(n))
  /\ crashed' = TRUE
  /\ UNCHANGED <<size, blocks, freelist, brk, live>>

Malloc(n) ==
  /\ ~crashed
  /\ BagCardinality(live) < MaxLive
  /\ UNCHANGED fsm
  /\ \/ MallocSplit(n)
     \/ MallocWhole(n)
     \/ MallocGrowSplit(n)
     \/ MallocGrowWhole(n)
     \/ MallocFault(n)

(* free(ap): set the flag and append the block to the free list.           *)
Free(h) ==
  /\ ~crashed
  /\ size' = [size EXCEPT ![h.blk] = set_free(@)]
  /\ freelist' = add_free(freelist, h.blk)
  /\ live' = BagRemove(live, h)
  /\ UNCHANGED <<blocks, brk, fsm, crashed>>

(* malloc_setfsm(choice).                                                   *)
SetFsm(choice) ==
  /\ ~crashed
  /\ fsm' = malloc_setfsm(choice)
  /\ UNCHANGED <<size, blocks, freelist, brk, live, crashed>>

Init ==
  /\ size = <<>>
  /\ blocks = <<>>
  /\ freelist = <<>>
  /\ brk = HeapBase
  /\ fsm = FIRST_FIT
  /\ live = EmptyBag
  /\ crashed = FALSE

Next ==
  \/ \E n \in Requests : Malloc(n)
  \/ \E h \in BagToSet(live) : Free(h)
  \/ \E c \in FsmChoices : SetFsm(c)

Spec == Init /\ [][Next]_vars

-----------------------------------------------------------------------------
Addr == Int

TypeOK ==
  /\ DOMAIN size \subseteq Addr /\ \A a \in DOMAIN size : size[a] \in Int
  /\ blocks \in Seq(DOMAIN size)
  /\ freelist \in Seq(DOMAIN size)
  /\ brk \in HeapBase .. MaxArena
  /\ fsm \in {FIRST_FIT, BEST_FIT, WORST_FIT}
  /\ IsABag(live) /\ \A h \in BagToSet(live) : h.blk \in DOMAIN size /\ h.n \in Requests
  /\ crashed \in BOOLEAN

(* Closed byte intervals [lo, hi] and whether two of them share a byte.    *)
Ival(lo, hi) == [lo |-> lo, hi |-> hi]
Meet(x, y) == x.lo <= x.hi /\ y.lo <= y.hi /\ x.lo <= y.hi /\ y.lo <= x.hi
Inside(x, y) == y.lo <= x.lo /\ x.hi <= y.hi

(* The bytes a block spans by its size field, and the bytes of its header  *)
(* the allocator reads back: size, next_block, prev_block, and while the   *)
(* block is free next_free and prev_free (name is only printed).           *)
Region(a) == Ival(a, a + real_size(size[a]) - 1)
Metadata(a) ==
  Ival(a + NAME_SZ, (IF is_free(size[a]) THEN a + FREE_HDR ELSE a + HDR) - 1)

(* The bytes malloc(n) handed out: `found_block + 1` onward.               *)
Payload(h) == Ival(h.blk + HDR, h.blk + HDR + h.n - 1)

(***************************************************************************)
(* The block list tiles the arena: it starts at the first arena address,   *)
(* each block begins where the previous one ends (by its real_size), the   *)
(* last ends at the break, and the header table holds exactly the listed   *)
(* blocks (spec 3: every arena byte belongs to exactly one block).  The    *)
(* reuse paths of malloc must keep this through split and insert_split.    *)
(***************************************************************************)
BlocksTileArena ==
  /\ DOMAIN size = ToSet(blocks)
  /\ Len(blocks) = 0 => brk = HeapBase
  /\ Len(blocks) > 0 =>
       /\ blocks[1] = HeapBase
       /\ \A i \in 1 .. Len(blocks) - 1 :
            blocks[i + 1] = blocks[i] + real_size(size[blocks[i]])
       /\ blocks[Len(blocks)] + real_size(size[blocks[Len(blocks)]]) = brk

(***************************************************************************)
(* The allocator's own bookkeeping cannot be overwritten: the block list   *)
(* is in address order with no two blocks' fields sharing a byte, every   *)
(* block is big enough for the header fields it keeps (and, while free,    *)
(* for the links add_free writes at offset 32), and no allocation the      *)
(* caller holds covers a field of any block.  This is what lets malloc and *)
(* free trust the sizes and links they follow.                             *)
(***************************************************************************)
MetadataIntact ==
  /\ DOMAIN size = ToSet(blocks) /\ IsInjective(blocks)
  /\ \A a \in DOMAIN size : Inside(Metadata(a), Region(a))
  \* fields of consecutive blocks in ascending order: no two blocks' meet
  /\ \A i \in 1 .. Len(blocks) - 1 :
       Metadata(blocks[i]).hi < Metadata(blocks[i + 1]).lo
  /\ \A h \in BagToSet(live), a \in DOMAIN size : ~Meet(Payload(h), Metadata(a))

(***************************************************************************)
(* A block is on the free list, exactly once, iff its free flag is set.    *)
(* malloc's paths (split keeps the remainder listed, set_used+remove_free, *)
(* set_free+add_free after growth) and free() must all keep the two views  *)
(* in step (spec 3, and the open question of spec 9).                      *)
(***************************************************************************)
FreeListMatchesFlags ==
  /\ IsInjective(freelist)
  /\ \A a \in DOMAIN size : is_free(size[a]) <=> a \in ToSet(freelist)

(***************************************************************************)
(* No two allocations the caller holds share a byte, and each is the       *)
(* payload of a used block big enough for it (spec 8: no overlap, round    *)
(* trip addressing).                                                       *)
(***************************************************************************)
LiveAllocationsDisjoint ==
  /\ \A h \in BagToSet(live) :
       /\ CopiesIn(h, live) = 1
       /\ h.blk \in DOMAIN size /\ ~is_free(size[h.blk])
       /\ Inside(Payload(h), Region(h.blk))
  /\ \A h1, h2 \in BagToSet(live) : h1 # h2 => ~Meet(Payload(h1), Payload(h2))

(***************************************************************************)
(* When the arena cannot grow, malloc reports it (spec 4.4 and 7: arena    *)
(* growth failure propagates as OutOfMemory, malloc returning NULL): the   *)
(* process is never killed inside malloc.  malloc uses sbrk's result       *)
(* unchecked, so a refused growth has it write the new header at           *)
(* (void * ) -1.                                                           *)
(***************************************************************************)
OutOfMemoryReported == ~crashed

(***************************************************************************)
(* Under the given strategies, malloc grows the arena only when no free    *)
(* block has the extent the request needs (spec 4.4: a candidate that      *)
(* cannot be split is returned whole; the arena grows only if no free      *)
(* block satisfies the request).                                           *)
(***************************************************************************)
GrowsOnlyWhenNoFit(S) ==
  (fsm \in S /\ brk' > brk) =>
    \A h \in BagToSet(live') :
      CopiesIn(h, live') > CopiesIn(h, live) =>
        \A a \in ToSet(freelist) : real_size(size[a]) < TotalNeeded(h.n)

BestWorstGrowOnlyWhenNoFit == [][GrowsOnlyWhenNoFit({BEST_FIT, WORST_FIT})]_vars
FirstFitGrowOnlyWhenNoFit  == [][GrowsOnlyWhenNoFit({FIRST_FIT})]_vars
=============================================================================
