------------------------------- MODULE Kheap -------------------------------
(***************************************************************************)
(* The kernel heap: kmalloc and heap_init of kernel/arch/i386/mem/heap.c   *)
(* over ksbrk of mem/paging.c.  Addresses are offsets from heap_start,     *)
(* which is page aligned.  heap_init has mapped the whole heap before the  *)
(* first request, so heap_end = heap_start + heap_max and ksbrk never maps *)
(* a page: a boundary that is not below heap_end is out of space.          *)
(*                                                                         *)
(* Nothing ever sets a header's "free" byte, so get_free_block finds no    *)
(* block as long as no block overwrites another's header, which is what    *)
(* ListInOrder says.                                                       *)
(***************************************************************************)
EXTENDS Integers, Sequences

CONSTANTS
  heap_max,            \* bytes mapped by heap_init
  Sizes,               \* sizes callers ask for
  MaxCurr              \* bound: no request once heap_curr is beyond it

ASSUME HeapAssumption ==
  /\ heap_max \in Nat
  /\ Sizes \subseteq Nat

VARIABLES
  heap_curr,           \* where the next header goes
  blocks,              \* the list from head to tail: where each header is, and its request
  stopped              \* the kernel has faulted on a null header

heapVars == <<heap_curr, blocks, stopped>>

heap_end == heap_max
Header   == 8                              \* sizeof(heap_meta_t)

PAGE_ALIGN(a) == (a \div 4096) * 4096 + 4096

End(b) == b.addr + Header + b.size

\* heap_curr is where the caller's page boundary minus the header still lies ahead
AlignFits == heap_curr % 4096 <= 4096 - Header

-----------------------------------------------------------------------------
HeapInit ==
  /\ heap_curr = 0
  /\ blocks = <<>>
  /\ stopped = FALSE

(* kmalloc moves heap_curr before it looks at anything else, so that the   *)
(* memory after an aligned block's header starts on a page.                *)
Bumped(align) == IF align THEN PAGE_ALIGN(heap_curr) - Header ELSE heap_curr

\* mutant: the boundary is not checked
FitsIn_Unchecked(curr, size) == TRUE

(* ksbrk(uint16_t size): the header is not counted and the size is         *)
(* truncated; a size of zero after truncation is not checked at all.       *)
FitsIn(curr, size) ==
  \/ size % 65536 = 0
  \/ curr + (size % 65536) < heap_end

\* mutant: heap_curr stays where ksbrk left it
Moved_BySbrk(curr, size) == curr + (size % 65536)

(* heap_curr = (uint32_t) header + total_size *)
Moved(curr, size) == curr + Header + size

\* mutant: nothing is refused
Refused_Never(size) == FALSE

Refused(size) == size = 0

Kmalloc(size, align) ==
  /\ ~stopped
  /\ LET curr == Bumped(align)
     IN  \/ /\ Refused(size)               \* returns 0, having moved heap_curr
            /\ heap_curr' = curr
            /\ UNCHANGED <<blocks, stopped>>
         \/ /\ ~Refused(size)
            /\ FitsIn(curr, size)
            /\ blocks' = Append(blocks, [addr |-> curr, size |-> size, align |-> align])
            /\ heap_curr' = Moved(curr, size)
            /\ UNCHANGED stopped
         \/ /\ ~Refused(size)              \* kpanic returns; the null header is written
            /\ ~FitsIn(curr, size)
            /\ stopped' = TRUE
            /\ heap_curr' = curr
            /\ UNCHANGED blocks

\* a request by a caller that keeps the callers' obligation
Requests(size, align) ==
  /\ heap_curr <= MaxCurr
  /\ align => AlignFits
  /\ Kmalloc(size, align)

HeapNext == \E size \in Sizes, align \in BOOLEAN : Requests(size, align)

HeapSpec == HeapInit /\ [][HeapNext]_heapVars

-----------------------------------------------------------------------------
HeapTypeOK ==
  /\ heap_curr \in Nat
  /\ blocks \in Seq([addr : Nat, size : Nat \ {0}, align : BOOLEAN])
  /\ stopped \in BOOLEAN

(* The list runs through the heap in address order and no block touches    *)
(* another's header or data (heap.c:34-43).                                *)
ListInOrder ==
  \A i, j \in 1 .. Len(blocks) : i < j => End(blocks[i]) <= blocks[j].addr

(* The next header goes behind every block (heap.c:43, and the bump of     *)
(* heap.c:23 never moves back).                                            *)
CurrIsBeyondBlocks ==
  \A i \in 1 .. Len(blocks) : End(blocks[i]) <= heap_curr

(* ksbrk's check forgets the header: a request that fits sixteen bits may  *)
(* run past the last mapped page by seven bytes, never by more.            *)
OverrunIsBounded ==
  \A i \in 1 .. Len(blocks) :
    blocks[i].size < 65536 => End(blocks[i]) <= heap_end + Header - 1

(* heap.c:23 "it page aligns the user mode page dir": what an aligned      *)
(* request returns starts a page.                                          *)
AlignedOnPage ==
  \A i \in 1 .. Len(blocks) :
    blocks[i].align => (blocks[i].addr + Header) % 4096 = 0
=============================================================================
