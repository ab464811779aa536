-------------------------------- MODULE Pmm --------------------------------
(***************************************************************************)
(* The physical memory manager, kernel/arch/i386/mem/pmm.c: one bit of     *)
(* "bitmap" for every 4096-byte block of memory, eight to a byte.  Blocks  *)
(* are named by their number (address / BLOCK_SIZE); a byte is the set of  *)
(* its bits that are 1.                                                    *)
(*                                                                         *)
(* kpanic() returns whenever interrupts are enabled (its hlt is woken by   *)
(* the next timer tick), as they are from paging_init's sti on, that is in *)
(* every allocation: the code after the kpanic is part of the action.      *)
(* pmm_init's own kpanic, with interrupts still disabled, is the end of    *)
(* the boot, so the memory size is a whole number of blocks.               *)
(***************************************************************************)
EXTENDS Naturals

CONSTANTS
  total_blocks,        \* mem_size / BLOCK_SIZE
  Clients,             \* block numbers callers pass to set_block
  LastBlock            \* the block number of address 0xFFFFFFFF

BITSIZE == 8
Bits    == 0 .. BITSIZE - 1

\* pmm_init rounds the size of the bitmap up to a whole byte
bitmap_size ==
  IF (total_blocks \div BITSIZE) * BITSIZE < total_blocks
  THEN total_blocks \div BITSIZE + 1
  ELSE total_blocks \div BITSIZE

Covered == 0 .. bitmap_size * BITSIZE - 1        \* blocks with a bit in the bitmap
Memory  == 0 .. total_blocks - 1                 \* blocks that are RAM

\* mutant: the scan rounds up, as pmm_init does
Scanned_RoundedUp == Covered

\* blocks first_free_block looks at: those of the whole bytes only
Scanned == 0 .. (total_blocks \div BITSIZE) * BITSIZE - 1

ASSUME BlocksAssumption ==
  /\ total_blocks \in Nat
  /\ Clients \subseteq Nat
  /\ LastBlock \in Nat
  /\ bitmap_size * BITSIZE <= LastBlock          \* less than 4 GiB - 32 KiB of RAM

VARIABLES
  bitmap,              \* the bitmap, byte by byte
  stray,               \* blocks whose bit was written beyond the bitmap's end
  grants,              \* ghost: how many callers hold each block from allocate_block
  reserved             \* ghost: blocks marked by set_block

pmmVars == <<bitmap, stray, grants, reserved>>

Marked(b) == b % BITSIZE \in bitmap[b \div BITSIZE]
Granted   == {b \in Covered : grants[b] > 0}

-----------------------------------------------------------------------------
(* pmm_init: the bitmap starts out empty. *)
PmmInit ==
  /\ bitmap = [i \in 0 .. bitmap_size - 1 |-> {}]
  /\ stray = {}
  /\ grants = [b \in Covered |-> 0]
  /\ reserved = {}

\* mutant: the block number for the number of the bit
SetBit_NoModulo(b) ==
  /\ bitmap' = [bitmap EXCEPT ![b \div BITSIZE] = @ \cup {b}]
  /\ UNCHANGED stray

(* SETBIT / CLEARBIT.  A bit with no byte in the bitmap lands in whatever  *)
(* follows it in memory.                                                   *)
SetBit(b) ==
  IF b \in Covered
  THEN /\ bitmap' = [bitmap EXCEPT ![b \div BITSIZE] = @ \cup {b % BITSIZE}]
       /\ UNCHANGED stray
  ELSE /\ stray' = stray \cup {b}
       /\ UNCHANGED bitmap

\* mutant: the whole byte is cleared
ClearBit_Byte(b) == bitmap' = [bitmap EXCEPT ![b \div BITSIZE] = {}]

ClearBit(b) == bitmap' = [bitmap EXCEPT ![b \div BITSIZE] = @ \ {b % BITSIZE}]

\* mutants: the bits of a byte that is not 0xFF are not tested; any clear bit
FirstFree_ByteOnly(b) ==
  /\ b \in Scanned
  /\ bitmap[b \div BITSIZE] # Bits
  /\ \A c \in Scanned : bitmap[c \div BITSIZE] = Bits \/ b <= c
FirstFree_NotFirst(b) == b \in Scanned /\ ~Marked(b)

(* first_free_block: the first clear bit of the first byte that is not     *)
(* 0xFF, among the total_blocks / BITSIZE whole bytes.                     *)
FirstFree(b) ==
  /\ b \in Scanned
  /\ ~Marked(b)
  /\ \A c \in Scanned : Marked(c) \/ b <= c

NoneFree == \A c \in Scanned : Marked(c)

(* allocate_block when a block is found ... *)
AllocateBlock(b) ==
  /\ FirstFree(b)
  /\ SetBit(b)
  /\ grants' = [grants EXCEPT ![b] = @ + 1]
  /\ UNCHANGED reserved

(* ... and when none is: first_free_block returns 0xFFFFFFFF, whose bit is *)
(* set and whose value the caller takes for an address.                    *)
AllocateNone ==
  /\ NoneFree
  /\ SetBit(LastBlock)
  /\ UNCHANGED <<grants, reserved>>

(* set_block of a page-aligned address (a misaligned one changes nothing). *)
(* Its callers never name a block some caller was granted: the identity    *)
(* map of paging_init precedes every allocation, and the frame buffer is   *)
(* no RAM.                                                                 *)
SetBlock(b) ==
  /\ b \notin Granted
  /\ SetBit(b)
  /\ reserved' = IF b \in Covered THEN reserved \cup {b} ELSE reserved
  /\ UNCHANGED grants

(* free_block, from free_page: the frame of a mapped page. *)
FreeBlock(b) ==
  /\ b \in Granted \cup reserved
  /\ ClearBit(b)
  /\ grants' = [grants EXCEPT ![b] = IF @ > 0 THEN @ - 1 ELSE 0]
  /\ reserved' = reserved \ {b}
  /\ UNCHANGED stray

PmmNext ==
  \/ \E b \in Scanned : AllocateBlock(b)
  \/ AllocateNone
  \/ \E b \in Clients : SetBlock(b)
  \/ \E b \in Covered : FreeBlock(b)

PmmSpec == PmmInit /\ [][PmmNext]_pmmVars

-----------------------------------------------------------------------------
(* The shape of the bitmap (pmm_init) and of the ghost state. *)
PmmTypeOK ==
  /\ bitmap \in [0 .. bitmap_size - 1 -> SUBSET Bits]
  /\ stray \in SUBSET Nat
  /\ grants \in [Covered -> Nat]
  /\ reserved \in SUBSET Covered

(* allocate_block never gives a block to a second caller while the first   *)
(* still has it, whatever the order of allocations, reservations and frees.*)
SingleOwner == \A b \in Covered : grants[b] <= 1

(* A block marked by set_block (kernel image, boot structures: the first   *)
(* 32 MB of paging_init) is never handed out by allocate_block.            *)
ReservedNeverGranted == Granted \cap reserved = {}

(* The bitmap is exactly the set of blocks that are owned: a set bit       *)
(* without owner is memory lost for ever, an owner without bit is a frame  *)
(* that will be handed out twice.                                          *)
BitmapIsOwnership ==
  \A b \in Covered : Marked(b) <=> b \in Granted \cup reserved

(* allocate_block only ever returns RAM, never a padding bit of the last   *)
(* byte (the rounding up in pmm_init).                                     *)
GrantsAreMemory == Granted \subseteq Memory

(* The bitmap implements the abstract allocator over the whole bytes'      *)
(* blocks.                                                                 *)
FA == INSTANCE FrameAllocator
        WITH Frames   <- Scanned,
             granted  <- Granted,
             withheld <- reserved \cap Scanned

ImplementsFrameAllocator == FA!AbsSpec
=============================================================================
