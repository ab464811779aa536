---------------------------- MODULE MemoryProofs ----------------------------
(***************************************************************************)
(* Theorems about the kernel's memory: the physical memory manager, for    *)
(* every amount of memory; the kernel heap, for every heap size and every  *)
(* set of request sizes, under the callers' obligation AlignFits; and that *)
(* the boot keeps it, in every video mode that fits and with any number of *)
(* files and processes.                                                    *)
(***************************************************************************)
EXTENDS Pmm, HeapBoot, TLAPS

(***************************************************************************)
(* The physical memory manager                                             *)
(***************************************************************************)

\* Only blocks that first_free_block scans are ever granted.
GrantsAreScanned == Granted \subseteq Scanned

\* The inductive invariant: the bitmap is exactly the ownership relation.
PmmInv ==
  /\ PmmTypeOK
  /\ SingleOwner
  /\ ReservedNeverGranted
  /\ BitmapIsOwnership
  /\ GrantsAreScanned

(* The rounding of pmm_init: the whole bytes lie inside memory, and memory *)
(* inside the bitmap.                                                      *)
LEMMA Rounding ==
  /\ bitmap_size \in Nat
  /\ Scanned \subseteq Memory
  /\ Memory \subseteq Covered
  /\ Covered \subseteq Nat
  /\ LastBlock \notin Covered
  BY BlocksAssumption DEF bitmap_size, Scanned, Memory, Covered, BITSIZE

(* A block of the bitmap has a byte and a bit in it, and no other block    *)
(* has the same byte and bit.                                              *)
LEMMA BytesAndBits ==
  /\ \A b \in Covered : b \div BITSIZE \in 0 .. bitmap_size - 1 /\ b % BITSIZE \in Bits
  /\ \A b, c \in Covered : b \div BITSIZE = c \div BITSIZE /\ b % BITSIZE = c % BITSIZE => b = c
  BY Rounding DEF Covered, BITSIZE, Bits

(* SETBIT and CLEARBIT change the one bit they name. *)
LEMMA SetBitMarks ==
  ASSUME PmmTypeOK, NEW b \in Covered, SetBit(b)
  PROVE  /\ bitmap' \in [0 .. bitmap_size - 1 -> SUBSET Bits]
         /\ stray' = stray
         /\ \A c \in Covered : Marked(c)' <=> (Marked(c) \/ c = b)
  <1>1. bitmap' = [bitmap EXCEPT ![b \div BITSIZE] = @ \cup {b % BITSIZE}] /\ stray' = stray
    BY DEF SetBit
  <1>2. bitmap' \in [0 .. bitmap_size - 1 -> SUBSET Bits]
    BY <1>1, BytesAndBits DEF PmmTypeOK
  <1>3. ASSUME NEW c \in Covered PROVE Marked(c)' <=> (Marked(c) \/ c = b)
    <2>1. CASE c \div BITSIZE = b \div BITSIZE
      BY <1>1, <2>1, BytesAndBits DEF PmmTypeOK, Marked
    <2>2. CASE c \div BITSIZE # b \div BITSIZE
      BY <1>1, <2>2, BytesAndBits DEF PmmTypeOK, Marked
    <2>3. QED BY <2>1, <2>2
  <1>4. QED BY <1>1, <1>2, <1>3

LEMMA ClearBitUnmarks ==
  ASSUME PmmTypeOK, NEW b \in Covered, ClearBit(b)
  PROVE  /\ bitmap' \in [0 .. bitmap_size - 1 -> SUBSET Bits]
         /\ \A c \in Covered : Marked(c)' <=> (Marked(c) /\ c # b)
  <1>1. bitmap' = [bitmap EXCEPT ![b \div BITSIZE] = @ \ {b % BITSIZE}]
    BY DEF ClearBit
  <1>2. bitmap' \in [0 .. bitmap_size - 1 -> SUBSET Bits]
    BY <1>1, BytesAndBits DEF PmmTypeOK
  <1>3. ASSUME NEW c \in Covered PROVE Marked(c)' <=> (Marked(c) /\ c # b)
    <2>1. CASE c \div BITSIZE = b \div BITSIZE
      BY <1>1, <2>1, BytesAndBits DEF PmmTypeOK, Marked
    <2>2. CASE c \div BITSIZE # b \div BITSIZE
      BY <1>1, <2>2, BytesAndBits DEF PmmTypeOK, Marked
    <2>3. QED BY <2>1, <2>2
  <1>4. QED BY <1>2, <1>3

(* A bit outside the bitmap leaves the bitmap alone. *)
LEMMA StrayBit ==
  ASSUME PmmTypeOK, NEW b \in Nat, b \notin Covered, SetBit(b)
  PROVE  bitmap' = bitmap /\ stray' \in SUBSET Nat
  BY DEF SetBit, PmmTypeOK

-----------------------------------------------------------------------------
LEMMA PmmInitInv == PmmInit => PmmInv
  <1> SUFFICES ASSUME PmmInit PROVE PmmInv
    OBVIOUS
  <1>1. PmmTypeOK
    BY Rounding DEF PmmInit, PmmTypeOK, Bits
  <1>2. Granted = {} /\ SingleOwner
    BY Rounding DEF PmmInit, Granted, SingleOwner
  <1>3. \A b \in Covered : ~Marked(b)
    BY BytesAndBits DEF PmmInit, Marked
  <1>4. QED
    BY <1>1, <1>2, <1>3 DEF PmmInit, PmmInv, ReservedNeverGranted, BitmapIsOwnership, GrantsAreScanned

LEMMA AllocateBlockInv ==
  ASSUME PmmInv, NEW b \in Scanned, AllocateBlock(b)
  PROVE  PmmInv'
  <1>1. b \in Covered /\ b \in Memory
    BY Rounding
  <1>2. b \notin Granted \cup reserved
    BY <1>1 DEF AllocateBlock, FirstFree, PmmInv, BitmapIsOwnership
  <1>3. /\ bitmap' \in [0 .. bitmap_size - 1 -> SUBSET Bits]
        /\ stray' = stray
        /\ \A c \in Covered : Marked(c)' <=> (Marked(c) \/ c = b)
    BY <1>1, SetBitMarks DEF AllocateBlock, PmmInv
  <1>4. grants[b] = 0
    BY <1>1, <1>2 DEF PmmInv, PmmTypeOK, Granted
  <1>5. /\ grants' = [grants EXCEPT ![b] = 1]
        /\ grants' \in [Covered -> Nat]
    BY <1>1, <1>4 DEF AllocateBlock, PmmInv, PmmTypeOK
  <1>6. Granted' = Granted \cup {b}
    BY <1>1, <1>5 DEF PmmInv, PmmTypeOK, Granted
  <1>7. PmmTypeOK' /\ reserved' = reserved
    BY <1>3, <1>5 DEF AllocateBlock, PmmInv, PmmTypeOK
  <1>8. SingleOwner'
    BY <1>1, <1>5 DEF PmmInv, PmmTypeOK, SingleOwner
  <1>9. ReservedNeverGranted' /\ GrantsAreScanned'
    BY <1>1, <1>2, <1>6, <1>7 DEF PmmInv, ReservedNeverGranted, GrantsAreScanned
  <1>10. BitmapIsOwnership'
    <2>1. ASSUME NEW c \in Covered
          PROVE  Marked(c)' <=> c \in Granted' \cup reserved'
      BY <1>3, <1>6, <1>7 DEF PmmInv, BitmapIsOwnership
    <2>2. QED BY <2>1 DEF BitmapIsOwnership
  <1>11. QED BY <1>7, <1>8, <1>9, <1>10 DEF PmmInv

LEMMA AllocateNoneInv ==
  ASSUME PmmInv, AllocateNone
  PROVE  PmmInv'
  <1>1. bitmap' = bitmap /\ stray' \in SUBSET Nat
    BY StrayBit, Rounding, BlocksAssumption DEF AllocateNone, PmmInv
  <1>2. PmmTypeOK' /\ Granted' = Granted /\ reserved' = reserved /\ grants' = grants
    BY <1>1 DEF AllocateNone, PmmInv, PmmTypeOK, Granted
  <1>3. \A c \in Covered : Marked(c)' <=> Marked(c)
    BY <1>1 DEF Marked
  <1>4. BitmapIsOwnership'
    <2>1. ASSUME NEW c \in Covered
          PROVE  Marked(c)' <=> c \in Granted' \cup reserved'
      BY <1>2, <1>3 DEF PmmInv, BitmapIsOwnership
    <2>2. QED BY <2>1 DEF BitmapIsOwnership
  <1>5. QED
    BY <1>2, <1>4 DEF PmmInv, SingleOwner, ReservedNeverGranted, GrantsAreScanned

LEMMA SetBlockInv ==
  ASSUME PmmInv, NEW b \in Clients, SetBlock(b)
  PROVE  PmmInv'
  <1>1. b \in Nat /\ grants' = grants
    BY BlocksAssumption DEF SetBlock
  <1>2. Granted' = Granted
    BY <1>1 DEF Granted
  <1>3. CASE b \in Covered
    <2>1. /\ bitmap' \in [0 .. bitmap_size - 1 -> SUBSET Bits]
          /\ stray' = stray
          /\ \A c \in Covered : Marked(c)' <=> (Marked(c) \/ c = b)
      BY <1>3, SetBitMarks DEF SetBlock, PmmInv
    <2>2. reserved' = reserved \cup {b}
      BY <1>3 DEF SetBlock
    <2>3. PmmTypeOK'
      BY <1>1, <1>3, <2>1, <2>2 DEF PmmInv, PmmTypeOK
    <2>4. ReservedNeverGranted'
      BY <1>2, <2>2 DEF PmmInv, ReservedNeverGranted, SetBlock
    <2>5. BitmapIsOwnership'
      <3>1. ASSUME NEW c \in Covered
            PROVE  Marked(c)' <=> c \in Granted' \cup reserved'
        BY <1>2, <2>1, <2>2 DEF PmmInv, BitmapIsOwnership
      <3>2. QED BY <3>1 DEF BitmapIsOwnership
    <2>6. QED BY <1>1, <1>2, <2>3, <2>4, <2>5 DEF PmmInv, SingleOwner, GrantsAreScanned
  <1>4. CASE b \notin Covered
    <2>1. bitmap' = bitmap /\ stray' \in SUBSET Nat
      BY <1>1, <1>4, StrayBit DEF SetBlock, PmmInv
    <2>2. reserved' = reserved
      BY <1>4 DEF SetBlock
    <2>3. PmmTypeOK'
      BY <1>1, <2>1, <2>2 DEF PmmInv, PmmTypeOK
    <2>4. BitmapIsOwnership'
      <3>1. ASSUME NEW c \in Covered
            PROVE  Marked(c)' <=> c \in Granted' \cup reserved'
        BY <1>2, <2>1, <2>2 DEF PmmInv, BitmapIsOwnership, Marked
      <3>2. QED BY <3>1 DEF BitmapIsOwnership
    <2>5. QED BY <1>1, <1>2, <2>2, <2>3, <2>4
                 DEF PmmInv, SingleOwner, ReservedNeverGranted, GrantsAreScanned
  <1>5. QED BY <1>3, <1>4

LEMMA FreeBlockOwners ==
  ASSUME PmmInv, NEW b \in Covered, FreeBlock(b)
  PROVE  /\ grants' = [grants EXCEPT ![b] = 0]
         /\ Granted' = Granted \ {b}
         /\ reserved' = reserved \ {b}
  <1>1. grants[b] \in Nat /\ grants[b] <= 1
    BY DEF PmmInv, PmmTypeOK, SingleOwner
  <1>2. (IF grants[b] > 0 THEN grants[b] - 1 ELSE 0) = 0
    BY <1>1
  <1>3. grants' = [grants EXCEPT ![b] = IF grants[b] > 0 THEN grants[b] - 1 ELSE 0]
    BY DEF FreeBlock
  <1>4. grants' = [grants EXCEPT ![b] = 0]
    BY <1>2, <1>3, Zenon
  <1>5. Granted' = Granted \ {b}
    BY <1>4 DEF PmmInv, PmmTypeOK, Granted
  <1>6. reserved' = reserved \ {b}
    BY DEF FreeBlock
  <1>7. QED BY <1>4, <1>5, <1>6

LEMMA FreeBlockInv ==
  ASSUME PmmInv, NEW b \in Covered, FreeBlock(b)
  PROVE  PmmInv'
  <1>1. /\ bitmap' \in [0 .. bitmap_size - 1 -> SUBSET Bits]
        /\ \A c \in Covered : Marked(c)' <=> (Marked(c) /\ c # b)
    BY ClearBitUnmarks DEF FreeBlock, PmmInv
  <1>2. /\ grants' = [grants EXCEPT ![b] = 0]
        /\ Granted' = Granted \ {b}
        /\ reserved' = reserved \ {b}
    BY FreeBlockOwners
  <1>3. PmmTypeOK'
    BY <1>1, <1>2 DEF FreeBlock, PmmInv, PmmTypeOK
  <1>4. SingleOwner'
    BY <1>2 DEF PmmInv, PmmTypeOK, SingleOwner
  <1>5. ReservedNeverGranted' /\ GrantsAreScanned'
    BY <1>2 DEF PmmInv, ReservedNeverGranted, GrantsAreScanned
  <1>6. BitmapIsOwnership'
    <2>1. ASSUME NEW c \in Covered
          PROVE  Marked(c)' <=> c \in Granted' \cup reserved'
      BY <1>1, <1>2 DEF PmmInv, BitmapIsOwnership
    <2>2. QED BY <2>1 DEF BitmapIsOwnership
  <1>7. QED BY <1>3, <1>4, <1>5, <1>6 DEF PmmInv

LEMMA PmmStepInv == PmmInv /\ [PmmNext]_pmmVars => PmmInv'
  <1> SUFFICES ASSUME PmmInv, [PmmNext]_pmmVars PROVE PmmInv'
    OBVIOUS
  <1>1. CASE \E b \in Scanned : AllocateBlock(b)
    BY <1>1, AllocateBlockInv
  <1>2. CASE AllocateNone
    BY <1>2, AllocateNoneInv
  <1>3. CASE \E b \in Clients : SetBlock(b)
    BY <1>3, SetBlockInv
  <1>4. CASE \E b \in Covered : FreeBlock(b)
    BY <1>4, FreeBlockInv
  <1>5. CASE UNCHANGED pmmVars
    BY <1>5 DEF pmmVars, PmmInv, PmmTypeOK, SingleOwner, ReservedNeverGranted,
                BitmapIsOwnership, GrantsAreScanned, Granted, Marked
  <1>6. QED BY <1>1, <1>2, <1>3, <1>4, <1>5 DEF PmmNext

LEMMA PmmInvariant == PmmSpec => []PmmInv
  BY PmmInitInv, PmmStepInv, PTL DEF PmmSpec

(* The bitmap keeps its shape (pmm_init, SETBIT, CLEARBIT). *)
THEOREM PmmTypeCorrect == PmmSpec => []PmmTypeOK
  BY PmmInvariant, PTL DEF PmmInv

(* allocate_block never gives one block to two callers. *)
THEOREM NoDoubleAllocation == PmmSpec => []SingleOwner
  BY PmmInvariant, PTL DEF PmmInv

(* A bit of the bitmap is set exactly while its block has an owner, so no  *)
(* block is leaked and none is handed out under its owner.                 *)
THEOREM NoLeakNoLoss == PmmSpec => [](BitmapIsOwnership /\ ReservedNeverGranted)
  BY PmmInvariant, PTL DEF PmmInv

(* allocate_block returns RAM, whatever total_blocks % 8 is. *)
THEOREM OnlyMemoryIsGranted == PmmSpec => []GrantsAreMemory
  <1>1. PmmInv => GrantsAreMemory
    BY Rounding DEF PmmInv, GrantsAreScanned, GrantsAreMemory
  <1>2. QED BY <1>1, PmmInvariant, PTL

-----------------------------------------------------------------------------
(* Refinement: what each operation does to the set of granted blocks and   *)
(* to the set of withheld ones.                                            *)

LEMMA AllocateBlockGrants ==
  ASSUME PmmInv, NEW b \in Scanned, AllocateBlock(b)
  PROVE  FA!Grant(b)
  <1>1. b \in Covered /\ Scanned \subseteq Covered /\ b \in Nat
    BY Rounding
  <1>2. b \notin Granted \cup reserved
    BY <1>1 DEF AllocateBlock, FirstFree, PmmInv, BitmapIsOwnership
  <1>3. b \in FA!Available
    BY <1>2 DEF FA!Available
  <1>4. \A g \in FA!Available : b <= g
    BY <1>1 DEF FA!Available, AllocateBlock, FirstFree, PmmInv, BitmapIsOwnership
  <1>5. grants[b] = 0
    BY <1>1, <1>2 DEF PmmInv, PmmTypeOK, Granted
  <1>6. Granted' = Granted \cup {b}
    BY <1>1, <1>5 DEF AllocateBlock, PmmInv, PmmTypeOK, Granted
  <1>7. reserved' = reserved
    BY DEF AllocateBlock
  <1>8. QED BY <1>3, <1>4, <1>6, <1>7 DEF FA!Grant

LEMMA AllocateNoneStutters ==
  ASSUME AllocateNone
  PROVE  UNCHANGED FA!absVars
  BY DEF AllocateNone, FA!absVars, Granted

LEMMA SetBlockWithholds ==
  ASSUME PmmInv, NEW b \in Clients, SetBlock(b)
  PROVE  (b \in Scanned /\ FA!Withhold(b)) \/ UNCHANGED FA!absVars
  <1>1. Granted' = Granted /\ b \notin Granted
    BY DEF SetBlock, Granted
  <1>2. CASE b \in Scanned
    <2>1. reserved' \cap Scanned = (reserved \cap Scanned) \cup {b}
      BY <1>2, Rounding DEF SetBlock
    <2>2. QED BY <1>1, <1>2, <2>1 DEF FA!Withhold
  <1>3. CASE b \notin Scanned
    <2>1. reserved' \cap Scanned = reserved \cap Scanned
      BY <1>3 DEF SetBlock
    <2>2. QED BY <1>1, <2>1 DEF FA!absVars
  <1>4. QED BY <1>2, <1>3

LEMMA FreeBlockReleases ==
  ASSUME PmmInv, NEW b \in Covered, FreeBlock(b)
  PROVE  (b \in Scanned /\ FA!Release(b)) \/ UNCHANGED FA!absVars
  <1>1. Granted' = Granted \ {b} /\ reserved' = reserved \ {b}
    BY FreeBlockOwners
  <1>2. CASE b \in Scanned
    BY <1>1, <1>2 DEF FA!Release, FreeBlock
  <1>3. CASE b \notin Scanned
    <2>1. reserved' \cap Scanned = reserved \cap Scanned
      BY <1>1, <1>3
    <2>2. Granted' = Granted
      BY <1>1, <1>3 DEF PmmInv, GrantsAreScanned
    <2>3. QED BY <2>1, <2>2 DEF FA!absVars
  <1>4. QED BY <1>2, <1>3

(* allocate_block, set_block and free_block implement the abstract frame   *)
(* allocator: lowest free frame first, one owner per frame, a failed       *)
(* allocation changes no ownership.                                        *)
THEOREM PmmImplementsFrameAllocator == PmmSpec => ImplementsFrameAllocator
  <1>1. PmmInit => FA!AbsInit
    BY Rounding DEF PmmInit, FA!AbsInit, Granted
  <1>2. PmmInv /\ [PmmNext]_pmmVars => [FA!AbsNext]_(FA!absVars)
    <2> SUFFICES ASSUME PmmInv, [PmmNext]_pmmVars PROVE [FA!AbsNext]_(FA!absVars)
      OBVIOUS
    <2>1. CASE \E b \in Scanned : AllocateBlock(b)
      BY <2>1, AllocateBlockGrants DEF FA!AbsNext
    <2>2. CASE AllocateNone
      BY <2>2, AllocateNoneStutters
    <2>3. CASE \E b \in Clients : SetBlock(b)
      BY <2>3, SetBlockWithholds DEF FA!AbsNext
    <2>4. CASE \E b \in Covered : FreeBlock(b)
      BY <2>4, FreeBlockReleases DEF FA!AbsNext
    <2>5. CASE UNCHANGED pmmVars
      BY <2>5 DEF pmmVars, FA!absVars, Granted
    <2>6. QED BY <2>1, <2>2, <2>3, <2>4, <2>5 DEF PmmNext
  <1>3. QED BY <1>1, <1>2, PmmInvariant, PTL DEF PmmSpec, ImplementsFrameAllocator, FA!AbsSpec

-----------------------------------------------------------------------------
(***************************************************************************)
(* The kernel heap                                                         *)
(***************************************************************************)

Block == [addr : Nat, size : Nat \ {0}, align : BOOLEAN]

HeapInv ==
  /\ HeapTypeOK
  /\ ListInOrder
  /\ CurrIsBeyondBlocks
  /\ OverrunIsBounded
  /\ AlignedOnPage

(* Rounding up to the page boundary less the header never moves back, and  *)
(* leaves room for exactly the header before a page.                       *)
LEMMA BumpAdvances ==
  ASSUME NEW c \in Nat, c % 4096 <= 4096 - Header
  PROVE  /\ PAGE_ALIGN(c) - Header \in Nat
         /\ c <= PAGE_ALIGN(c) - Header
         /\ (PAGE_ALIGN(c) - Header + Header) % 4096 = 0
  BY DEF PAGE_ALIGN, Header

LEMMA EndIsNatural == ASSUME NEW b \in Block PROVE End(b) \in Nat
  BY DEF Block, End, Header

(* One request: where it puts heap_curr and what it appends to the list.   *)
LEMMA KmallocEffect ==
  ASSUME HeapTypeOK, NEW size \in Nat, NEW align \in BOOLEAN,
         align => AlignFits, Kmalloc(size, align)
  PROVE  \E curr \in Nat :
           /\ heap_curr <= curr
           /\ align => (curr + Header) % 4096 = 0
           /\ \/ heap_curr' = curr /\ blocks' = blocks
              \/ /\ size # 0
                 /\ FitsIn(curr, size)
                 /\ heap_curr' = curr + Header + size
                 /\ blocks' = Append(blocks, [addr |-> curr, size |-> size, align |-> align])
  <1> DEFINE curr == Bumped(align)
  <1>1. /\ curr \in Nat
        /\ heap_curr <= curr
        /\ align => (curr + Header) % 4096 = 0
    <2>1. CASE align
      <3>1. heap_curr \in Nat /\ heap_curr % 4096 <= 4096 - Header
        BY <2>1 DEF HeapTypeOK, AlignFits
      <3>2. curr = PAGE_ALIGN(heap_curr) - Header
        BY <2>1 DEF Bumped
      <3>3. QED BY <3>1, <3>2, BumpAdvances
    <2>2. CASE ~align
      BY <2>2 DEF HeapTypeOK, Bumped
    <2>3. QED BY <2>1, <2>2
  <1>2. \/ heap_curr' = curr /\ blocks' = blocks
        \/ /\ size # 0
           /\ FitsIn(curr, size)
           /\ heap_curr' = curr + Header + size
           /\ blocks' = Append(blocks, [addr |-> curr, size |-> size, align |-> align])
    BY DEF Kmalloc, Refused, Moved
  <1>3. QED BY <1>1, <1>2

LEMMA HeapInitInv == HeapInit => HeapInv
  <1> SUFFICES ASSUME HeapInit PROVE HeapInv
    OBVIOUS
  <1>1. 1 .. Len(blocks) = {}
    BY DEF HeapInit
  <1>2. HeapTypeOK
    <2>1. blocks \in Seq(Block)
      BY DEF HeapInit
    <2>2. QED BY <2>1 DEF HeapInit, HeapTypeOK, Block
  <1>3. QED
    BY <1>1, <1>2 DEF HeapInv, ListInOrder, CurrIsBeyondBlocks, OverrunIsBounded, AlignedOnPage

LEMMA KmallocInv ==
  ASSUME HeapInv, NEW size \in Nat, NEW align \in BOOLEAN,
         align => AlignFits, Kmalloc(size, align)
  PROVE  HeapInv'
  <1>1. stopped' \in BOOLEAN
    BY DEF Kmalloc, HeapInv, HeapTypeOK
  <1>2. PICK curr \in Nat :
           /\ heap_curr <= curr
           /\ align => (curr + Header) % 4096 = 0
           /\ \/ heap_curr' = curr /\ blocks' = blocks
              \/ /\ size # 0
                 /\ FitsIn(curr, size)
                 /\ heap_curr' = curr + Header + size
                 /\ blocks' = Append(blocks, [addr |-> curr, size |-> size, align |-> align])
    BY KmallocEffect DEF HeapInv
  <1>3. /\ heap_curr \in Nat
        /\ blocks \in Seq(Block)
        /\ \A i \in 1 .. Len(blocks) : blocks[i] \in Block /\ End(blocks[i]) <= heap_curr
    <2>1. heap_curr \in Nat /\ blocks \in Seq(Block)
      BY DEF HeapInv, HeapTypeOK, Block
    <2>2. \A i \in 1 .. Len(blocks) : blocks[i] \in Block
      BY <2>1
    <2>3. QED BY <2>1, <2>2 DEF HeapInv, CurrIsBeyondBlocks
  <1>4. CASE heap_curr' = curr /\ blocks' = blocks
    <2>1. HeapTypeOK'
      BY <1>1, <1>4 DEF HeapInv, HeapTypeOK
    <2>2. \A i \in 1 .. Len(blocks) : End(blocks[i]) \in Nat
      BY <1>3, EndIsNatural
    <2>3. CurrIsBeyondBlocks'
      BY <1>2, <1>3, <1>4, <2>2 DEF CurrIsBeyondBlocks, End
    <2>4. (ListInOrder /\ OverrunIsBounded /\ AlignedOnPage)'
      BY <1>4 DEF HeapInv, ListInOrder, OverrunIsBounded, AlignedOnPage, End
    <2>5. QED BY <2>1, <2>3, <2>4 DEF HeapInv
  <1>5. CASE /\ size # 0
             /\ FitsIn(curr, size)
             /\ heap_curr' = curr + Header + size
             /\ blocks' = Append(blocks, [addr |-> curr, size |-> size, align |-> align])
    <2> DEFINE new == [addr |-> curr, size |-> size, align |-> align]
               n   == Len(blocks)
    <2>1. new \in Block
      BY <1>5 DEF Block
    <2>2. /\ n \in Nat
          /\ blocks' \in Seq(Block)
          /\ Len(blocks') = n + 1
          /\ blocks'[n + 1] = new
          /\ \A i \in 1 .. n : blocks'[i] = blocks[i]
      BY <1>3, <1>5, <2>1
    <2>3. HeapTypeOK'
      BY <1>1, <1>5, <2>2 DEF HeapTypeOK, Block, Header
    <2>4. End(new) = heap_curr' /\ End(new) \in Nat
      BY <1>5, <2>1 DEF End, Header, Block
    <2>5. \A i \in 1 .. n : End(blocks'[i]) = End(blocks[i]) /\ End(blocks[i]) \in Nat
      <3>1. \A b \in Block : End(b) \in Nat
        BY DEF End, Block, Header
      <3>2. QED BY <1>3, <2>2, <3>1
    <2>6. \A i \in 1 .. n : End(blocks'[i]) <= curr /\ curr <= heap_curr'
      BY <1>2, <1>3, <1>5, <2>5 DEF Header
    <2>7. CurrIsBeyondBlocks'
      <3>1. ASSUME NEW i \in 1 .. n + 1 PROVE End(blocks'[i]) <= heap_curr'
        <4>1. CASE i = n + 1
          BY <2>2, <2>4, <4>1
        <4>2. CASE i # n + 1
          <5>1. i \in 1 .. n
            BY <2>2, <4>2
          <5>2. heap_curr' \in Nat
            BY <2>4
          <5>3. QED BY <5>1, <5>2, <2>5, <2>6
        <4>3. QED BY <4>1, <4>2
      <3>2. QED BY <2>2, <3>1 DEF CurrIsBeyondBlocks, End
    <2>8. ListInOrder'
      <3>1. ASSUME NEW i \in 1 .. n + 1, NEW j \in 1 .. n + 1, i < j
            PROVE  End(blocks'[i]) <= blocks'[j].addr
        <4>1. i \in 1 .. n
          BY <2>2, <3>1
        <4>2. CASE j = n + 1
          BY <2>2, <2>6, <4>1, <4>2
        <4>3. CASE j # n + 1
          <5>1. j \in 1 .. n
            BY <2>2, <4>3
          <5>2. End(blocks[i]) <= blocks[j].addr
            BY <3>1, <4>1, <5>1 DEF HeapInv, ListInOrder
          <5>3. QED BY <2>2, <2>5, <4>1, <5>1, <5>2
        <4>4. QED BY <4>2, <4>3
      <3>2. QED BY <2>2, <3>1 DEF ListInOrder, End
    <2>9. OverrunIsBounded'
      <3>1. ASSUME NEW i \in 1 .. n + 1, blocks'[i].size < 65536
            PROVE  End(blocks'[i]) <= heap_end + Header - 1
        <4>1. CASE i = n + 1
          <5>1. size < 65536 /\ End(blocks'[i]) = curr + Header + size
            BY <1>5, <2>2, <2>4, <3>1, <4>1
          <5>2. size % 65536 = size
            BY <5>1
          <5>3. curr + size < heap_end
            BY <1>5, <5>2 DEF FitsIn
          <5>4. heap_end \in Nat
            BY HeapAssumption DEF heap_end
          <5>5. QED BY <5>1, <5>3, <5>4 DEF Header
        <4>2. CASE i # n + 1
          <5>1. i \in 1 .. n
            BY <2>2, <4>2
          <5>2. QED BY <2>2, <2>5, <3>1, <5>1 DEF HeapInv, OverrunIsBounded
        <4>3. QED BY <4>1, <4>2
      <3>2. QED BY <2>2, <3>1 DEF OverrunIsBounded, End, heap_end
    <2>10. AlignedOnPage'
      <3>1. ASSUME NEW i \in 1 .. n + 1, blocks'[i].align
            PROVE  (blocks'[i].addr + Header) % 4096 = 0
        <4>1. CASE i = n + 1
          BY <1>2, <2>2, <3>1, <4>1
        <4>2. CASE i # n + 1
          <5>1. i \in 1 .. n
            BY <2>2, <4>2
          <5>2. QED BY <2>2, <3>1, <5>1 DEF HeapInv, AlignedOnPage
        <4>3. QED BY <4>1, <4>2
      <3>2. QED BY <2>2, <3>1 DEF AlignedOnPage
    <2>11. QED BY <2>3, <2>7, <2>8, <2>9, <2>10 DEF HeapInv
  <1>6. QED BY <1>2, <1>4, <1>5

LEMMA HeapStepInv == HeapInv /\ [HeapNext]_heapVars => HeapInv'
  <1> SUFFICES ASSUME HeapInv, [HeapNext]_heapVars PROVE HeapInv'
    OBVIOUS
  <1>1. CASE HeapNext
    <2>1. PICK size \in Sizes, align \in BOOLEAN :
             (align => AlignFits) /\ Kmalloc(size, align)
      BY <1>1 DEF HeapNext, Requests
    <2>2. size \in Nat
      BY HeapAssumption
    <2>3. QED BY <2>1, <2>2, KmallocInv
  <1>2. CASE UNCHANGED heapVars
    <2>1. heap_curr' = heap_curr /\ blocks' = blocks /\ stopped' = stopped
      BY <1>2 DEF heapVars
    <2>2. HeapTypeOK'
      BY <2>1 DEF HeapInv, HeapTypeOK
    <2>3. ListInOrder' /\ CurrIsBeyondBlocks'
      BY <2>1 DEF HeapInv, ListInOrder, CurrIsBeyondBlocks, End
    <2>4. OverrunIsBounded' /\ AlignedOnPage'
      BY <2>1 DEF HeapInv, OverrunIsBounded, AlignedOnPage, End, heap_end
    <2>5. QED BY <2>2, <2>3, <2>4 DEF HeapInv
  <1>3. QED BY <1>1, <1>2

LEMMA HeapInvariant == HeapSpec => []HeapInv
  BY HeapInitInv, HeapStepInv, PTL DEF HeapSpec

(* Every block of the list is a header and a non-empty request at a        *)
(* natural offset (kmalloc).                                               *)
THEOREM HeapTypeCorrect == HeapSpec => []HeapTypeOK
  BY HeapInvariant, PTL DEF HeapInv

(* No two blocks overlap, in any order of aligned and unaligned requests   *)
(* (kmalloc, ksbrk).                                                       *)
THEOREM BlocksAreDisjoint == HeapSpec => []ListInOrder
  BY HeapInvariant, PTL DEF HeapInv

(* A request of sixteen bits overruns the heap by at most seven bytes      *)
(* (ksbrk does not count the header).                                      *)
THEOREM OverrunAtMostSeven == HeapSpec => []OverrunIsBounded
  BY HeapInvariant, PTL DEF HeapInv

(* An aligned request starts a page (kmalloc with align).                  *)
THEOREM AlignedRequestsStartAPage == HeapSpec => []AlignedOnPage
  BY HeapInvariant, PTL DEF HeapInv

-----------------------------------------------------------------------------
\* heap_curr before the first process
BeforeProcesses(mode, nfiles) ==
  mode + Header + 2 * (SizeofFsNode + Header)
    + (IF nfiles = 0 THEN 0 ELSE SizeofFsNode * nfiles + Header)

(* Where heap_curr is at each stage of the boot: after the first process's *)
(* directory, every pair of requests starts at the beginning of a page.    *)
Place ==
  \/ stage = "root" /\ \E m \in Modes : heap_curr = m + Header
  \/ stage = "dev" /\ \E m \in Modes : heap_curr = m + Header + SizeofFsNode + Header
  \/ stage = "nodes" /\ \E m \in Modes : heap_curr = BeforeProcesses(m, 0)
  \/ stage = "process" /\ \E m \in Modes, n \in 0 .. MaxFiles :
                             heap_curr = BeforeProcesses(m, n)
  \/ stage = "process" /\ heap_curr % 4096 = 0 /\ heap_curr <= heap_max
  \/ stage = "pagedir" /\ \E m \in Modes, n \in 0 .. MaxFiles :
                             heap_curr = BeforeProcesses(m, n) + SizeofProcess + Header
  \/ stage = "pagedir" /\ heap_curr % 4096 = SizeofProcess + Header /\ heap_curr <= heap_max

BootInv ==
  /\ HeapInv
  /\ InsideHeap
  /\ stage \in {"buffer", "root", "dev", "nodes", "process", "pagedir", "any"}
  /\ stage = "buffer" => heap_curr = 0 /\ blocks = <<>>
  /\ stage \notin {"buffer", "any"} => stopped \/ Place

\* the assumption about the modes, request by request
LEMMA ModesFit ==
  /\ \A m \in Modes : m \in Nat \ {0}
  /\ MaxFiles \in Nat /\ heap_max \in Nat /\ heap_max % 4096 = 0
  /\ MaxCurr \in Nat /\ heap_max <= MaxCurr
  /\ Modes \cup Fillers \cup ClientSizes \subseteq Sizes /\ Sizes \subseteq Nat
  /\ {SizeofFsNode, SizeofProcess, SizeofPageDir} \subseteq Sizes
  /\ \A n \in 0 .. MaxFiles : SizeofFsNode * n \in Sizes
  /\ \A m \in Modes, n \in 0 .. MaxFiles :
       LET process == BeforeProcesses(m, n) + SizeofProcess + Header
       IN /\ BeforeProcesses(m, n) \in Nat /\ process <= heap_max
          /\ process % 4096 <= 4096 - Header
  <1>1. \A m \in Modes : m \in Nat \ {0}
    BY BootAssumption
  <1>2. UNION {Modes, Fillers, ClientSizes, {SizeofFsNode, SizeofProcess, SizeofPageDir},
            {SizeofFsNode * n : n \in 0 .. MaxFiles}} \subseteq Sizes
    BY BootAssumption
  <1>3. /\ Modes \cup Fillers \cup ClientSizes \subseteq Sizes
        /\ {SizeofFsNode, SizeofProcess, SizeofPageDir} \subseteq Sizes
        /\ {SizeofFsNode * n : n \in 0 .. MaxFiles} \subseteq Sizes
    BY <1>2
  <1>4. ASSUME NEW m \in Modes, NEW n \in 0 .. MaxFiles
        PROVE  LET process == BeforeProcesses(m, n) + SizeofProcess + Header
               IN /\ BeforeProcesses(m, n) \in Nat /\ process <= heap_max
                  /\ process % 4096 <= 4096 - Header
    <2> DEFINE nodes   == IF n = 0 THEN 0 ELSE SizeofFsNode * n + Header
               process == m + Header + 2 * (SizeofFsNode + Header) + nodes + SizeofProcess + Header
    <2>1. process <= heap_max /\ process % 4096 <= 4096 - Header
      BY BootAssumption
    <2>2. nodes \in Nat
      BY BootAssumption DEF SizeofFsNode, Header
    <2>3. BeforeProcesses(m, n) \in Nat /\ BeforeProcesses(m, n) + SizeofProcess + Header = process
      BY <1>1, <2>2 DEF BeforeProcesses, SizeofFsNode, SizeofProcess, Header
    <2> QED BY <2>1, <2>3
  <1> QED BY <1>1, <1>3, <1>4, BootAssumption, HeapAssumption

(* A request the boot makes, when it stays inside the heap or stops.       *)
LEMMA BootRequest ==
  ASSUME HeapInv, NEW size \in Sizes, NEW align \in BOOLEAN,
         align => AlignFits, heap_curr <= MaxCurr, Kmalloc(size, align)
  PROVE  /\ HeapNext /\ HeapInv'
         /\ \/ stopped' = TRUE /\ blocks' = blocks
            \/ size = 0 /\ blocks' = blocks /\ heap_curr' = Bumped(align)
            \/ /\ size # 0 /\ FitsIn(Bumped(align), size) /\ ~stopped'
               /\ heap_curr' = Bumped(align) + Header + size
         /\ ~stopped
  <1>1. HeapNext
    BY DEF HeapNext, Requests
  <1>2. HeapInv'
    BY HeapAssumption, KmallocInv
  <1> QED BY <1>1, <1>2 DEF Kmalloc, Refused, Moved

LEMMA PlainRequest ==
  ASSUME HeapInv, NEW size \in Sizes, heap_curr <= MaxCurr, Kmalloc(size, FALSE)
  PROVE  /\ HeapNext /\ HeapInv' /\ ~stopped
         /\ \/ stopped' = TRUE /\ blocks' = blocks
            \/ size = 0 /\ blocks' = blocks /\ heap_curr' = heap_curr
            \/ /\ size # 0 /\ FitsIn(heap_curr, size) /\ ~stopped'
               /\ heap_curr' = heap_curr + Header + size
  <1>1. ASSUME NEW align \in BOOLEAN, align = FALSE
        PROVE  /\ HeapNext /\ HeapInv' /\ ~stopped
               /\ \/ stopped' = TRUE /\ blocks' = blocks
                  \/ size = 0 /\ blocks' = blocks /\ heap_curr' = heap_curr
                  \/ /\ size # 0 /\ FitsIn(heap_curr, size) /\ ~stopped'
                     /\ heap_curr' = heap_curr + Header + size
    <2>1. Kmalloc(size, align) /\ Bumped(align) = heap_curr
      BY <1>1 DEF Bumped
    <2> QED BY <1>1, <2>1, BootRequest
  <1> QED BY <1>1

(* A block that ends inside the heap, or none, leaves the boot inside it.  *)
LEMMA StaysInside ==
  ASSUME BootInv, HeapInv', stage # "any", blocks' = blocks \/ heap_curr' <= heap_max
  PROVE  InsideHeap'
  <1>1. CASE blocks' = blocks
    BY <1>1 DEF BootInv, InsideHeap, End, heap_end
  <1>2. CASE heap_curr' <= heap_max
    <2> SUFFICES ASSUME NEW i \in 1 .. Len(blocks') PROVE End(blocks'[i]) <= heap_end
      BY DEF InsideHeap, End, heap_end
    <2>1. End(blocks'[i]) <= heap_curr' /\ heap_curr' \in Nat
      BY DEF HeapInv, CurrIsBeyondBlocks, HeapTypeOK, End
    <2>2. blocks'[i] \in Block
      <3>1. blocks' \in Seq(Block)
        BY DEF HeapInv, HeapTypeOK, Block
      <3> QED BY <3>1
    <2>3. End(blocks'[i]) \in Nat
      BY <2>2 DEF Block, End, Header
    <2> QED BY <1>2, <2>1, <2>3, HeapAssumption DEF heap_end
  <1> QED BY <1>1, <1>2

LEMMA BootInitInv == BootInit => BootInv
  <1> SUFFICES ASSUME BootInit PROVE BootInv
    OBVIOUS
  <1>1. HeapInv
    BY HeapInitInv DEF BootInit
  <1>2. Len(blocks) = 0
    BY DEF BootInit, HeapInit
  <1> QED BY <1>1, <1>2 DEF BootInit, HeapInit, BootInv, InsideHeap

LEMMA VesaBufferInv ==
  ASSUME BootInv, VesaBuffer
  PROVE  HeapNext /\ BootInv'
  <1>1. heap_curr = 0 /\ HeapInv /\ stage # "any"
    BY DEF VesaBuffer, BootInv
  <1>2. heap_curr <= MaxCurr
    BY <1>1, ModesFit
  <1>3. CASE (\E size \in Modes : Kmalloc(size, FALSE)) /\ stage' = "root"
    <2>1. PICK size \in Modes : Kmalloc(size, FALSE)
      BY <1>3
    <2>2. size \in Sizes /\ size \in Nat \ {0}
      BY ModesFit
    <2>3. /\ HeapNext /\ HeapInv'
          /\ (stopped' = TRUE /\ blocks' = blocks) \/ heap_curr' = heap_curr + Header + size
      <3>1. size # 0
        BY <2>2
      <3> QED BY <1>1, <1>2, <2>1, <2>2, <3>1, PlainRequest
    <2>4. size + Header <= heap_max
      BY ModesFit DEF BeforeProcesses, Header, SizeofFsNode, SizeofProcess
    <2>5. InsideHeap'
      BY <1>1, <2>2, <2>3, <2>4, StaysInside DEF Header
    <2>6. stopped' \/ Place'
      BY <1>1, <1>3, <2>2, <2>3 DEF Place, Header
    <2> QED BY <1>3, <2>3, <2>5, <2>6 DEF BootInv
  <1>4. CASE (\E size \in Fillers : Kmalloc(size, FALSE)) /\ stage' = "any"
    <2>1. PICK size \in Fillers : Kmalloc(size, FALSE)
      BY <1>4
    <2>2. size \in Sizes
      BY ModesFit
    <2>3. HeapNext /\ HeapInv'
      BY <1>1, <1>2, <2>1, <2>2, PlainRequest
    <2> QED BY <1>4, <2>3 DEF BootInv, InsideHeap
  <1> QED BY <1>3, <1>4 DEF VesaBuffer

(* The three requests of the disk: its two directories and its files.      *)
LEMMA InitrdInv ==
  ASSUME BootInv, InitrdRoot \/ InitrdDev \/ InitrdNodes
  PROVE  HeapNext /\ BootInv'
  <1>1. /\ HeapInv /\ stage \in {"root", "dev", "nodes"} /\ ~stopped
        /\ stage' = CASE stage = "root" -> "dev" [] stage = "dev" -> "nodes"
                      [] stage = "nodes" -> "process"
    BY DEF InitrdRoot, InitrdDev, InitrdNodes, Kmalloc, BootInv
  <1>2. PICK n \in 0 .. MaxFiles, size \in Sizes :
          /\ size = IF stage = "nodes" THEN SizeofFsNode * n ELSE SizeofFsNode
          /\ Kmalloc(size, FALSE)
    <2>1. 0 \in 0 .. MaxFiles
      BY ModesFit
    <2>2. CASE stage = "nodes"
      <3>1. InitrdNodes
        BY <2>2 DEF InitrdRoot, InitrdDev
      <3>2. PICK n \in 0 .. MaxFiles : Kmalloc(SizeofFsNode * n, FALSE)
        BY <3>1 DEF InitrdNodes
      <3>3. SizeofFsNode * n \in Sizes
        BY ModesFit
      <3> QED BY <2>2, <3>2, <3>3
    <2>3. CASE stage # "nodes"
      <3>1. Kmalloc(SizeofFsNode, FALSE)
        BY <2>3 DEF InitrdRoot, InitrdDev, InitrdNodes
      <3>2. SizeofFsNode \in Sizes
        BY ModesFit
      <3> QED BY <2>1, <2>3, <3>1, <3>2
    <2> QED BY <2>2, <2>3
  <1>3. PICK m \in Modes :
          heap_curr = CASE stage = "root" -> m + Header
                        [] stage = "dev" -> m + Header + SizeofFsNode + Header
                        [] stage = "nodes" -> BeforeProcesses(m, 0)
    BY <1>1 DEF BootInv, Place
  <1>4. m \in Nat /\ n \in Nat
    BY ModesFit
  <1>5. /\ BeforeProcesses(m, n) <= heap_max /\ BeforeProcesses(m, 0) <= heap_max
        /\ heap_curr <= heap_max
    <2>1. ASSUME NEW k \in 0 .. MaxFiles
          PROVE  BeforeProcesses(m, k) \in Nat /\ BeforeProcesses(m, k) <= heap_max
      BY ModesFit DEF Header, SizeofProcess
    <2>2. 0 \in 0 .. MaxFiles
      BY ModesFit
    <2>3. BeforeProcesses(m, 0) = m + 392
      BY <1>4 DEF BeforeProcesses, Header, SizeofFsNode
    <2>4. heap_curr <= BeforeProcesses(m, 0)
      BY <1>1, <1>3, <1>4, <2>3 DEF Header, SizeofFsNode
    <2>5. heap_curr \in Nat /\ heap_max \in Nat
      BY <1>1, HeapAssumption DEF HeapInv, HeapTypeOK
    <2> QED BY <2>1, <2>2, <2>4, <2>5
  <1>6. /\ HeapNext /\ HeapInv'
        /\ \/ stopped' = TRUE /\ blocks' = blocks
           \/ size = 0 /\ blocks' = blocks /\ heap_curr' = heap_curr
           \/ size # 0 /\ heap_curr' = heap_curr + Header + size /\ ~stopped'
    <2>1. heap_curr <= MaxCurr
      BY <1>5, ModesFit DEF HeapInv, HeapTypeOK, BootInv
    <2> QED BY <1>1, <1>2, <2>1, PlainRequest
  <1>7. stopped' \/ (heap_curr' =
          CASE stage = "root" -> m + Header + SizeofFsNode + Header
            [] stage = "dev" -> BeforeProcesses(m, 0)
            [] stage = "nodes" -> BeforeProcesses(m, n))
    BY <1>1, <1>2, <1>3, <1>4, <1>6 DEF BeforeProcesses, Header, SizeofFsNode
  <1>8. InsideHeap'
    <2>1. m + Header + SizeofFsNode + Header <= heap_max
      BY <1>4, <1>5, ModesFit DEF BeforeProcesses, Header, SizeofFsNode
    <2>2. blocks' = blocks \/ heap_curr' <= heap_max
      <3>1. CASE stopped' = TRUE
        BY <1>1, <1>2, <1>3, <1>6, <3>1, <1>5, <2>1
      <3>2. CASE stopped' # TRUE
        BY <1>1, <1>5, <1>6, <1>7, <2>1, <3>2
      <3> QED BY <3>1, <3>2
    <2> QED BY <1>1, <1>6, <2>2, StaysInside
  <1>9. stopped' \/ Place'
    BY <1>1, <1>4, <1>7 DEF Place
  <1> QED BY <1>1, <1>6, <1>8, <1>9 DEF BootInv

(* A process structure: behind the nodes, or at the start of a page.       *)
LEMMA CreateProcessInv ==
  ASSUME BootInv, CreateProcess
  PROVE  HeapNext /\ BootInv'
  <1>1. /\ HeapInv /\ stage = "process" /\ stage' = "pagedir" /\ ~stopped /\ Place
        /\ Kmalloc(SizeofProcess, FALSE)
    BY DEF CreateProcess, Kmalloc, BootInv
  <1>2. heap_curr \in Nat /\ heap_max \in Nat /\ SizeofProcess \in Sizes
    BY <1>1, ModesFit DEF HeapInv, HeapTypeOK
  <1>3. heap_curr <= heap_max
    BY <1>1, <1>2, ModesFit DEF Place, SizeofProcess, Header
  <1>4. /\ HeapNext /\ HeapInv'
        /\ \/ stopped' = TRUE /\ blocks' = blocks
           \/ /\ FitsIn(heap_curr, SizeofProcess) /\ ~stopped'
              /\ heap_curr' = heap_curr + Header + SizeofProcess
    <2>1. heap_curr <= MaxCurr
      BY <1>2, <1>3, ModesFit
    <2>2. SizeofProcess # 0
      BY DEF SizeofProcess
    <2> QED BY <1>1, <1>2, <2>1, <2>2, PlainRequest
  <1>5. CASE stopped' = TRUE /\ blocks' = blocks
    <2>1. InsideHeap'
      BY <1>1, <1>4, <1>5, StaysInside
    <2> QED BY <1>1, <1>4, <1>5, <2>1 DEF BootInv
  <1>6. CASE /\ FitsIn(heap_curr, SizeofProcess) /\ ~stopped'
             /\ heap_curr' = heap_curr + Header + SizeofProcess
    <2>1. CASE \E m \in Modes, n \in 0 .. MaxFiles : heap_curr = BeforeProcesses(m, n)
      <3>1. PICK m \in Modes, n \in 0 .. MaxFiles : heap_curr = BeforeProcesses(m, n)
        BY <2>1
      <3>2. heap_curr' = BeforeProcesses(m, n) + SizeofProcess + Header
        BY <1>2, <1>6, <3>1 DEF SizeofProcess, Header
      <3>3. Place'
        BY <1>1, <3>2 DEF Place
      <3>4. heap_curr' <= heap_max
        BY <3>2, ModesFit
      <3> QED BY <1>1, <1>4, <3>3, <3>4, StaysInside DEF BootInv
    <2>2. CASE heap_curr % 4096 = 0
      <3>1. heap_curr + SizeofProcess < heap_max
        BY <1>6 DEF FitsIn, SizeofProcess, heap_end
      <3>2. /\ heap_curr' % 4096 = SizeofProcess + Header
            /\ heap_curr' <= heap_max
        BY <1>2, <1>6, <2>2, <3>1, ModesFit DEF SizeofProcess, Header
      <3>3. Place'
        BY <1>1, <3>2 DEF Place
      <3> QED BY <1>1, <1>4, <3>2, <3>3, StaysInside DEF BootInv
    <2> QED BY <1>1, <2>1, <2>2 DEF Place
  <1> QED BY <1>4, <1>5, <1>6

(* Its page directory: the obligation holds, and the two pages end on the  *)
(* page where the next process starts.                                     *)
LEMMA CreateProcessDirInv ==
  ASSUME BootInv, CreateProcessDir
  PROVE  HeapNext /\ BootInv'
  <1>1. /\ HeapInv /\ stage = "pagedir" /\ stage' = "process" /\ ~stopped /\ Place
        /\ Kmalloc(SizeofPageDir, TRUE)
    BY DEF CreateProcessDir, Kmalloc, BootInv
  <1>2. heap_curr \in Nat /\ heap_max \in Nat /\ SizeofPageDir \in Sizes
    BY <1>1, ModesFit DEF HeapInv, HeapTypeOK
  <1>3. heap_curr <= heap_max /\ AlignFits
    BY <1>1, <1>2, ModesFit DEF Place, AlignFits, SizeofProcess, Header
  <1>4. /\ HeapNext /\ HeapInv'
        /\ \/ stopped' = TRUE /\ blocks' = blocks
           \/ /\ FitsIn(PAGE_ALIGN(heap_curr) - Header, SizeofPageDir) /\ ~stopped'
              /\ heap_curr' = PAGE_ALIGN(heap_curr) - Header + Header + SizeofPageDir
    <2>1. heap_curr <= MaxCurr
      BY <1>2, <1>3, ModesFit
    <2>2. SizeofPageDir # 0
      BY DEF SizeofPageDir
    <2>3. ASSUME NEW align \in BOOLEAN, align = TRUE
          PROVE  <1>4!:
      <3>1. Kmalloc(SizeofPageDir, align) /\ Bumped(align) = PAGE_ALIGN(heap_curr) - Header
        BY <1>1, <2>3 DEF Bumped
      <3> QED BY <1>1, <1>2, <1>3, <2>1, <2>2, <3>1, BootRequest
    <2> QED BY <2>3
  <1>5. CASE stopped' = TRUE /\ blocks' = blocks
    <2>1. InsideHeap'
      BY <1>1, <1>4, <1>5, StaysInside
    <2> QED BY <1>1, <1>4, <1>5, <2>1 DEF BootInv
  <1>6. CASE /\ FitsIn(PAGE_ALIGN(heap_curr) - Header, SizeofPageDir) /\ ~stopped'
             /\ heap_curr' = PAGE_ALIGN(heap_curr) - Header + Header + SizeofPageDir
    <2> DEFINE page == PAGE_ALIGN(heap_curr)
    <2>1. page \in Nat /\ page % 4096 = 0
      BY <1>2 DEF PAGE_ALIGN
    <2>2. page - Header + SizeofPageDir < heap_max
      BY <1>6 DEF FitsIn, SizeofPageDir, heap_end
    <2>3. heap_curr' % 4096 = 0 /\ heap_curr' <= heap_max
      <3> HIDE DEF page
      <3>1. heap_curr' = page + 8192 /\ page + 8184 < heap_max /\ page + 8192 \in Nat
        BY <1>6, <2>1, <2>2 DEF SizeofPageDir, Header, page
      <3>2. (page + 8192) % 4096 = 0
        BY <2>1
      <3>3. heap_max \in Nat /\ heap_max % 4096 = 0
        BY ModesFit
      <3>4. PICK k \in Nat : page = 4096 * k
        BY <2>1
      <3> DEFINE h == heap_max \div 4096
      <3>5. h \in Nat /\ heap_max = 4096 * h
        BY <3>3
      <3> HIDE DEF h
      <3>6. k + 2 <= h
        BY <3>1, <3>4, <3>5
      <3> QED BY <3>1, <3>2, <3>4, <3>5, <3>6
    <2>4. Place'
      BY <1>1, <2>3 DEF Place
    <2> QED BY <1>1, <1>4, <2>3, <2>4, StaysInside DEF BootInv
  <1> QED BY <1>4, <1>5, <1>6

LEMMA BootStepInv == BootInv /\ [BootNext]_bootVars => BootInv' /\ [HeapNext]_heapVars
  <1> SUFFICES ASSUME BootInv, [BootNext]_bootVars PROVE BootInv' /\ [HeapNext]_heapVars
    OBVIOUS
  <1>1. CASE VesaBuffer
    BY <1>1, VesaBufferInv
  <1>2. CASE InitrdRoot \/ InitrdDev \/ InitrdNodes
    BY <1>2, InitrdInv
  <1>3. CASE CreateProcess
    BY <1>3, CreateProcessInv
  <1>4. CASE CreateProcessDir
    BY <1>4, CreateProcessDirInv
  <1>5. CASE AnyClient
    <2>1. stage = "any" /\ stage' = "any"
      BY <1>5 DEF AnyClient
    <2>2. HeapNext
      <3>1. PICK size \in ClientSizes, align \in BOOLEAN : Requests(size, align)
        BY <1>5 DEF AnyClient
      <3>2. size \in Sizes
        BY ModesFit
      <3> QED BY <3>1, <3>2 DEF HeapNext
    <2>3. HeapInv'
      BY <2>2, HeapStepInv DEF BootInv
    <2> QED BY <2>1, <2>2, <2>3 DEF BootInv, InsideHeap
  <1>6. CASE UNCHANGED bootVars
    <2>1. UNCHANGED heapVars /\ stage' = stage
      BY <1>6 DEF bootVars, heapVars
    <2>2. HeapInv'
      BY <2>1, HeapStepInv DEF BootInv
    <2>3. InsideHeap' /\ (Place' <=> Place)
      BY <2>1 DEF BootInv, InsideHeap, Place, heapVars, End, heap_end
    <2> QED BY <2>1, <2>2, <2>3 DEF BootInv, heapVars
  <1> QED BY <1>1, <1>2, <1>3, <1>4, <1>5, <1>6 DEF BootNext

LEMMA BootInvariant == BootSpec => []BootInv
  BY BootInitInv, BootStepInv, PTL DEF BootSpec

(* The kernel's requests, in the order of kmain, are the requests of a     *)
(* caller that keeps the heap's obligation: no page directory's header is  *)
(* ever put back over the block before it (heap.c:23), with any number of  *)
(* files and of processes.                                                 *)
THEOREM BootMeetsObligation == BootSpec => BootKeepsObligation
  <1>1. BootInit => HeapInit
    BY DEF BootInit
  <1> QED BY <1>1, BootInvariant, BootStepInv, PTL
          DEF BootSpec, BootKeepsObligation, HeapSpec

(* No block of the boot goes beyond the mapped heap, though ksbrk does not *)
(* count headers: processes are created until the heap is used up          *)
(* (heap.c:22-43, paging.c:259).                                           *)
THEOREM BootStaysInside == BootSpec => []InsideHeap
  BY BootInvariant, PTL DEF BootInv
=============================================================================
