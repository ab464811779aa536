------------------------------- MODULE Paging -------------------------------
(***************************************************************************)
(* Page directories and tables, kernel/arch/i386/mem/paging.c, through the *)
(* calls the kernel makes: paging_init, heap_init (mem/heap.c), vesa_      *)
(* graphics_init (gfx/vesa_graphics.c), and create_process (sys/proc.c).   *)
(*                                                                         *)
(* Addresses are page numbers.  The kernel's virtual page BASE + i is      *)
(* physical page i; everything behind the bitmap is laid out by the code:  *)
(* bitmap, kpage_dir, the tables of dumb_kmalloc_a, the heap.  A table     *)
(* entry is named by the number of its 4-byte word in physical memory, so  *)
(* that a bit written beyond the bitmap can be followed to what it hits.   *)
(*                                                                         *)
(* Interrupt handlers map nothing, so one action is one call of map_       *)
(* virtual_address with its caller's loop around it.  The frames come from *)
(* the allocator FrameAllocator specifies and Pmm implements.  Entries are *)
(* only ever added and CR3 is reloaded before they are used, so the TLB    *)
(* never differs from the tables.                                          *)
(***************************************************************************)
EXTENDS Integers, FiniteSets

CONSTANTS
  Entries,             \* entries of a table, words of a page: 1024
  DirSize,             \* entries of a directory: 1024
  WordBits,            \* bits of a word: 32
  BITSIZE,             \* bits of a byte: 8
  BASE,                \* BASE_VIRTUAL
  KernelMap,           \* pages paging_init maps: 32 MB
  TmpPages,            \* pages of the dumb heap: 4 MB
  HeapPages,           \* heap_max: 32 MB
  BitmapWord,          \* the word at which the bitmap starts
  RamSizes,            \* numbers of blocks
  Lfbs,                \* frame buffers: [base, length], in pages
  LastFrame,           \* the block of address 0xFFFFFFFF
  CodeLengths,         \* what create_process is given, in bytes
  MaxProcesses         \* bound: how often create_process is called

\* pmm_init rounds the size of the bitmap of r blocks up to a whole byte
BitmapBits(r) == (IF r % BITSIZE = 0 THEN r \div BITSIZE ELSE r \div BITSIZE + 1) * BITSIZE

\* paging_init: the page behind the bitmap of r blocks
BehindBitmap(r) == (BitmapWord + BitmapBits(r) \div WordBits) \div Entries + 1

ASSUME PagingAssumption ==
  /\ {Entries, DirSize, WordBits, BITSIZE, BASE, KernelMap, TmpPages, HeapPages} \subseteq Nat \ {0}
  /\ {BitmapWord, LastFrame, MaxProcesses} \subseteq Nat
  /\ RamSizes \subseteq Nat /\ CodeLengths \subseteq Nat \ {0}
  /\ \A r \in RamSizes : KernelMap <= r /\ BitmapBits(r) <= LastFrame
  /\ \A l \in Lfbs : l.base \in Nat /\ l.length \in Nat \ {0}

(* What is mapped lies in the address space, the first table's share of it *)
(* below BASE, and the frame buffer, a device, behind the memory.          *)
ASSUME AddressSpaceAssumption ==
  /\ Entries <= BASE /\ Entries <= KernelMap
  /\ BASE + KernelMap <= DirSize * Entries
  /\ \A r \in RamSizes : BASE + BehindBitmap(r) + TmpPages + 1 + HeapPages <= DirSize * Entries
  /\ \A l \in Lfbs : l.base + l.length <= DirSize * Entries
  /\ \A l \in Lfbs, r \in RamSizes : r <= l.base
  /\ \A n \in CodeLengths : n \div 4096 + 1 < DirSize * Entries

NoTable   == 0
Absent    == -1
Any       == -1                        \* map_virtual_address(..., -1, ...)
kpage_dir == 0
Processes == 1 .. MaxProcesses
Dirs      == {kpage_dir} \cup Processes

VARIABLES
  ram, lfb,            \* the machine: blocks of memory, the frame buffer
  ref_tables,          \* of each directory: the physical page of each table
  pte,                 \* the frame in each word of memory that is a table entry
  spoiled,             \* words beyond the bitmap that set_block wrote to
  tmp_heap,            \* where dumb_kmalloc_a allocates from
  logged,              \* dumb_kmalloc_a has said OOPS
  granted, withheld,   \* blocks handed out, blocks marked by set_block
  content,             \* whose code each frame holds
  heap_start,
  phase, at,           \* where the boot is, the page its loop has reached
  nprocs, length       \* processes begun, code_length of the last

machine   == <<ram, lfb>>
tables    == <<ref_tables, pte, spoiled, tmp_heap, logged, granted, withheld>>
pagingVars == <<machine, tables, content, heap_start, phase, at, nprocs, length>>

Memory  == 0 .. ram - 1
Covered == 0 .. BitmapBits(ram) - 1                \* blocks with a bit in the bitmap
Scanned == 0 .. (ram \div BITSIZE) * BITSIZE - 1   \* those of its whole bytes

tmp_heap_0   == BehindBitmap(ram)
tmp_heap_end == tmp_heap_0 + TmpPages

Word(t, j)  == t * Entries + j
Words(t)    == {Word(t, j) : j \in 0 .. Entries - 1}

Table(d, v) == ref_tables[d][v \div Entries]
Entry(d, v) == Word(Table(d, v), v % Entries)
Mapped(d, v) == Table(d, v) # NoTable /\ (pte[Entry(d, v)] # Absent \/ Entry(d, v) \in spoiled)
Filled(d)   == {i \in 0 .. DirSize - 1 : ref_tables[d][i] # NoTable}
InUse       == UNION {{ref_tables[d][i] : i \in Filled(d)} : d \in Dirs}
HeapVirtual == BASE + heap_start .. BASE + heap_start + HeapPages - 1

-----------------------------------------------------------------------------
PagingInit ==
  /\ ram \in RamSizes /\ lfb \in Lfbs
  /\ ref_tables = [d \in Dirs |-> [i \in 0 .. DirSize - 1 |-> NoTable]]
  /\ pte = [w \in {} |-> Absent]
  /\ spoiled = {}
  /\ tmp_heap = tmp_heap_0 + 2                 \* kpage_dir: the two pages before
  /\ logged = (tmp_heap >= tmp_heap_end)
  /\ granted = {} /\ withheld = {}
  /\ content = [f \in Memory |-> kpage_dir]
  /\ heap_start = 0
  /\ phase = "identity" /\ at = 0
  /\ nprocs = 0 /\ length = 0

\* mutant: no bump
Bumped_Not == tmp_heap

(* dumb_kmalloc_a of one page: IS_ALIGN is false of every address but 0,   *)
(* so PAGE_ALIGN moves on to the next page and tmp_heap follows.           *)
Bumped == tmp_heap + 1

\* mutants: the block is not marked; the error value counts as a block
Granting_Unmarked(f) == UNCHANGED granted
Granting_Any(f)      == granted' = granted \cup {f}

Granting(f) == granted' = granted \cup ({f} \cap Memory)

\* first_free_block looks at the whole bytes only
Free == Scanned \ (granted \cup withheld)

(* allocate_block: the first free block, or 0xFFFFFFFF. *)
Allocated(f) ==
  \/ f \in Free /\ \A g \in Free : f <= g
  \/ Free = {} /\ f = LastFrame

(* SETBIT(f): a word of the bitmap, or one behind it. *)
Hit(f) == IF f \in Covered THEN {} ELSE {BitmapWord + f \div WordBits}

\* mutant: a new table is not cleared
Cleared_Not(t) == spoiled

(* memset(t, 0, sizeof(page_table_t)) *)
Cleared(t) == spoiled \ Words(t)
Blank(t)   == [w \in DOMAIN pte \cup Words(t) |-> IF w \in Words(t) THEN Absent ELSE pte[w]]

(* map_virtual_address(d, v, want, 1) *)
MapPage(d, v, want) ==
  LET fresh == Table(d, v) = NoTable
      t     == IF fresh THEN Bumped ELSE Table(d, v)
      clean == IF fresh THEN Cleared(t) ELSE spoiled
      held  == IF fresh THEN Blank(t) ELSE pte
  IN  /\ IF fresh
         THEN /\ ref_tables' = [ref_tables EXCEPT ![d][v \div Entries] = t]
              /\ tmp_heap' = t
              /\ logged' = (logged \/ t >= tmp_heap_end)
         ELSE UNCHANGED <<ref_tables, tmp_heap, logged>>
      /\ IF Mapped(d, v)                 \* whatever frame is asked for
         THEN UNCHANGED <<pte, spoiled, granted, withheld>>
         ELSE \E f \in Memory \cup {LastFrame, want} :
                /\ IF want = Any
                   THEN Allocated(f) /\ Granting(f) /\ UNCHANGED withheld
                   ELSE f = want /\ withheld' = withheld \cup ({f} \cap Memory) /\ UNCHANGED granted
                /\ spoiled' = clean \cup Hit(f)
                /\ pte' = [held EXCEPT ![Word(t, v % Entries)] = f]

-----------------------------------------------------------------------------
\* mutant: the last page is left out
Advance_Short(n, next) ==
  IF at + 2 < n THEN at' = at + 1 /\ UNCHANGED phase
                ELSE at' = 0 /\ phase' = next

\* a loop's step: the next page, or, after the last of n, the next phase
Advance(n, next) ==
  IF at + 1 < n THEN at' = at + 1 /\ UNCHANGED phase
                ELSE at' = 0 /\ phase' = next

(* paging_init: the first 32 MB of memory at BASE_VIRTUAL. *)
MapIdentity ==
  /\ phase = "identity"
  /\ MapPage(kpage_dir, BASE + at, at)
  /\ Advance(KernelMap, "heap_init")
  /\ UNCHANGED <<machine, content, heap_start, nprocs, length>>

\* mutant: the heap starts behind the tables there are so far
HeapStart_BehindTables == tmp_heap + 1

HeapStart == tmp_heap_end + 1                  \* PAGE_ALIGN(tmp_heap_end)

PlaceHeap ==
  /\ phase = "heap_init"
  /\ heap_start' = HeapStart
  /\ phase' = "heap"
  /\ UNCHANGED <<machine, tables, content, at, nprocs, length>>

(* heap_init: any frames for the heap's pages, most of which paging_init   *)
(* has mapped already.                                                     *)
MapHeap ==
  /\ phase = "heap"
  /\ MapPage(kpage_dir, BASE + heap_start + at, Any)
  /\ Advance(HeapPages, "lfb")
  /\ UNCHANGED <<machine, content, heap_start, nprocs, length>>

(* vesa_graphics_init: the frame buffer at its own address. *)
MapLfb ==
  /\ phase = "lfb"
  /\ MapPage(kpage_dir, lfb.base + at, lfb.base + at)
  /\ Advance(lfb.length, "idle")
  /\ UNCHANGED <<machine, content, heap_start, nprocs, length>>

\* mutants: the tables of the last process are linked; only those of paging_init are
Linked_Parent == ref_tables[nprocs]
Linked_Identity ==
  [i \in 0 .. DirSize - 1 |->
     IF i * Entries \in BASE .. BASE + KernelMap - 1 THEN ref_tables[kpage_dir][i] ELSE NoTable]

(* copy_page_directory(dst, kpage_dir): every entry is the kernel's own, so *)
(* every table is linked and none copied.                                  *)
Linked == ref_tables[kpage_dir]

CreateProcess ==
  /\ phase = "idle"
  /\ nprocs < MaxProcesses
  /\ length' \in CodeLengths
  /\ nprocs' = nprocs + 1
  /\ ref_tables' = [ref_tables EXCEPT ![nprocs'] = Linked]
  /\ phase' = "text"
  /\ UNCHANGED <<machine, pte, spoiled, tmp_heap, logged, granted, withheld, content, heap_start, at>>

MapText ==
  /\ phase = "text"
  /\ MapPage(nprocs, 0, Any)
  /\ phase' = "stack"
  /\ UNCHANGED <<machine, content, heap_start, at, nprocs, length>>

MapStack ==
  /\ phase = "stack"
  /\ MapPage(nprocs, length \div 4096 + 1, Any)          \* PAGE_ALIGN(code_length)
  /\ phase' = "load"
  /\ UNCHANGED <<machine, content, heap_start, at, nprocs, length>>

(* load_page_dir of the new directory, and memcpy(0x0, code, code_length)  *)
(* through it.  A page that is not there ends in page_fault, for ever.     *)
LoadCode ==
  /\ phase = "load"
  /\ LET pages == 0 .. (length + 4095) \div 4096 - 1
         there == {v \in pages : \A u \in 0 .. v : Mapped(nprocs, u)}
     IN  /\ content' = [f \in Memory |-> IF \E v \in there : pte[Entry(nprocs, v)] = f
                                         THEN nprocs ELSE content[f]]
         /\ phase' = IF there = pages THEN "idle" ELSE "faulted"
  /\ UNCHANGED <<machine, tables, heap_start, at, nprocs, length>>

PagingNext ==
  \/ MapIdentity
  \/ PlaceHeap
  \/ MapHeap
  \/ MapLfb
  \/ CreateProcess
  \/ MapText
  \/ MapStack
  \/ LoadCode

PagingSpec == PagingInit /\ [][PagingNext]_pagingVars

-----------------------------------------------------------------------------
PagingTypeOK ==
  /\ ram \in RamSizes /\ lfb \in Lfbs
  /\ ref_tables \in [Dirs -> [0 .. DirSize - 1 -> Nat]]
  /\ pte \in [UNION {Words(t) : t \in InUse} -> Nat \cup {Absent}]
  /\ spoiled \subseteq Nat
  /\ tmp_heap \in Nat /\ logged \in BOOLEAN
  /\ granted \subseteq Memory /\ withheld \subseteq Memory
  /\ content \in [Memory -> Dirs]
  /\ heap_start \in Nat /\ at \in Nat
  /\ nprocs \in 0 .. MaxProcesses /\ length \in CodeLengths \cup {0}
  /\ phase \in {"identity", "heap_init", "heap", "lfb", "idle", "text", "stack", "load", "faulted"}

(* No block of memory is behind two table entries: not two pages of the    *)
(* kernel, not two processes, not a process and the kernel (the heap lies  *)
(* across the end of the identity map, and allocation follows it).         *)
NoFrameMappedTwice ==
  \A w, x \in DOMAIN pte : pte[w] = pte[x] /\ pte[w] \in Memory => w = x

(* Every process sees all of the kernel's memory, also what was mapped     *)
(* since (paging.c:80 "Link kernel pages"), and has no other table in      *)
(* common with anybody, nor one table twice (dumb_kmalloc_a).              *)
OnlyTheKernelIsShared ==
  /\ \A p \in 1 .. nprocs : \A i \in Filled(kpage_dir) : ref_tables[p][i] = ref_tables[kpage_dir][i]
  /\ \A d, e \in Dirs : \A i \in Filled(d), j \in Filled(e) :
       ref_tables[d][i] = ref_tables[e][j] => i = j /\ (d = e \/ ref_tables[kpage_dir][i] = ref_tables[d][i])

(* Once heap_init is through, every page of the heap has a block of memory *)
(* of its own, unless the memory ran out (but for the blocks of a byte the *)
(* memory ends in), in which case pages have the frame of 0xFFFFFFFF.      *)
HeapIsBacked ==
  phase \notin {"identity", "heap_init", "heap"} =>
    \A v \in HeapVirtual :
      /\ Mapped(kpage_dir, v)
      /\ pte[Entry(kpage_dir, v)] \in Memory \/ Free = {}

(* A process keeps the code it was given, whatever processes come after.   *)
CodeStays ==
  \A p \in 1 .. nprocs :
    (p < nprocs \/ phase = "idle") /\ pte[Entry(p, 0)] \in Memory => content[pte[Entry(p, 0)]] = p

(* vesa_graphics.c:233 "Identity map linear frame buffer": a page of the   *)
(* frame buffer is at its own address.                                     *)
LfbIsIdentityMapped ==
  \A i \in 0 .. lfb.length - 1 :
    phase = "idle" \/ (phase = "lfb" /\ i < at) =>
      /\ pte[Entry(kpage_dir, lfb.base + i)] = lfb.base + i
      /\ Entry(kpage_dir, lfb.base + i) \notin spoiled

(* The directory and the tables in use keep their memory: the bits set for *)
(* the blocks of the frame buffer fall elsewhere (pmm.c:25 "sets bit for   *)
(* addr in bitmap"), and none lies in the heap before the log says so      *)
(* (paging.c:29).                                                          *)
TablesKeepTheirMemory ==
  /\ spoiled \cap UNION {Words(t) : t \in InUse \cup {tmp_heap_0 + 1, tmp_heap_0 + 2}} = {}
  /\ phase \notin {"identity", "heap_init"} => logged \/ \A t \in InUse : t < heap_start

(* When stray bits miss the tables.  The kernel's tables lie one behind    *)
(* the other, one for each share of the address space it maps; processes   *)
(* have one or two more.  A frame buffer's bits may fall where tables of   *)
(* processes will be, for these are cleared; the bit of 0xFFFFFFFF, which  *)
(* is set when there is no memory left, must fall behind all of them.      *)
KernelShares(r, l) ==
  {v \div Entries :
     v \in (BASE .. BASE + KernelMap - 1)
            \cup (BASE + BehindBitmap(r) + TmpPages + 1 ..
                    BASE + BehindBitmap(r) + TmpPages + HeapPages)
            \cup (l.base .. l.base + l.length - 1)}

TablesOfProcess ==
  IF \A n \in CodeLengths : (n \div 4096 + 1) \div Entries = 0 THEN 1 ELSE 2

KernelTablesEnd(r, l) == BehindBitmap(r) + 2 + Cardinality(KernelShares(r, l))

BitFallsBehind(f, t) == BitmapWord + f \div WordBits >= (t + 1) * Entries

BitsMissTheTables ==
  \A r \in RamSizes, l \in Lfbs :
    /\ \A f \in l.base .. l.base + l.length - 1 : BitFallsBehind(f, KernelTablesEnd(r, l))
    /\ BitFallsBehind(LastFrame, KernelTablesEnd(r, l) + MaxProcesses * TablesOfProcess)
=============================================================================
