------------------------------ MODULE HeapBoot ------------------------------
(***************************************************************************)
(* The kernel's own use of its heap, in the order of kmain: the back       *)
(* buffer of vesa_graphics_init, the nodes of initrd_init, and the two     *)
(* requests of every create_process.  Sizes are the real ones.  To reach   *)
(* the end of the heap, a buffer may also leave a few pages only and be    *)
(* followed by a client that asks for anything.                            *)
(***************************************************************************)
EXTENDS Kheap

CONSTANTS
  Modes,               \* bytes of a frame buffer, one for each video mode
  MaxFiles,            \* files in the initrd image
  MaxProcesses,        \* bound: how often create_process is called
  Fillers,             \* buffers that leave only the end of the heap
  ClientSizes          \* what a client asks for there

VARIABLES
  stage,               \* which request comes next; "any" = any client's
  nprocs               \* processes created

bootVars == <<heap_curr, blocks, stopped, stage, nprocs>>

SizeofFsNode  == 184
SizeofProcess == 76
SizeofPageDir == 8192

(* A mode is one whose buffer leaves room for the disk's nodes and a       *)
(* process, and whose size does not put the first page directory's header  *)
(* across the end of a page: the code does not look.                       *)
ASSUME BootAssumption ==
  /\ Modes \subseteq Nat \ {0} /\ MaxFiles \in Nat /\ MaxProcesses \in Nat
  /\ UNION {Modes, Fillers, ClientSizes, {SizeofFsNode, SizeofProcess, SizeofPageDir},
            {SizeofFsNode * n : n \in 0 .. MaxFiles}} \subseteq Sizes
  /\ heap_max % 4096 = 0 /\ MaxCurr \in Nat /\ heap_max <= MaxCurr
  /\ \A mode \in Modes, nfiles \in 0 .. MaxFiles :
       LET nodes   == IF nfiles = 0 THEN 0 ELSE SizeofFsNode * nfiles + Header
           process == mode + Header + 2 * (SizeofFsNode + Header) + nodes + SizeofProcess + Header
       IN process <= heap_max /\ process % 4096 <= 4096 - Header

BootInit ==
  /\ HeapInit
  /\ stage = "buffer"
  /\ nprocs = 0

VesaBuffer ==
  /\ stage = "buffer"
  /\ \/ /\ \E size \in Modes : Kmalloc(size, FALSE)
        /\ stage' = "root"
     \/ /\ \E size \in Fillers : Kmalloc(size, FALSE)
        /\ stage' = "any"
  /\ UNCHANGED nprocs

InitrdRoot ==
  /\ stage = "root"
  /\ Kmalloc(SizeofFsNode, FALSE)
  /\ stage' = "dev"
  /\ UNCHANGED nprocs

InitrdDev ==
  /\ stage = "dev"
  /\ Kmalloc(SizeofFsNode, FALSE)
  /\ stage' = "nodes"
  /\ UNCHANGED nprocs

\* mutant: the files of the image are not limited to the headers it has
InitrdNodes_Unlimited ==
  /\ stage = "nodes"
  /\ \E nfiles \in 0 .. 5 * MaxFiles : Kmalloc(SizeofFsNode * nfiles, FALSE)
  /\ stage' = "process"
  /\ UNCHANGED nprocs

InitrdNodes ==
  /\ stage = "nodes"
  /\ \E nfiles \in 0 .. MaxFiles : Kmalloc(SizeofFsNode * nfiles, FALSE)
  /\ stage' = "process"
  /\ UNCHANGED nprocs

CreateProcess ==
  /\ stage = "process"
  /\ nprocs < MaxProcesses
  /\ Kmalloc(SizeofProcess, FALSE)
  /\ nprocs' = nprocs + 1
  /\ stage' = "pagedir"

CreateProcessDir ==
  /\ stage = "pagedir"
  /\ Kmalloc(SizeofPageDir, TRUE)
  /\ stage' = "process"
  /\ UNCHANGED nprocs

AnyClient ==
  /\ stage = "any"
  /\ \E size \in ClientSizes, align \in BOOLEAN :
       Requests(size, align)
  /\ UNCHANGED <<stage, nprocs>>

BootNext ==
  \/ VesaBuffer
  \/ InitrdRoot
  \/ InitrdDev
  \/ InitrdNodes
  \/ CreateProcess
  \/ CreateProcessDir
  \/ AnyClient

BootSpec == BootInit /\ [][BootNext]_bootVars

-----------------------------------------------------------------------------
(* In every video mode, with every number of initrd files, the boot keeps  *)
(* the heap's obligation: no aligned request is made in the last bytes of  *)
(* a page (paging structures would overwrite the block before them).       *)
BootKeepsObligation == HeapSpec

(* No block of the boot reaches beyond the pages heap_init mapped.         *)
InsideHeap ==
  stage # "any" => \A i \in 1 .. Len(blocks) : End(blocks[i]) <= heap_end
=============================================================================
