------------------------------ MODULE MCKheap ------------------------------
(***************************************************************************)
(* HeapBoot with the kernel's 32 MB heap, the 64 files of the initrd       *)
(* format, and five video modes.  The client at the end of the heap has    *)
(* three pages and asks for sizes around the cases that matter: zero, one  *)
(* that leaves the next header in the last bytes of a page, one that fills *)
(* the heap to the byte, the largest ksbrk grants, which ends seven bytes  *)
(* behind the heap, and one that sixteen bits truncate to zero.            *)
(***************************************************************************)
EXTENDS HeapBoot

MC_heap_max == 32 * 1024 * 1024
MC_MaxCurr == MC_heap_max + 4096
MC_MaxFiles == 64
MC_MaxProcesses == 32

\* 640x480x4, 800x600x3, 1024x768x4, 1920x1080x4, 3840x2160x4
MC_Modes == {1228800, 1440000, 3145728, 8294400, 33177600}
MC_Fillers == {MC_heap_max - 3 * 4096 - Header}

MC_ClientSizes == {0, 1000, 2012, 4076, 8176, 8184, 12280, 12287, 65536}

\* 309 files, more than the disk has headers, would put a header across a page's end
MC_Sizes ==
  UNION {MC_Modes, MC_Fillers, MC_ClientSizes, {SizeofProcess, SizeofPageDir},
         {SizeofFsNode * n : n \in (0 .. MC_MaxFiles) \cup {309}}}
=============================================================================
