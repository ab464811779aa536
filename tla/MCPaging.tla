------------------------------ MODULE MCPaging ------------------------------
(***************************************************************************)
(* Paging with pages of four words of two bytes of two bits: 32 MB become  *)
(* 20 pages, the dumb heap 12, so that the heap starts inside the identity *)
(* map and ends outside it, as in the kernel.                              *)
(***************************************************************************)
EXTENDS Paging

\* set_block's bits for these fall behind the tables, or where the tables of
\* later processes will be
MC_Lfbs == [base : {220}, length : {1, 3}] \cup [base : {238}, length : {1, 2, 6}]

\* heap_init needs four blocks behind the 20, a process two.  23: memory runs
\* out in heap_init; 27: in create_process; of both, as of 41, the last block
\* is in a byte that is not scanned
MC_RamSizes == {23, 27, 41}

\* 5000: code longer than the one page create_process maps
MC_CodeLengths == {1, 4096, 5000}

\* the bits for the pages of the second table fall into that table
MC_LfbsStray == {[base |-> 188, length |-> 8]}

\* the frame buffers of the passing run are those the theorem speaks of
ASSUME MC_BitsMissTheTables == Lfbs = MC_Lfbs => BitsMissTheTables
=============================================================================
