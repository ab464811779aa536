------------------------------- MODULE Initrd -------------------------------
(***************************************************************************)
(* The initial RAM disk: initrd/initrd_gen.c writes the image on the host, *)
(* fs/initrd.c mounts it where GRUB has put it, and fs/vfs.c calls through *)
(* the operations of a node.  A byte and a name are values that are only   *)
(* compared; an address is a number.                                       *)
(***************************************************************************)
EXTENDS Naturals, Sequences, SequencesExt

CONSTANTS
  Files,               \* what initrd_gen may be given: names with the bytes of the file
  MaxFiles,            \* bound: how many
  Location,            \* where the image is
  DirName,             \* "dev", the name of initrd_dev
  Word                 \* how many values a uint32_t has

HeaderSize == 76
MaxHeaders == 64
DataStart  == HeaderSize * MaxHeaders + 4

Names == {f.name : f \in Files}
Bytes == UNION {ToSet(f.bytes) : f \in Files}

ASSUME InitrdAssumption ==
  /\ Files \subseteq [name : Names, bytes : Seq(Bytes)]
  /\ MaxFiles \in 0 .. MaxHeaders
  /\ Location \in Nat /\ Word \in Nat

VARIABLES
  argv,                \* the files initrd_gen was given
  image,               \* memory from the first byte behind the headers on
  file_headers,        \* offset and length of every file
  root_nodes           \* the nodes of the files

initrdVars == <<argv, image, file_headers, root_nodes>>

-----------------------------------------------------------------------------
(* initrd_gen.                                                             *)

Written(files) == FlattenSeq([i \in DOMAIN files |-> files[i].bytes])

\* mutant: every file is said to begin where the data begins
OffsetOf_NotMoved(files, i) == DataStart

\* off += headers[i].length
OffsetOf(files, i) == DataStart + Len(Written(SubSeq(files, 1, i - 1)))

Header(files, i) ==
  [name |-> files[i].name, offset |-> OffsetOf(files, i), length |-> Len(files[i].bytes)]

-----------------------------------------------------------------------------
(* initrd_init and the operations of its nodes.                            *)

Directory(name) == [name |-> name, flags |-> "DIRECTORY", inode |-> 0, length |-> 0]

initrd_root == Directory("initrd")
initrd_dev  == Directory(DirName)

FileNode(header, i) ==
  [name |-> header.name, flags |-> "FILE", inode |-> i, length |-> header.length]

InitrdInit ==
  /\ argv \in BoundedSeq(Files, MaxFiles)
  /\ \A i, j \in DOMAIN argv : argv[i].name = argv[j].name => argv[i] = argv[j]
  /\ image = <<>> /\ file_headers = <<>> /\ root_nodes = <<>>

(* GRUB loads what initrd_gen wrote; initrd_init adds the location to each *)
(* offset, in place, and makes a node for each header.                     *)
InitrdMount ==
  /\ image' = Written(argv)
  /\ file_headers' =
       [i \in DOMAIN argv |-> [Header(argv, i) EXCEPT !.offset = @ + Location]]
  /\ root_nodes' = [i \in DOMAIN argv |-> FileNode(Header(argv, i), i)]
  /\ UNCHANGED argv

\* what lies beyond the image is not known
Memory(address) ==
  LET i == address - Location - DataStart + 1
  IN IF i \in DOMAIN image THEN image[i] ELSE "unknown"

\* mutant: the size is cut to the length of the file
Clipped_Length(header, offset, size) ==
  IF (offset + size) % Word > header.length THEN header.length ELSE size

Clipped(header, offset, size) ==
  IF (offset + size) % Word > header.length THEN header.length - offset ELSE size

\* what initrd_read copies
initrd_read(node, offset, size) ==
  LET header == file_headers[node.inode]
      n == IF offset > header.length THEN 0 ELSE Clipped(header, offset, size)
  IN [k \in 1 .. n |-> Memory(header.offset + offset + k - 1)]

\* mutant: the entry after the directory is the second file
initrd_readdir_NoDev(node, index) ==
  IF node = initrd_root /\ index = 0 THEN <<DirName>>
  ELSE IF index + 1 \in 1 .. Len(root_nodes) THEN <<root_nodes[index + 1].name>> ELSE <<>>

\* index - 1 is unsigned, so index 0 is beyond every file
initrd_readdir(node, index) ==
  IF node = initrd_root /\ index = 0 THEN <<DirName>>
  ELSE IF index \in 1 .. Len(root_nodes) THEN <<root_nodes[index].name>> ELSE <<>>

initrd_finddir(node, name) ==
  IF node = initrd_root /\ name = DirName THEN <<initrd_dev>>
  ELSE LET i == SelectInSeq(root_nodes, LAMBDA n : n.name = name)
       IN IF i = 0 THEN <<>> ELSE <<root_nodes[i]>>

-----------------------------------------------------------------------------
(* The file system calls: what a node does not offer returns 0.  Only      *)
(* files have a read, only directories a readdir and a finddir; write,     *)
(* open and close are 0 in every node.                                     *)

read_fs(node, offset, size) ==
  IF node.flags = "FILE" THEN initrd_read(node, offset, size) ELSE <<>>

readdir_fs(node, index) ==
  IF node.flags = "DIRECTORY" THEN initrd_readdir(node, index) ELSE <<>>

finddir_fs(node, name) ==
  IF node.flags = "DIRECTORY" THEN initrd_finddir(node, name) ELSE <<>>
=============================================================================
