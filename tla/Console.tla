------------------------------ MODULE Console ------------------------------
(***************************************************************************)
(* The modules of GRUB, kernel/kernel.c:26, and the end of kmain, 36 to    *)
(* 42, when the console is up: the RAM disk is mounted, modules and disk   *)
(* are printed, character by character, while the timer repaints the       *)
(* screen and the mouse's interrupt moves the pointer, with a packet that  *)
(* may never have been filled in (ps2mouse.c:79).                          *)
(* What is printed is abstracted to the names, the bytes and the newlines. *)
(***************************************************************************)
EXTENDS Multiboot, Initrd, Screen

CONSTANTS
  DiskName,            \* "initrd"
  DumpSize,            \* the size of the buffer in print_initrd
  Packets,             \* the differences in a packet, finished or not
  Numbers              \* bound: the offsets and sizes reads are checked with

ASSUME ConsoleAssumption ==
  /\ DumpSize \in 1 .. Word - 1 /\ Packets \subseteq Int \X Int /\ Numbers \subseteq 0 .. Word - 1
  \* what is called like the disk is the disk
  /\ \A l \in ModuleLists : \A i \in DOMAIN l :
       l[i].string = DiskName => l[i].mod_start + BASE_VIRTUAL = Location

VARIABLES
  doing,               \* "boot", "mount", "modules", "initrd", "done"; "lost" without a disk
  entry,               \* the next entry print_initrd reads
  text                 \* what the running kprint has still to write

consoleVars == <<multibootVars, initrdVars, screenVars, doing, entry, text>>

-----------------------------------------------------------------------------
ConsoleInit ==
  /\ MultibootInit /\ InitrdInit /\ ScreenInit
  /\ doing = "boot" /\ entry = 0 /\ text = <<>>

\* tty_init forgets what load_modules has printed about too many modules
Boot ==
  /\ doing = "boot"
  /\ load_modules
  /\ doing' = "mount"
  /\ UNCHANGED <<initrdVars, screenVars, entry, text>>

IsTheDisk(m) == m # <<>> /\ m[1].mod_start = Location

(* initrd_init(get_module("initrd")->mod_start), wherever that leads.      *)
Mount ==
  /\ doing = "mount"
  /\ \E m \in get_module(DiskName) :
       \/ /\ IsTheDisk(m)
          /\ InitrdMount
          /\ doing' = "modules"
       \/ /\ ~IsTheDisk(m)
          /\ doing' = "lost"
          /\ UNCHANGED initrdVars
  /\ UNCHANGED <<multibootVars, screenVars, entry, text>>

\* what is printed of modules, headings included
Modules(names) ==
  <<Newline>> \o FlattenSeq([i \in DOMAIN names |-> <<names[i], Newline>>]) \o <<Newline>>

\* print_modules, and the heading of print_initrd
PrintModules ==
  /\ doing = "modules"
  /\ text' = Modules([i \in 1 .. mods_count |-> Entry(i).string])
  /\ doing' = "initrd"
  /\ UNCHANGED <<multibootVars, initrdVars, screenVars, entry>>

\* what is printed of an entry: its name and, of a file, its first bytes
Dump(name) ==
  LET node == finddir_fs(initrd_root, name)[1]
  IN <<name, Newline>>
       \o IF node.flags = "DIRECTORY" THEN <<Newline>>
          ELSE read_fs(node, 0, DumpSize) \o <<Newline>>

PrintEntry ==
  /\ doing = "initrd" /\ text = <<>>
  /\ readdir_fs(initrd_root, entry) # <<>>
  /\ text' = Dump(readdir_fs(initrd_root, entry)[1])
  /\ entry' = entry + 1
  /\ UNCHANGED <<multibootVars, initrdVars, screenVars, doing>>

\* "CasteOSv2 kernel initialized."
PrintEnd ==
  /\ doing = "initrd" /\ text = <<>>
  /\ readdir_fs(initrd_root, entry) = <<>>
  /\ text' = <<Newline>>
  /\ doing' = "done"
  /\ UNCHANGED <<multibootVars, initrdVars, screenVars, entry>>

\* kprint and kprint_char
WriteChar ==
  /\ text # <<>>
  /\ tty_write_char(Head(text))
  /\ text' = Tail(text)
  /\ UNCHANGED <<multibootVars, initrdVars, mouse_pos_x, mouse_pos_y, frame, doing, entry>>

\* timer_callback: FINISHED_INIT is set when the disk is mounted
Repaint ==
  /\ doing \notin {"boot", "mount", "lost"}
  /\ vesa_update_graphics
  /\ UNCHANGED <<multibootVars, initrdVars, doing, entry, text>>

MousePacket ==
  /\ \E p \in Packets : vesa_mouse_packet(p[1], p[2])
  /\ UNCHANGED <<multibootVars, initrdVars, doing, entry, text>>

ConsoleNext ==
  \/ Boot \/ Mount \/ PrintModules \/ PrintEntry \/ PrintEnd \/ WriteChar
  \/ Repaint \/ MousePacket

ConsoleSpec == ConsoleInit /\ [][ConsoleNext]_consoleVars

-----------------------------------------------------------------------------
ConsoleTypeOK ==
  /\ doing \in {"boot", "mount", "modules", "initrd", "done", "lost"}
  /\ entry \in 0 .. Len(argv) + 1
  /\ Len(mods) <= MAX_MODULES
  /\ Len(root_nodes) = Len(file_headers)
  /\ Len(history) <= HIST_LENGTH
  /\ DOMAIN frame.cells \subseteq Nat \X Nat

Mounted == doing \notin {"boot", "mount", "lost"}

\* a part of a sequence, as far as the sequence goes
Part(s, from, to) == SubSeq(s, from, Min({to, Len(s)}))

\* the disk is among the modules kept, and no other one comes first
Findable ==
  \E i \in 1 .. Min({MAX_MODULES, mods_count}) :
    /\ mbt[i].string = DiskName
    /\ \A j \in 1 .. i - 1 : <<mbt[j].string, DiskName>> \notin Longer

(* kernel.c:36, initrd.c:14 to 22, initrd_gen.c:18 to 33: the disk is      *)
(* found, unless its module is missing, one too many, or comes after one   *)
(* whose name only begins like it; and what is read of a file, from any    *)
(* offset and of any size whose sum is a uint32_t, are the bytes of the    *)
(* file initrd_gen was given, and as many as there are.                    *)
ReadsAreTheFiles ==
  /\ doing = "lost" => ~Findable
  /\ Mounted =>
       \A i \in DOMAIN argv, offset, size \in Numbers :
         offset + size < Word =>
           read_fs(root_nodes[i], offset, size) =
             Part(argv[i].bytes, offset + 1, offset + size)

\* what a reader expects of the listing; a file called dev is hidden by the directory
Shown(f) ==
  <<f.name, Newline>>
    \o (IF f.name = DirName THEN <<>> ELSE Part(f.bytes, 1, DumpSize)) \o <<Newline>>

Listing ==
  Modules([i \in 1 .. mods_count |-> IF i <= MAX_MODULES THEN mbt[i].string ELSE "unknown"])
    \o <<DirName, Newline, Newline>>
    \o FlattenSeq([i \in DOMAIN argv |-> Shown(argv[i])]) \o <<Newline>>

(* kernel.c:40 and 41 with tty.c:19 to 22: the history is a prefix of the  *)
(* listing of all modules and all files, and all of it, or as much as the  *)
(* history holds, when the printing is done.                               *)
HistoryIsListing ==
  LET kept == Part(Listing, 1, HIST_LENGTH)
  IN /\ IsPrefix(history, kept)
     /\ doing = "done" /\ text = <<>> => history = kept

(* Where the characters of a text belong, counted from the text alone.     *)
LineStart(s, i) == Max({0} \cup {j \in 1 .. i - 1 : s[j] = Newline})
Col(s, i) == (i - LineStart(s, i) - 1) % Cols
EndsRow(s, j) == s[j] = Newline \/ Col(s, j) = Cols - 1
Row(s, i) == Cardinality({j \in 1 .. i - 1 : EndsRow(s, j)})

LaidOut(s) ==
  {<<<<Col(s, i), Row(s, i)>>, s[i]>> : i \in {k \in DOMAIN s : s[k] # Newline /\ Row(s, k) < Rows}}

(* tty.c:48 to 71: the screen shows what had been written when it was last *)
(* painted, laid out in lines and wrapped at the right edge.               *)
ScreenShowsText ==
  {<<p, frame.cells[p]>> : p \in {q \in DOMAIN frame.cells : q[2] < Rows}}
    = LaidOut(SubSeq(history, 1, frame.seen))

(* vesa_graphics.c:45 to 49: whatever an unfinished packet holds, the      *)
(* pointer stays on the screen.                                            *)
MouseOnScreen == mouse_pos_x \in 1 .. screen_width - 1 /\ mouse_pos_y \in 0 .. screen_height - 1

\* lines are longer than what is allocated for their pixels
Padding == screen_height * (bytes_per_line % screen_width)

\* a character's line below the last row, or a last line cleared with four bytes a pixel
TextOverdraw == Max({(char_width - 1) * pixel_width + PixelBytes,
                     screen_width * (PixelBytes - pixel_width)})

(* vesa_graphics.c:55 to 71, 81 to 92 and 105: a frame is painted past the *)
(* end of the back buffer: by what a pitch that is no multiple of the      *)
(* width makes its lines longer; then by the first line of a character     *)
(* below the last row, or by pixels of less than four bytes cleared as     *)
(* four; and by the lower part of the pointer; and never further.          *)
OverdrawIsBounded ==
  /\ frame.text <= buffer_size + Padding + TextOverdraw
  /\ frame.mouse <= buffer_size + Padding + 18 * bytes_per_line + 63
=============================================================================
