# casteOS2: models, model checking and proofs

This directory holds TLA+ modules that model the casteOS2 kernel, TLC
configurations that check them on small instances, and TLAPS proofs of what
holds for every value of the constants. casteOS2 is a 32-bit x86 kernel in C
(`src/kernel`, `src/libc`, `src/initrd`) booted by GRUB. Everything a module
says is read off the code; `PROJECT.json` gives, for each definition, the file
and the lines it stands for.

    tlc -workers 2 -config MCPmm.cfg MCPmm      # one run; PROJECT.json lists them all
    tlapm MemoryProofs.tla                      # the proofs of two components

- [1. The system](#1-the-system)
- [2. Modules](#2-modules)
- [3. Runs](#3-runs)
- [4. Fairness](#4-fairness)
- [5. Proofs](#5-proofs)
- [6. What was found](#6-what-was-found)
- [7. Not modelled](#7-not-modelled)
- [8. Plan](#8-plan)

## 1. The system

### Control flow

`kmain` (`kernel/kernel.c:23-52`) runs once, front to back: `gdt_init`,
`isr_install`, `irq_install` (which starts timer, keyboard, mouse and system
calls), `pmm_init`, `paging_init`, `heap_init`, `vesa_graphics_init`,
`tty_init`, `initrd_init`, then `FINISHED_INIT = 1`, some printing, and
`tasking_init`, which creates the first process; then it loops for ever.
Everything else happens in interrupt handlers.

There is one CPU and all gates are interrupt gates, so two handlers never
interleave with each other; `kmain` interleaves with all of them from
`paging_init`'s `sti` (`mem/paging.c:225`) on. Before that line interrupts are
disabled, because GRUB enters the kernel that way. Nothing takes a lock.

### Components

| Component | State | Operations | Talks to |
|---|---|---|---|
| Physical memory manager, `mem/pmm.c` | bitmap of blocks, `total_blocks` | `pmm_init`, `allocate_block`, `set_block`, `free_block` | called by paging; the bitmap lies right before the page tables |
| Paging, `mem/paging.c` | page directories, tables, `tmp_heap` (the "dumb heap" tables come from) | `paging_init`, `map_virtual_address`, `copy_page_directory`, `ksbrk`, `page_fault` | pmm for frames; heap, video and tasking map through it |
| Kernel heap, `mem/heap.c` | list of block headers, `heap_curr` | `heap_init`, `kmalloc` | `ksbrk`; used by video, initrd, tasking |
| Interrupts, `cpu/isr.c`, `cpu/interrupt.asm`, `cpu/idt.c` | callback table; the two 8259s | stubs, `irq_handler`, `ack_pic` | calls the drivers' callbacks |
| Timer, `devices/timer.c` | `tick` | `timer_callback` | repaints the screen, switches tasks |
| Tasking, `sys/proc.c`, `sys/usermode.asm` | `pqueue`, `cur_proc` | `create_process`, `switch_task` | heap, paging, interrupted code |
| Keyboard, `io/keyboard.c` | `kb_buf`, `last`, `kb_flags` | `keyboard_handler`, `keyboard_get_key` | system call 3, `getch` (`libc/stdio/get.c`) |
| Mouse, `io/ps2mouse.c` | `mouse_cycle`, `mouse_byte`, `mouse_mode` | `init_mouse`, `mouse_handler` | shares port 0x60 with the keyboard; moves the pointer |
| Initial RAM disk, `fs/initrd.c`, `fs/vfs.c`, and its generator `initrd/initrd_gen.c` | image, `file_headers`, `root_nodes` | `initrd_init`, `read_fs`, `readdir_fs`, `finddir_fs` | the image GRUB loaded |
| Text console, `gfx/tty.c` | `history`, `end_hist_idx` | `tty_write_char`, `tty_draw` | written by `kprint`, drawn by the timer |
| VESA drawing, `gfx/vesa_graphics.c` | back buffer, pointer position | `vesa_mouse_packet`, `vesa_put_pixel`, `vesa_update_graphics` | called from the timer's and the mouse's interrupts |
| System calls, `sys/syscall.c` | - | read (3), write (4) | keyboard, console |
| Line input, `libc/stdio/get.c`, and the shell, `io/shell.c` | the shell's array of 20 bytes | `getch`, `getstr` | `keyboard_get_key`, with interrupts enabled |
| Multiboot information, `misc/multiboot.c` | `mods`, the memory map | `load_modules`, `get_module`, `print_modules` | GRUB's tables; tells `kmain` where the RAM disk is |
| Windows, `gfx/vesa_graphics.c` | `wm_num_windows`, the linked lists | `create_window`, `move_to_front`, `repaint_children` | heap; nothing calls them yet |
| libc, `libc/string`, `libc/stdlib`, `libc/stdio/printf.c`, and `kprint_base` | - | strings, numbers, formats | used everywhere |

Further parts, which nothing models, are in section 7.

### What is hard, and what makes a component correct

*Memory.* Three allocators lie on top of one another and in each other's
memory: the bitmap is followed by the page tables, those by the heap. Each has
its own edge: a total that is no multiple of eight, a size cut to 16 bits, a
bound tested after the bump, an error value (`-1`) that is used as an address.
Correct: no block, no page and no byte has two owners; tables are not damaged;
what a caller thinks is mapped is mapped.

*Interrupts in the middle of everything.* The timer's callback repaints and
switches tasks from any place in `kmain`. Correct: a handler finds what it
needs already initialised; exactly the interrupt being handled is in service; a
directory is complete before a CPU runs on it.

*Two devices behind one port.* Keyboard and mouse bytes share one buffer, and
each handler reads it as if the other did not exist. `init_mouse` polls with a
timeout, so an answer can be late. Correct: driver and mouse agree on the
length of a packet, no packet is made of pieces of two, no byte stays in the
controller for ever.

*A buffer without a lock.* `getch` shifts the keyboard buffer while IRQ1
appends to it. Correct: keys come out in the order typed, each once, and the
line `getstr` returns is what was typed.

*Lists linked by hand.* `move_to_front` unlinks a window that `create_window`
never linked. Correct: painting ends, no window is lost or painted twice.

*Numeric edges.* Unsigned comparisons (`index - 1`, pointer movement),
`<=` where `<` is meant, wrapping sums. Correct: reads return the file's bytes;
the pointer stays on the screen; a frame stays in its buffer.

The full list, each at its line, is `hazards` in `PROJECT.json`.

## 2. Modules

Names follow the code. A module holds state, one action per operation, and its
properties; `MC*.tla` gives the constants values; `*Proofs.tla` holds theorems.
Definitions marked `mutant` in a comment are deliberate faults: each property
has one that breaks it, which shows that the property depends on the code.

| Module | Models | State and actions |
|---|---|---|
| `FrameAllocator` | what the physical memory manager promises | frames granted and withheld; the lowest available frame is granted |
| `Pmm` | `mem/pmm.c` | `bitmap` as bytes of bits; `stray` holds bits set outside it; `grants`, `reserved` are history. `AllocateBlock`, `AllocateNone` (the `-1` path), `SetBlock`, `FreeBlock` |
| `Kheap` | `kmalloc`, `ksbrk` (the part that runs) | `heap_curr`, the list of blocks, `stopped` (the write through the null header). `Kmalloc(size, align)` with the real page, header and 16-bit size |
| `HeapBoot` | the kernel's own requests, in order, real sizes, and any client's at the end of the heap | extends `Kheap`; one action per request of `vesa_graphics_init`, `initrd_init`, `create_process`; `AnyClient` |
| `Pic8259` | the interrupt controllers (external) | operators: priority, in service, end of interrupt, spurious |
| `Interrupts` | `cpu/`, `devices/timer.c`, `sys/proc.c`, the order of `kmain` | what `kmain` does next, where the running handler is, the PIC, `cr3`, what the new directory holds, whose registers and stack `kmain` runs with |
| `Paging` | `mem/paging.c` with `heap_init`, `vesa_graphics_init`, `create_process` as callers | directories, every table entry by its word in memory, words spoiled by bits beyond the bitmap, frames granted |
| `KeyQueue` | what the keyboard driver promises | a queue that empties itself when full |
| `Keyboard` | `io/keyboard.c`, system call 3 | buffer, counter, modifiers; the handler's branches as actions |
| `LineInput` | who reads the keyboard: a process by system call 3, or the shell by `getstr` | extends `Keyboard`; `keyboard_get_key` one access of the buffer or its counter at a time with IRQ1 in between, `getstr` key by key; ghosts `typed`, `clean`, `hit` |
| `Ps2Mouse` | `io/ps2mouse.c`, the i8042 and the devices (external) | controller's buffer and command byte, the mouse, `init_mouse`'s script, the packet being put together |
| `Initrd` | `initrd_gen.c`, `fs/initrd.c`, `fs/vfs.c` | the image written, mounted, and the operations as operators |
| `Screen` | `gfx/tty.c`, the drawing that is called | history, pointer, and a frame: cells shown and how far each part wrote |
| `Multiboot` | `misc/multiboot.c` | GRUB's table and the kernel's copy of at most `MAX_MODULES`; `load_modules` as an action, `get_module` as an operator |
| `Console` | `multiboot_init`, and the end of `kmain` (`kernel.c:36-42`) | composes `Multiboot`, `Initrd` and `Screen`: find the disk, mount it, print modules and disk, character by character, while timer and mouse interrupt |
| `WindowStack` | what windows are to their user | for each window that stands alone, a stack of children |
| `Windows` | `create_window`, `move_to_front`, `repaint_children` | the four pointers of each window, assigned in the order of the code |
| `LibcString`, `LibcNumbers` | `libc/string`, `itoa`, `atoi`, `printf`, `kprint_base` | operators, loop by loop |
| `Libc` | one call of a libc function | every function with every argument of small sets, against reference definitions |

How the modules meet: `Paging` takes its frames from the allocator that
`FrameAllocator` specifies and `Pmm` is proved to implement; `HeapBoot` checks
the obligation under which the theorems about `Kheap` hold; `Console` composes
`Multiboot`, `Initrd` and `Screen`; `LineInput` extends `Keyboard`, and both of
its readers are checked against `KeyQueue`; `Windows` is checked against
`WindowStack`; `Interrupts` is built on `Pic8259`.

Points where the model says more than the obvious:

- **`Pmm`**: a bit with no byte is recorded in `stray`, not dropped: `Paging`
  then follows such bits to the table entries they hit. `SetBlock` of a block
  that is already granted is excluded: the two callers cannot do that (the
  identity map comes before the first allocation and the frame buffer is no
  RAM). The blocks of a byte the memory ends in are never scanned (`pmm.c:44`)
  and so never granted; free memory in `Paging` is the same `Scanned` blocks.
- **`Kheap`**: nothing sets a header's `free` byte, so `get_free_block` finds
  nothing; that rests on no block overwriting another's header, which is
  `ListInOrder`. The callers' obligation, `AlignFits`: no aligned request when
  `heap_curr` is in the last seven bytes of a page, for then `PAGE_ALIGN` minus
  the header moves backwards. A request whose size is a multiple of 65536
  passes `ksbrk` unchecked, so `OverrunIsBounded` speaks of 16-bit sizes.
- **`Interrupts`**: a tick once a process is published leaves the handler
  through `switch_kernel_task`'s `iret`: no acknowledgement, interrupts still
  disabled, another stack. `frame = "lost"` is the state after it; anything but
  the idle loop then faults.
- **`Paging`**: a table entry is named by its word in physical memory, so
  a stray bit of `set_block` can make an entry look present. Out of memory, the
  frame is that of address 0xFFFFFFFF. No TLB: entries are only added and `cr3`
  is reloaded before they are used.
- **`Keyboard`**: `code > 57` returns before the branch for released keys, so
  modifiers never go off. The key that system call 3 puts into `eax` is lost
  when `isr_common_stub` restores the caller's registers (`sys/syscall.c:22`);
  the buffer has lost it as well.
- **`Ps2Mouse`**: `calm` says that nothing disturbed `init_mouse` (no key, no
  movement, no late answer) and `stolen` that `keyboard_handler` has taken a
  byte of the mouse. The properties name them because without them they are
  false: the driver has no resynchronisation. `mouse_handler`'s local packet is
  uninitialised when no packet was finished; `Console` lets it be any packet.
- **`LineInput`**: the kernel's `getch` calls `keyboard_get_key` with interrupts
  enabled, and neither the buffer nor `last` is volatile. A key that IRQ1 stores
  into an *empty* buffer between the read of `kb_buf[0]` (`io/keyboard.c:116`)
  and the decrement of `last` (119) makes it return an old key; when `last`
  changes between its test (118) and its decrement, a build that keeps the tested
  value in a register forgets the new key or brings back those an overflow has
  dropped, and one that decrements memory leaves -1 after an overflow (the next
  key would go to `kb_buf[-1]`; the model stops there); a key stored at a place
  the shift (120) has not passed is moved or overwritten. These three races are
  `hit`: the refinement and the account of the line hold at every other
  interleaving of the accesses as the source orders them. `clean` is the time
  from the start of a line in which neither a race nor an overflow of the buffer
  fell.
- **`Multiboot`**: names are compared over the length of the one looked for, so
  an earlier module whose name merely begins with it is taken; entries beyond
  `MAX_MODULES` are not copied but are looked at: what they hold is unknown.
  When `get_module` gives `kmain` anything but the disk, the model stops
  (`doing = "lost"`), and `ReadsAreTheFiles` says exactly when that may be.
- **`Windows`**: nothing in this commit calls these functions (the lines of
  `vesa_graphics_init` that would are commented out), so any window may be named
  as `prev_wind`. A child that is not the topmost one must not be: `careless`
  records it, for ever, for its later siblings are cut off from the list:
  `ImplementsWindowStack` excuses that step and all after it. If the list is
  reordered after that (`tangled`), it may become a circle that
  `repaint_children` never leaves.
- **`LibcNumbers`**: the largest `int` is `IntMax`, 127 in the run; division
  rounds to zero as C's does. Undefined calls are no inputs: `itoa` of the
  smallest number, `atoi` of one that does not fit. `printf` is turns of its
  outer loop (`PrintfTurn`); each takes a character of the format at least, so
  as many turns as the format has characters are enough. Formats are shorter
  than 2^15, for `print` counts in a `short`.
- **`Screen`**: places are byte offsets, so writing past the back buffer is
  visible. The length of a line is the pitch of the VBE mode, a constant, and
  how far pixels are apart follows from it (`vesa_graphics.c:227`); four bytes
  are written of each pixel in every mode (`tty.h:3` "assumes 32 bpp"). The
  buffer holds `pixel_width` bytes a pixel and no padding, so in a mode whose
  lines are padded, or with pixels of three bytes, clearing the screen already
  runs past it. `Console` abstracts the wording printed to names, bytes and newlines.

## 3. Runs

There are twelve runs; nine pass, three show a violation. Every run completes
its state space. "Violation" runs check one statement the
repository makes about itself which the code does not keep (section 6).

| Run | Properties | Bounds, and why they are enough |
|---|---|---|
| `pmm` | `SingleOwner`, `BitmapIsOwnership`, `GrantsAreMemory`, `ImplementsFrameAllocator` | nine blocks: one whole byte and one partial byte, the two kinds the code treats differently; reservations of first, last, partial, padding and out-of-range blocks. The theorems cover every size |
| `kheap` | `ListInOrder`, `OverrunIsBounded`, `InsideHeap`, `BootKeepsObligation` | real sizes: 32 MB heap, five video modes up to 3840x2160, 0 to 64 files, 32 processes. Another buffer ends three pages before the heap's end, where any client asks for 0, 1000, 2012, 4076, 8176, 8184, 12280, 12287 or 65536 bytes, aligned or not: one leaves a header in the last bytes of a page, 12280 fills the heap to the byte, 12287 is the largest request `ksbrk` grants and ends seven bytes behind the heap, the bound of `OverrunIsBounded`, and 65536 is truncated to 0. Requests stop when `heap_curr` is a page beyond the heap (`MaxCurr`) |
| `interrupts` | `InServiceIsCurrent`, `HandlersFindTheirTables`, `TicksAreHarmless`, `RequestsAreServed`, `BootFinishes` | lines 0, 1, 8, 12 (both chips, with and without callback), spurious 7 and 15; the tick counter modulo 2, all the code looks at; between two steps of `kmain` a line raises once (`mayRaise`), and a stage of `kmain` takes any number of steps |
| `paging` | `NoFrameMappedTwice`, `OnlyTheKernelIsShared`, `HeapIsBacked`, `CodeStays`, `TablesKeepTheirMemory` | scaled: pages of four words of two bytes of two bits, so that 32 MB become 20 pages and the dumb heap 12. The ratios that matter are kept: the heap starts inside the identity map and ends outside it. RAM of 23, 27 and 41 blocks, of which 2, 6 and 20 behind the identity map are scanned, and the last is in a byte that is not: `heap_init` needs four and each process two, so memory runs out in `heap_init`, in `create_process`, or not; four processes; code shorter than, equal to and longer than a page; frame buffers whose stray bits hit nothing, or tables of later processes |
| `keyboard` | `ImplementsKeyQueue`, `LineIsWhatWasTyped` | buffer of 4 (256 in the code): empty, partly full, overflow; letters, modifiers, releases, a code beyond 57, the error code 0 for the process; letters, backspace, enter and shift for the shell, whose array has 3 bytes in place of 20, so that lines of 4 keys overrun it |
| `mouse` | `ModeAgrees`, `PacketsAreWhole`, `BytesAreServed` | no, plain and wheel mouse; one key (a code that looks like a command byte which stops the keyboard, or a harmless one); two movements, one with a data byte that looks like a first byte, one overflowed; one late answer. One disturbance at each point of the dialogue is what can derail it, and two packets are what can be mixed |
| `console` | `ReadsAreTheFiles`, `HistoryIsListing`, `ScreenShowsText`, `MouseOnScreen`, `OverdrawIsBounded` | a screen of 2 x 8 characters, with pixels of three bytes and four bytes of padding in each line, and a history of 16: text wraps at both edges and runs out of history; up to two of three files, one called `dev`; room for two modules, with the disk alone, second, missing, third, behind one whose name begins like its own, or followed by too many; packets that are small, large, or garbage; words of 128 and 256 values in place of 2^32, so that sums wrap |
| `windows` | `PaintingEnds`, `ImplementsWindowStack` | five windows: room for two that stand alone with children of both, or for a list of four, so that the one moved may be the first, a middle or the last one, and a sibling of a sibling may be named |
| `libc` | `StringsAreRight`, `PrintsAreRight` | memories of four bytes with every overlap; strings of up to three characters around the letters and around 128; all ints of eight bits, bases 2, 10 and 16; numerals of up to three digits, signs and letters; formats of up to five of `%`, `c`, `s`, `x`: a second conversion after a bad one, and a `%` at the end. The theorems cover every size |
| `interrupts_eoi`, `paging_stray_bits`, `libc_unsigned` | violation | see section 6 |

Each passing run but `libc`, which keeps no state, also checks its module's type
invariant. What the properties
say:

- `ImplementsFrameAllocator`: the bitmap code implements "lowest available
  frame first, one owner each". `BitmapIsOwnership`: a set bit without owner is
  lost memory, an owner without bit is a frame given twice.
- `ListInOrder`: no heap block overlaps another's header
  or data. `OverrunIsBounded`: the header `ksbrk` forgets to count lets a block
  end at most seven bytes beyond the mapped heap. `BootKeepsObligation`: the
  kernel's own requests, in any video mode and with any number of files, never
  meet the case in which an aligned request moves backwards: `HeapBoot` is a
  refinement of `Kheap`, whose theorems therefore apply to it. `InsideHeap`: no
  block of the boot ends beyond the mapped heap.
- `InServiceIsCurrent`: the controllers hold in service exactly the interrupt
  whose handler has not yet acknowledged, spurious ones included.
  `TicksAreHarmless`: wherever a timer tick falls in `kmain` before the first
  process is published, it paints into nothing that does not exist, takes no
  stack or register away and loads no directory. What it does after that is
  finding 1 and the hazards at `sys/proc.c:29` and `47`.
  `RequestsAreServed`: until a process exists no latched request is starved.
  `BootFinishes`: interrupts cannot keep the boot from finishing.
- `NoFrameMappedTwice`, `HeapIsBacked`: though the heap's range is half
  identity mapped and half allocated, no frame backs two pages, and every heap
  page is backed unless the blocks `first_free_block` looks at ran out. `OnlyTheKernelIsShared`: a directory
  has the kernel's tables, all of them, and shares nothing else. `CodeStays`: a
  later process never overwrites an earlier one's code.
  `TablesKeepTheirMemory`: no table in use is hit by a stray bit, for frame
  buffers whose bits miss the tables (`paging_stray_bits` shows one whose bits
  do not), and none lies in the heap unless the log said so.
- `ImplementsKeyQueue`: the buffer is a queue that empties itself when full, for
  a process always, for the shell but for the three races of section 2, of which
  one takes the counter out of the buffer (`LineTypeOK`).
  `LineIsWhatWasTyped`: what `getstr` has stored, and what still waits, is what
  was typed since the last line, with the backspaces applied; so the shell's
  array is overrun by a line typed too long and by nothing else.
- `PacketsAreWhole`: packets finished are those the mouse sent, in order, none
  missing, none made of two. `BytesAreServed`: no byte blocks the controller
  for ever.
- `HistoryIsListing`: what has been printed is the disk's listing as written by
  the generator, cut at the history's length. `ScreenShowsText`: the screen
  shows the history as it was when last painted, whatever was being written.
  `OverdrawIsBounded`: a frame is painted beyond the back buffer by what a
  padded pitch makes its lines longer than their pixels, then by a line of a
  character below the last row (or of three-byte pixels cleared as four), and by
  18 lines of pointer. The overruns are real, the one by a character in every
  mode: the bytes behind the back buffer belong to the next heap block.
  `ReadsAreTheFiles` also says when the disk is found: unless its module is
  missing, one too many, or behind one whose name begins like its own.
- `PaintingEnds`: no chain of children is a circle, none is painted twice, all
  under their own parent. `ImplementsWindowStack`: what is painted are the
  stacks of `WindowStack`, new windows on top, none lost.
- `StringsAreRight`, `PrintsAreRight`: the functions agree with definitions that
  do not loop: the source as it was, the order of a dictionary, the number a
  text denotes, a format read one character at a time.

`CHECK_DEADLOCK FALSE` is given where the modelled system may stop: the heap
after its fault or at its bound, the processor after its fault (`dead`), paging
when idle at `MaxProcesses` or in the endless loop of `page_fault`, the
mouse when its devices have sent all their bounds allow, the shell when its
counter has fallen below 0 or its array is overrun, the windows when there is no
room for another, and libc after its one call.

## 4. Fairness

- `Interrupts`: `WF_vars(Dispatch)`: with interrupts enabled, the CPU takes an
  interrupt the controllers present and executes its handler; a handler has no
  loop. `kmain` has no fairness in `Spec`, and devices promise nothing.
  `BootFinishes` assumes `SF_vars(Advance)` in the property: a stage of `kmain`
  that gets to run again and again ends. Weak fairness would not do: a stage is
  interrupted again and again, so it is never continuously enabled. Devices
  cannot take all of the CPU, because a handler is shorter than the time
  between two edges of a line: that is `mayRaise`.
- `Ps2Mouse`: weak fairness of `InitMouse` and `Handlers` (the CPU executes,
  and IRQ1 and IRQ12 are taken, since nothing else keeps interrupts disabled)
  and of `MouseAnswers` (a device takes the bytes it is sent). Keys and movements are
  not fair.
- The other modules have safety properties only.

## 5. Proofs

Eight modules hold theorems, all checked by TLAPS to the last leaf; nothing is
assumed but the named assumptions of the modules, which TLC evaluates in the
runs. Each theorem is for every value of the constants, so for the real sizes as
well as for those of the run. In most modules no property is inductive as it
stands; what each invariant adds, and why, is said below.

Two remarks on method. The library's induction theorems take an operator, which
no installed prover can instantiate; but a least element of a *set* of numbers
exists (`WFMin`), so each module that needs it proves its own `Induction` over
sets. And the models say what a loop computes with a recursive function, which
a prover sees only as "some function with these equations": where a proof needs
one (`Edited`, `Child`, `Packets`, `FlattenSeq`, `Pen`, and all of `Libc`),
lemmas first show that such a function exists and is unique, which gives the
equations.

| Module | Theorems and the property each states |
|---|---|
| `MemoryProofs` | of `Pmm`: `PmmTypeCorrect`, `NoDoubleAllocation`, `NoLeakNoLoss`, `OnlyMemoryIsGranted`, `PmmImplementsFrameAllocator`; of `Kheap` and `HeapBoot`: `HeapTypeCorrect`, `BlocksAreDisjoint`, `OverrunAtMostSeven`, `AlignedRequestsStartAPage`, `BootMeetsObligation`, `BootStaysInside` |
| `InterruptsProofs` | `InterruptsTypeCorrect`, `HandlersDoNotNest` (`InServiceIsCurrent`), `TablesPrecedeHandlers` (`HandlersFindTheirTables`), `TicksDisturbNobody` (`TicksAreHarmless`) |
| `PagingProofs` | `PagingTypeCorrect`, `FramesHaveOneEntry` (`NoFrameMappedTwice`), `TablesAreTheKernelsOrOwn` (`OnlyTheKernelIsShared`), `TheHeapIsBacked`, `ProcessesKeepTheirCode` (`CodeStays`), `TablesStayBelowTheHeap`, `TablesAreKept` (`TablesKeepTheirMemory`) |
| `LineInputProofs` | `KeyboardTypeCorrect`, `LineImplementsKeyQueue`, `ShellGetsWhatWasTyped` (`LineIsWhatWasTyped`) |
| `Ps2MouseProofs` | `MouseTypeCorrect`, `DriverKnowsItsMouse` (`ModeAgrees`), `PacketsStayWhole` |
| `ConsoleProofs` | `ConsoleTypeCorrect`, `DiskReturnsTheFiles` (`ReadsAreTheFiles`), `ConsoleKeepsTheListing` (`HistoryIsListing`), `TheScreenShowsTheText`, `PointerOnScreen` (`MouseOnScreen`), `FramesStayNear` (`OverdrawIsBounded`) |
| `WindowsProofs` | `WindowsTypeCorrect`, `RepaintingEnds` (`PaintingEnds`), `WindowsImplementStacks` (`ImplementsWindowStack`) |
| `LibcProofs` | `LibcStringsRight` (`StringsAreRight`), `LibcPrintsRight` (`PrintsAreRight`) |

**Physical memory manager** (`BlocksAssumption`: the number of blocks is a
natural number and `LastBlock`, the block of address 0xFFFFFFFF, lies beyond
the bitmap). The inductive invariant `PmmInv` adds to the type that the bitmap
is ownership and that grants lie in the whole bytes `first_free_block` scans
(`GrantsAreScanned`). None of the properties is inductive alone: that a grant
finds no owner follows from the bit being clear, which is ownership only
because of `BitmapIsOwnership`; that a reservation does not touch a grant needs
`ReservedNeverGranted`. The arithmetic is in two lemmas, `Rounding` (whole
bytes lie in memory, memory in the bitmap) and `BytesAndBits` (a byte and a bit
determine the block); each operation has one lemma. In
`PmmImplementsFrameAllocator` an allocation maps to a grant, the failing one and
a reservation outside the scanned bytes to a stutter.

**Kernel heap** (`HeapAssumption`: `heap_max` and the sizes are natural
numbers; obligation `AlignFits` as a guard). `HeapInv` is the conjunction of
the properties; `CurrIsBeyondBlocks` is what makes `ListInOrder` inductive.
`BumpAdvances` is the arithmetic of `PAGE_ALIGN`, `KmallocEffect` sums up one
request, and the rest is list reasoning. That the kernel keeps the obligation
(`BootMeetsObligation`) is proved for every list of video modes for which
`BootAssumption` holds: a mode's buffer, the RAM disk's nodes and one process
fit into the heap and do not end in the last bytes of a page, which TLC
evaluates for the real sizes. `Place` gives `heap_curr` at each stage of the
boot: a sum of sizes up to the first process, and from then on a page boundary,
because a page directory is aligned and fills its page.

**Interrupts** (`InterruptsAssumption`: which lines there are, and that the
counter's modulus is even). `IntInv` adds two facts to the type and to
`InServiceIsCurrent`. `ProgressIsPosition`: what has been initialised,
published and loaded is determined by where `kmain` is, an order of 19 places;
all that depends on the order of the boot is then arithmetic. `OneHandler`:
with interrupts enabled no handler runs, and interrupts are not enabled before
`paging_init`'s `sti`. From these, a dispatch finds nothing in service and the
tables in place. `ProgressIsPosition` is also why `TicksAreHarmless` ends where
it does: a tick after `publish` finds a process.

**Paging** (`PagingAssumption`: sizes are natural numbers, not 0 where the code
divides by them or loops over them, the RAM is at least the identity map and the
bit of address 0xFFFFFFFF lies beyond the bitmap, as in `Pmm`; the RAM need not
be a whole number of bytes of the bitmap, or of words. `AddressSpaceAssumption`:
what is mapped fits the 4 GB, the kernel is mapped above the first table's share,
where the processes' code is, and the frame buffer, being a device, lies behind
the RAM). A step of every loop is one `map_virtual_address`, so one group of lemmas (`MapPage...`) says what it
does to tables, entries, frames and the rest, and each action uses them.
`BlocksOfMemory` says that what is scanned is memory and that all of memory has
a bit in the bitmap, whatever the last byte holds.
`PagingInv` adds: `TablesSoFar` (every table in a directory is at or below
`tmp_heap`, so a new one is in no directory: this makes `OnlyTheKernelIsShared`
inductive); `FramesAreTaken` (a frame in an entry is granted or withheld, so an
allocated one is in none: `NoFrameMappedTwice`); `FilledFromMemory` (until
memory runs out no bit is set outside the bitmap before the frame buffer is
mapped, and no entry holds the error's frame) and `HeapSoFar` (what the loop of
`heap_init` has passed is backed), of which `HeapIsBacked` is the end; and
`WhereItIs`, where the loops are. `CodeStays` rests on the first two: the frame a
later process writes its code to is its own. `TablesStayBelowTheHeap` says that
no table lies in the heap unless the "dumb heap" has reported that it is full.
`TablesAreKept` adds that the bits `set_block` sets behind the bitmap hit no
table, which is not true of every frame buffer: `paging_stray_bits` has one that
does hit. The theorem's hypothesis `BitsMissTheTables` is on the layout alone: the
bits of the frame buffer's pages fall behind the last of the kernel's tables, and
the bit of 0xFFFFFFFF, set when memory runs out, behind the last of all tables.
TLC evaluates it for the frame buffers of `paging`. What has to be proved is how
many tables there are. `Counted`: the kernel's are one for each share of the
address space it maps (`KernelShares`), and each process has one or two more, so
`tmp_heap` is bounded. Tables of processes are made after the frame buffer is
mapped and cleared then, so its bits may fall where they will lie, and `Missed`
is inductive: no word of the directory or of a table in use has been hit.

**Keyboard and line input** (`KeyboardAssumption`, `LineAssumption`: the buffer
has a slot, codes and keys are bytes). `LineInv` adds to the types that the key
read first is the one that waits first, unless one of the races of `hit` has
happened; it holds until the counter falls below 0 (`Astray`), where the model
stops. With it `LineImplementsKeyQueue` maps the handler to `Put`, the process's
system call and the decrement of the counter to `Get`, the test that finds it 0
to `GetNothing`, and every other access to a stutter: while the shift is under way, the queue is the buffer
with the moved part read one place lower (`Keys`). For `ShellGetsWhatWasTyped`,
`TypedInv` says that the keys typed since the line began are those `getstr` has
dealt with, then the one in flight, then those that wait, and that the line is
the first of these with the backspaces applied.

**Mouse** (`MouseAssumption`: kinds of mice, make codes, movements of nine
bits). `ScriptTable` unfolds `init_mouse` once: which of its 27 steps tells the
mouse which byte, and which wait. `TypeInv` needs that the handlers wait until
the script is over and that what comes before the mouse is told anything are
codes and the command byte. `ModeInv` is the dialogue: at each step how many
bytes wait, what the mouse has heard (`MouseIsAt`: the last three rates and the
id), and that the last answer is the id, when a mouse is there; that every read
is of the command byte again, when none is. `PacketInv` says that the bytes
that wait are the rest of the moves made, keys mixed in (`Follow`: each byte is
at a place in the moves, the next byte at the next place), and that the driver
has made packets of those before; `FirstByteTells` is why a packet's first byte
is taken for one.

**Console** (`ScreenAssumption`: a screen is at least two characters wide and
one high, and positions do not overflow; the pitch may be any. `InitrdAssumption`:
there are at most 64 files, and where the disk lies and how many values a
`uint32_t` has are numbers; that sums wrap is in the model, and `ReadsAreTheFiles`
excuses reads whose offset and size add up to 2^32 or more.
`MultibootAssumption`: GRUB's table is a list of names and addresses.
`ConsoleAssumption`: a module called `initrd` is the disk, the size
`print_initrd` asks for is neither 0 nor 2^32, and packets hold integers). `DiskInv` says what the image, the headers
and the nodes are at every stage, and that `lost` means that no look-up could
find the disk. `HistoryInv`: what has been written, followed by what the
current entry is still to write, is the listing up to that entry, and the
history is its beginning, cut at the array's length. `FrameInv`: a frame shows
the part of the history that was there when it was painted, laid out as `Row`
and `Col` define it. That `tty_draw`, which goes through the text once with a
pen, agrees with this layout is the induction `Drawn`, which needs that the
pen's place is the next character's (`NextPlace`) and that no two characters
have one place (`PlacesDiffer`). The pen never leaves the screen by more than
one line (`PenStands`), which bounds what is written behind the buffer;
`FrameSizes` relates buffer and lines for any pitch, padded or shorter than a
line's pixels of four bytes; the pointer's bound rests on differences being taken
modulo 2^32, so never negative.

**Windows** (`WindowsAssumption`: there is room for one). `move_to_front` makes
nine assignments through pointers that may be null or equal; `InFrontEffect`
says what they come to. `WindowsInv` says, as long as no cut list has been
reordered: children are linked to children of their parent (`Families`), a last
child has none behind it (`Ends`), there is no circle (`NoCircle`: the windows
can be ranked so that `next` goes upwards, which, unlike "the chain ends", can
be kept up assignment by assignment); and, as long as no window was cut off,
`prev` and `next` agree (`TwoWays`). `RepaintingEnds` counts along the ranks.
For the refinement, `Whole` says that what is painted under each window that
stands alone is a doubly linked list (`IsList`) of exactly its children; that a
list determines what is painted (`ListIsPainted`) turns pointers into sequences,
and `ChildComesOnTop`, `NewComesOnTop` and `OtherListsStay` say what `InFront` does
to a list. Once a caller has been careless every later step is excused, as
`careless` is never reset: what is then left of a list is not refined.

**libc** (`LibcAssumption`: bytes are below 256, strings hold no 0, bases are
from 2 to 36, a format is shorter than 2^15; `NumbersAssumption`: `IntMax` is a
natural number). `Libc` makes one call, so its invariants are inductive with
`call \in Calls` (`CallStays`) beside them, and what has to be proved is what each loop computes. `Recursion` is the
lemma behind all of it: on a set with ranks, a function that is given at the
least elements, and elsewhere by its value at one of lower rank, exists; `Turns`
is the case of a loop, `Halving` that of a number divided by the base again and
again. From there every function has an induction of its own:
- The copies. After `k` turns the first (`CopyUpwards`) or the last `k` bytes
  (`CopyDownwards`) are those of the source before the copy, which needs that
  no turn reads a byte an earlier one has overwritten: `dst < src` upwards,
  the opposite downwards, and that is why `memmove` is right for every overlap.
  `memset` and `stosb` are `FillsItsBytes`.
- The strings. `FirstDifference` says what the search for the first differing
  character finds; `StrcmpOrders` makes a dictionary's order of it, with the 0
  behind the shorter string less than any character (`NeitherHasEnded`), and
  `MemcmpFindsPrefix` the test of `get_module`. `ReverseReverses`: after `i`
  swaps the first and last `i` characters have changed places.
- The numbers. `DenotedAppend` is positional notation; with it `MoreDigits`
  carries "the text denotes the number and has no leading 0" from `n \div base`
  to `n`, for `kprint_base` (`KprintPrints`) directly, and for `itoa`
  (`ItoaPrints`) through the reversal of its digits, the sign included.
  `AtoiOfItoa` is the round trip.
- `printf`. The format's reader in `Expected` looks at one character at a time,
  the code jumps from one `%` to the next. `RunIsRead` says that the reader
  passes over a run as the code prints it; `Advances`, kept up by each turn
  (`RunAdvances`, `PercentAdvances`, `ConversionAdvances`, `RejectedAdvances`),
  that where the code stands the reader expects no specifier, has printed the
  same, and has met a bad specifier exactly when the code has. `PrintfTurns`
  adds that a turn moves on, so that the turns suffice.

The proof corrected a property: `StringsAreRight` said that `memset` stores its
value, which holds in memories of up to 255 bytes, the run's among them; it
stores the value's low byte.

Every safety invariant and every refinement the runs check is stated by a
theorem. Only model-checked: liveness (`RequestsAreServed`, `BootFinishes`,
`BytesAreServed`) and `ENABLED`, which are out of the proof system's reach, and
the violations.

## 6. What was found

Three statements of the repository that the code does not keep, each with a run
whose counterexample shows how:

1. `interrupts_eoi`: `cpu/isr.c:125` says every interrupt is acknowledged. The
   tick that finds a process leaves through `switch_kernel_task` and never
   returns to `ack_pic`, with interrupts still disabled in the flags it
   restores.
2. `paging_stray_bits`: `gfx/vesa_graphics.c:233` says the frame buffer is
   identity mapped. `set_block` of its pages writes behind the bitmap, into the
   tables; entries hit there count as present and are never mapped. With the
   `kernel.elf` of the repository, the 2 GB of `qemu.sh` and a 1920x1080x32
   frame buffer at 0xFD000000, entries 972 to 1000 of its second table.
3. `libc_unsigned`: `libc/stdlib/itoa.c:14` says that negative numbers are
   considered unsigned in every base but 10. They are not: the remainders are
   negative, and -127 in base 2 becomes `///////`.

Facts that follow from the models and contradict no statement of the
repository are in `hazards`: `ksbrk`'s 16-bit parameter (`mem/paging.c:259`),
the lost result of system call 3, modifiers that never go off, the three races
of `keyboard_get_key`, the page directory that is published before it is filled
(`sys/proc.c:47`), the overruns of the back buffer, the module taken for the
disk because its name begins like it, windows cut off from their list.

## 7. Not modelled

- **The memory map** (`load_mmap`, `print_mmap`): its total is the constant
  number of blocks of `Pmm`; what lies where in memory is not in the code.
- **GDT, TSS, IDT contents**: tables filled once from constants.
- **Bitmaps** (`vesa_draw_bitmap`, `load_bitmap`, `fill_rect`): drawing that no
  compiled code calls, and pixels no property tells apart.
- **VGA text mode** (`gfx/vga_graphics.c`): compiled out by `VESA_GRAPHICS`
  (`kernel/common.h:5`), and by its own first lines not in working order.
- **Exceptions**: `isr_handler`'s message; `page_fault` is the endless loop
  in `Paging`.
- **`free_page`, `copy_page_table`**: nothing that runs calls them.
  `free_block` is in `Pmm` all the same, since its promise includes it.
- **The rate of the timer, `timer_wait`**: a rate is no behaviour a step
  relation can state, and `timer_wait` has no caller.
- **User program and user mode**: the kernel does not start them.
- **Port I/O, boot assembly**: single instructions, or before `kmain`.
- **The tree at the top of `src/`** (`cpu/`, `drivers/`, `boot/`, `include/`) is
  an earlier copy that no build file compiles, and `sysroot/` holds installed
  copies of the headers.

In lines, most of the repository is none of the above but data: two copies of
`nasa_logo.h` (24,566 lines each, one image as an array) and the font tables of
`vesa_graphics.h` make up nearly 52,000 of its 58,000 lines. A model of the program
cannot stand for them; of the kernel's and libc's own C files that are built,
the modules cover the greater part.

## 8. Plan

All that was planned is modelled, checked and, liveness aside, proved
(section 5). What could come next are the parts of section 7 that run: the
message of an exception (`isr_handler`) and the memory map.
