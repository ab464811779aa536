----------------------------- MODULE Interrupts -----------------------------
(***************************************************************************)
(* Interrupts from the first instruction of kmain to its idle loop: the    *)
(* stubs and handlers of cpu/isr.c and cpu/interrupt.asm, the timer of     *)
(* devices/timer.c, and the task switch it makes (sys/proc.c,              *)
(* sys/usermode.asm) while kmain is still building the first process.      *)
(*                                                                         *)
(* The gates of cpu/idt.c are interrupt gates, so a handler runs with      *)
(* interrupts disabled until the stub's iret; nothing in a handler enables *)
(* them again.                                                             *)
(***************************************************************************)
EXTENDS Pic8259

CONSTANTS
  Lines,               \* lines on which a device raises requests
  Spurious,            \* lines on which a chip reports a request that went away
  TickMod              \* bound: the tick counter is kept modulo an even number

ASSUME InterruptsAssumption ==
  /\ Lines \subseteq (Master \cup Slave) \ {Cascade}
  /\ Spurious \subseteq {7, 15} \ Lines
  /\ TickMod \in {2, 4, 6}

VARIABLES
  requests,            \* PIC: edges latched and not yet taken
  inService,           \* PIC: interrupts taken and not yet ended
  mayRaise,            \* bound: lines that may still raise before kmain runs again
  IF_,                 \* the CPU's interrupt flag
  handler,             \* where the running handler is: "none", "callback", "ack", "iret"
  line,                \* the line it serves
  pc,                  \* what kmain does next
  inited,              \* the subsystems kmain has initialised
  tick,                \* the timer's counter
  finished,            \* FINISHED_INIT
  published,           \* pqueue and cur_proc point at the first process
  dir,                 \* what its page directory holds
  cr3,                 \* the directory the CPU uses
  frame,               \* the registers and stack kmain runs with: its own, or not
  dead                 \* the CPU has faulted for good

vars == <<requests, inService, mayRaise, IF_, handler, line, pc, inited, tick,
          finished, published, dir, cr3, frame, dead>>

picVars  == <<requests, inService, mayRaise>>
kernVars == <<inited, finished, published, dir>>
cpuVars  == <<IF_, handler, line, frame, dead>>

(* The order of kmain, with paging_init's last lines (cli, cr3, sti) and   *)
(* the steps of tasking_init's create_process spelt out.                   *)
KmainOrder ==
  [gdt_init |-> "isr_install", isr_install |-> "irq_install", irq_install |-> "pmm_init",
   pmm_init |-> "load_page_dir", load_page_dir |-> "sti", sti |-> "heap_init",
   heap_init |-> "vesa_graphics_init", vesa_graphics_init |-> "tty_init",
   tty_init |-> "initrd_init", initrd_init |-> "finish", finish |-> "kmalloc",
   kmalloc |-> "publish", publish |-> "memset", memset |-> "copy",
   copy |-> "map", map |-> "load", load |-> "memcpy", memcpy |-> "idle"]

\* mutants: interrupts on before the tables exist; FINISHED_INIT before the console
After_StiFirst(p) ==
  [KmainOrder EXCEPT !.gdt_init = "sti", !.sti = "isr_install",
                     !.load_page_dir = "heap_init"][p]
After_FinishEarly(p) ==
  [KmainOrder EXCEPT !.heap_init = "finish", !.finish = "vesa_graphics_init",
                     !.initrd_init = "kmalloc"][p]

After(p) == KmainOrder[p]

Stages == DOMAIN KmainOrder \cup {"idle"}

\* subsystems whose initialisation changes nothing else here
Subsystems == {"gdt_init", "isr_install", "irq_install", "pmm_init", "heap_init",
               "vesa_graphics_init", "tty_init", "initrd_init"}

-----------------------------------------------------------------------------
(* GRUB enters with interrupts disabled. *)
Init ==
  /\ requests = {} /\ inService = {} /\ mayRaise = Lines \cup Spurious
  /\ IF_ = FALSE /\ handler = "none" /\ line = 0
  /\ pc = "gdt_init" /\ inited = {}
  /\ tick = 0 /\ finished = FALSE
  /\ published = FALSE /\ dir = "none" /\ cr3 = "boot"
  /\ frame = "own" /\ dead = FALSE

(* A device raises its line; a second edge before the first is taken is    *)
(* lost.  A handler is shorter than the time between two edges of a line.  *)
Raise(l) ==
  /\ l \in mayRaise \cap Lines
  /\ requests' = requests \cup {l}
  /\ mayRaise' = mayRaise \ {l}
  /\ UNCHANGED <<inService, pc, tick, cr3, cpuVars, inited, finished, published, dir>>

-----------------------------------------------------------------------------
\* the CPU looks at its interrupt pin before every instruction
Interrupted == IF_ /\ \E l \in Lines : Presented(requests, inService, l)

KmainRuns(p) ==
  /\ handler = "none" /\ ~dead /\ ~Interrupted
  /\ pc = p
  /\ mayRaise' = Lines \cup Spurious
  /\ UNCHANGED <<handler, line, tick>>

KmainStep(p) == KmainRuns(p) /\ frame = "own" /\ pc' = After(p) /\ UNCHANGED <<frame, dead>>

(* gdt_init ... initrd_init.  isr_install reprograms the controllers, which *)
(* forgets what they had latched.                                          *)
Initialise(p) ==
  /\ KmainStep(p)
  /\ inited' = inited \cup {p}
  /\ IF p = "isr_install" THEN requests' = {} /\ inService' = {}
                          ELSE UNCHANGED <<requests, inService>>
  /\ UNCHANGED <<IF_, finished, published, dir, cr3>>

(* paging_init: cli, the new directory, sti. *)
LoadKernelDirectory ==
  /\ KmainStep("load_page_dir")
  /\ IF_' = FALSE
  /\ cr3' = "kernel"
  /\ UNCHANGED <<requests, inService, inited, finished, published, dir>>

Sti ==
  /\ KmainStep("sti")
  /\ IF_' = TRUE
  /\ UNCHANGED <<requests, inService, inited, finished, published, dir, cr3>>

Finish ==
  /\ KmainStep("finish")
  /\ finished' = TRUE
  /\ UNCHANGED <<requests, inService, IF_, inited, published, dir, cr3>>

(* create_process: the directory is allocated, the process published, and  *)
(* only then is the directory cleared, filled with the kernel's tables and *)
(* given its own pages.                                                    *)
PrepareDirectory(p, content) ==
  /\ KmainStep(p)
  /\ dir' = content
  /\ UNCHANGED <<requests, inService, IF_, inited, finished, published, cr3>>

Publish ==
  /\ KmainStep("publish")
  /\ published' = TRUE
  /\ UNCHANGED <<requests, inService, IF_, inited, finished, dir, cr3>>

LoadProcessDirectory ==
  /\ KmainStep("load")
  /\ cr3' = "process"
  /\ UNCHANGED <<requests, inService, IF_, inited, finished, published, dir>>

CopyCode ==
  /\ KmainStep("memcpy")
  /\ UNCHANGED <<requests, inService, IF_, inited, finished, published, dir, cr3>>

CreateProcess ==
  \/ PrepareDirectory("kmalloc", "garbage")
  \/ Publish
  \/ PrepareDirectory("memset", "empty")
  \/ PrepareDirectory("copy", "kernel")
  \/ PrepareDirectory("map", "complete")
  \/ LoadProcessDirectory
  \/ CopyCode

(* An instruction of a stage that changes nothing here: a stage takes any  *)
(* number of them.  for(;;) {} needs neither registers nor a stack.        *)
Work(p) ==
  /\ KmainRuns(p)
  /\ frame = "own" \/ p = "idle"
  /\ UNCHANGED <<requests, inService, IF_, pc, inited, finished, published, dir, cr3, frame, dead>>

(* Anything else, run with another stack and other registers, faults.      *)
RunLost(p) ==
  /\ KmainRuns(p)
  /\ frame = "lost" /\ p # "idle"
  /\ dead' = TRUE
  /\ UNCHANGED <<requests, inService, IF_, pc, inited, finished, published, dir, cr3, frame>>

Advance ==
  \/ \E p \in Subsystems : Initialise(p)
  \/ LoadKernelDirectory
  \/ Sti
  \/ Finish
  \/ CreateProcess

Kmain == Advance \/ \E p \in Stages : Work(p) \/ RunLost(p)

-----------------------------------------------------------------------------
\* mutant: the stub pushes the vector for the line
Enter_Vector(l) ==
  /\ handler' = "callback" /\ line' = l + 32
  /\ IF_' = FALSE

(* Through an interrupt gate to irq_common_stub and irq_handler. *)
Enter(l) ==
  /\ handler' = "callback" /\ line' = l
  /\ IF_' = FALSE

Deliver(l) ==
  /\ IF_ /\ ~dead
  /\ Presented(requests, inService, l)
  /\ Enter(l)
  /\ requests' = requests \ {l}
  /\ inService' = inService \cup Marks(l)
  /\ UNCHANGED <<mayRaise, pc, tick, cr3, frame, dead, inited, finished, published, dir>>

(* A request that went away before the CPU asked for its number. *)
DeliverSpurious(l) ==
  /\ IF_ /\ ~dead
  /\ l \in mayRaise
  /\ ~Blocked(inService, l)
  /\ Enter(l)
  /\ mayRaise' = mayRaise \ {l}
  /\ inService' = inService \cup SpuriousMarks(l)
  /\ UNCHANGED <<requests, pc, tick, cr3, frame, dead, inited, finished, published, dir>>

\* mutant: the callback of a line that has none is called
OtherCallback_Unchecked ==
  /\ handler = "callback" /\ line \in {1, 12} /\ ~dead
  /\ handler' = "ack"
  /\ UNCHANGED <<picVars, IF_, line, pc, tick, cr3, frame, dead, kernVars>>

(* Every callback but the timer's leaves this state alone (a line without  *)
(* a callback has none).                                                   *)
OtherCallback ==
  /\ handler = "callback" /\ line # 0 /\ ~dead
  /\ handler' = "ack"
  /\ UNCHANGED <<picVars, IF_, line, pc, tick, cr3, frame, dead, kernVars>>

\* timer_callback repaints the screen on every second tick once booted
Paints == (tick + 1) % 2 = 0 /\ finished

TimerCallback ==
  /\ handler = "callback" /\ line = 0 /\ ~dead
  /\ tick' = (tick + 1) % TickMod
  /\ ~published                          \* switch_task returns
  /\ handler' = "ack"
  /\ UNCHANGED <<picVars, IF_, line, pc, cr3, frame, dead, kernVars>>

(* switch_task with a process: it is its own successor (its next pointer   *)
(* was never written; it may also lead nowhere).  load_page_dir takes its  *)
(* directory whatever it holds, and switch_kernel_task irets to the        *)
(* interrupted instruction with interrupts still disabled: a stack pointer *)
(* the CPU never pushed, none of the saved registers, no return to         *)
(* irq_handler.                                                            *)
SwitchTask ==
  /\ handler = "callback" /\ line = 0 /\ ~dead
  /\ tick' = (tick + 1) % TickMod
  /\ published
  /\ cr3' = "process"
  /\ \/ dead' = TRUE /\ UNCHANGED <<handler, frame>>           \* next leads nowhere
     \/ /\ dir \in {"garbage", "empty"}
        /\ dead' = TRUE /\ UNCHANGED <<handler, frame>>
     \/ /\ dir \in {"kernel", "complete"}
        /\ handler' = "none" /\ frame' = "lost" /\ UNCHANGED dead
  /\ UNCHANGED <<picVars, IF_, line, pc, kernVars>>

\* mutants: the slave is forgotten; only one chip is told
AckPic_NoSlave(l) == EndOfInterrupt(inService, Master)
AckPic_EitherChip(l) == EndOfInterrupt(inService, IF l >= 8 THEN Slave ELSE Master)

(* ack_pic, int_no being the line plus 32. *)
AckPic(l) ==
  EndOfInterrupt(IF l + 32 >= 40 THEN EndOfInterrupt(inService, Slave) ELSE inService, Master)

Ack ==
  /\ handler = "ack"
  /\ inService' = AckPic(line)
  /\ handler' = "iret"
  /\ UNCHANGED <<requests, mayRaise, IF_, line, pc, tick, cr3, frame, dead, kernVars>>

Iret ==
  /\ handler = "iret"
  /\ handler' = "none"
  /\ IF_' = TRUE
  /\ UNCHANGED <<picVars, line, pc, tick, cr3, frame, dead, kernVars>>

Handler == OtherCallback \/ TimerCallback \/ SwitchTask \/ Ack \/ Iret

Dispatch == Handler \/ \E l \in Lines : Deliver(l)

Next ==
  \/ Kmain
  \/ Dispatch
  \/ \E l \in Lines : Raise(l)
  \/ \E l \in Spurious : DeliverSpurious(l)

\* the CPU takes a presented interrupt and runs its handler; a stage of kmain may
\* last for any time, and devices promise nothing
Spec == Init /\ [][Next]_vars /\ WF_vars(Dispatch)

-----------------------------------------------------------------------------
TypeOK ==
  /\ requests \subseteq Lines
  /\ inService \subseteq Master \cup Slave
  /\ mayRaise \subseteq Lines \cup Spurious
  /\ IF_ \in BOOLEAN
  /\ handler \in {"none", "callback", "ack", "iret"}
  /\ line \in Lines \cup Spurious \cup {0}
  /\ pc \in Stages
  /\ inited \subseteq Subsystems
  /\ tick \in 0 .. TickMod - 1
  /\ finished \in BOOLEAN /\ published \in BOOLEAN
  /\ dir \in {"none", "garbage", "empty", "kernel", "complete"}
  /\ cr3 \in {"boot", "kernel", "process"}
  /\ frame \in {"own", "lost"}
  /\ dead \in BOOLEAN

(* What the controllers hold in service is exactly the interrupt whose     *)
(* handler runs and has not acknowledged it: none is nested, none ended    *)
(* for another, a spurious one ends nobody's (isr.c:124-159).              *)
InServiceIsCurrent ==
  frame = "own" =>
    inService = IF handler \in {"callback", "ack"}
                THEN IF line \in Spurious THEN SpuriousMarks(line) ELSE Marks(line)
                ELSE {}

(* No handler runs before the tables it is found through are installed, or *)
(* under the boot page directory (kernel.c:28-31, paging.c:223-225).       *)
HandlersFindTheirTables ==
  (handler # "none" \/ IF_) => /\ {"isr_install", "irq_install"} \subseteq inited
                               /\ cr3 # "boot"

(* Before the first process is published a tick harms nobody, wherever it  *)
(* falls in kmain: it never paints before the back buffer and the console  *)
(* exist (timer.c:15, kernel.c:38), it takes no stack or register away     *)
(* from kmain, and it loads no page directory (proc.c:21, 45-58).          *)
TicksAreHarmless ==
  /\ handler = "callback" /\ line = 0 /\ Paints =>
       {"heap_init", "vesa_graphics_init", "tty_init"} \subseteq inited
  /\ dead \/ frame = "lost" \/ (cr3 = "process" /\ dir # "complete") =>
       published

(* Once interrupts are enabled and until the first process exists, every   *)
(* latched request is taken in the end, whatever the priority of its line  *)
(* and however long kmain's current stage lasts.                           *)
RequestsAreServed ==
  \A l \in Lines : (l \in requests /\ IF_) ~> (l \notin requests \/ published)

(* However interrupts fall, kmain gets through its initialisation, if      *)
(* every stage ends that gets to run again and again.                      *)
BootFinishes == SF_vars(Advance) => <>finished

(* isr.c:125 "After every interrupt we need to send an EOI to the PICs":   *)
(* kmain never runs again with an interrupt still in service.              *)
EoiBeforeReturn == handler = "none" => inService = {}
=============================================================================
