-------------------------- MODULE InterruptsProofs --------------------------
(***************************************************************************)
(* Theorems about interrupts during kmain, for every set of lines that     *)
(* raise requests, every set of spurious ones and every tick bound.        *)
(***************************************************************************)
EXTENDS Interrupts, TLAPS

\* where a stage stands in kmain
Position ==
  [gdt_init |-> 0, isr_install |-> 1, irq_install |-> 2, pmm_init |-> 3,
   load_page_dir |-> 4, sti |-> 5, heap_init |-> 6, vesa_graphics_init |-> 7,
   tty_init |-> 8, initrd_init |-> 9, finish |-> 10, kmalloc |-> 11,
   publish |-> 12, memset |-> 13, copy |-> 14, map |-> 15, load |-> 16,
   memcpy |-> 17, idle |-> 18]

Passed(p) == Position[p] < Position[pc]

\* what kmain has done is what it has passed
ProgressIsPosition ==
  /\ inited = {s \in Subsystems : Passed(s)}
  /\ finished <=> Passed("finish")
  /\ published <=> Passed("publish")
  /\ cr3 = "boot" <=> ~Passed("load_page_dir")
  /\ cr3 = "process" => published

\* interrupts are enabled in kmain after its sti only, never in a handler
OneHandler ==
  /\ IF_ \/ handler # "none" => Passed("sti")
  /\ IF_ => handler = "none"
  /\ frame = "lost" => handler = "none" /\ ~IF_
  /\ dead \/ frame = "lost" => published

IntInv ==
  /\ TypeOK
  /\ ProgressIsPosition
  /\ OneHandler
  /\ InServiceIsCurrent

-----------------------------------------------------------------------------
LEMMA StageNames ==
  /\ DOMAIN KmainOrder =
       {"gdt_init", "isr_install", "irq_install", "pmm_init", "load_page_dir", "sti",
        "heap_init", "vesa_graphics_init", "tty_init", "initrd_init", "finish",
        "kmalloc", "publish", "memset", "copy", "map", "load", "memcpy"}
  /\ Stages = DOMAIN KmainOrder \cup {"idle"}
  /\ Subsystems \subseteq DOMAIN KmainOrder
  BY DEF KmainOrder, Stages, Subsystems

(* kmain's stages follow each other in the order of their positions.       *)
LEMMA StagesAdvance ==
  /\ \A p \in Stages : Position[p] \in 0 .. 18
  /\ \A p \in DOMAIN KmainOrder :
       After(p) \in Stages /\ Position[After(p)] = Position[p] + 1
  /\ \A p, q \in Stages : Position[p] = Position[q] => p = q
  <1>1. \A p \in Stages : Position[p] \in 0 .. 18
    BY StageNames DEF Position
  <1>2. \A p \in DOMAIN KmainOrder :
       After(p) \in Stages /\ Position[After(p)] = Position[p] + 1
    BY StageNames DEF KmainOrder, Position, After
  <1>3. \A p, q \in Stages : Position[p] = Position[q] => p = q
    BY StageNames DEF Position
  <1> QED BY <1>1, <1>2, <1>3

(* A step of kmain passes the stage it is at and no other.                 *)
LEMMA StepPasses ==
  ASSUME TypeOK, NEW p \in DOMAIN KmainOrder, KmainStep(p)
  PROVE  /\ pc' \in Stages
         /\ \A s \in Stages : Passed(s)' <=> Passed(s) \/ s = p
         /\ pc = p /\ p \in Stages /\ ~Passed(p)
         /\ handler = "none" /\ handler' = "none"
         /\ frame = "own" /\ frame' = "own" /\ dead = FALSE /\ dead' = FALSE
         /\ mayRaise' = Lines \cup Spurious /\ line' = line /\ tick' = tick
  <1>1. pc = p /\ pc' = After(p) /\ p \in Stages
    BY DEF KmainStep, KmainRuns, Stages
  <1>2. pc' \in Stages /\ Position[pc'] = Position[p] + 1
    BY <1>1, StagesAdvance
  <1>3. \A s \in Stages : Position[s] \in Int /\ (Position[s] = Position[p] => s = p)
    BY <1>1, StagesAdvance
  <1>4. \A s \in Stages : Passed(s)' <=> Passed(s) \/ s = p
    BY <1>1, <1>2, <1>3 DEF Passed
  <1>5. ~Passed(p)
    BY <1>1, <1>3 DEF Passed
  <1> QED BY <1>1, <1>2, <1>4, <1>5 DEF KmainStep, KmainRuns, TypeOK

\* the order of the stages the properties are about
LEMMA StageOrder ==
  ASSUME TypeOK
  PROVE  /\ Passed("sti") => /\ Passed("isr_install") /\ Passed("irq_install")
                             /\ Passed("load_page_dir")
         /\ Passed("finish") => /\ Passed("heap_init") /\ Passed("vesa_graphics_init")
                                /\ Passed("tty_init")
         /\ pc = "load" => Passed("load_page_dir") /\ Passed("publish")
  <1>1. Position[pc] \in Int
    BY StagesAdvance DEF TypeOK
  <1> QED BY <1>1 DEF Passed, Position

(* Acknowledging an interrupt, alone in service, ends it and nothing else; *)
(* a spurious one leaves nothing of its cascade mark.                      *)
LEMMA AckEndsTheCurrent ==
  ASSUME NEW l \in Master \cup Slave,
         \/ inService = Marks(l) /\ l # Cascade
         \/ inService = SpuriousMarks(l) /\ l \in {7, 15}
  PROVE  AckPic(l) = {}
  <1>1. CASE l \in Master
    <2>1. inService \subseteq {l} /\ ~(l + 32 >= 40) /\ l \notin Slave
      BY <1>1 DEF Master, Slave, Marks, SpuriousMarks
    <2>2. EndOfInterrupt(inService, Master) = {}
      <3> SUFFICES ASSUME NEW m \in EndOfInterrupt(inService, Master) PROVE FALSE
        OBVIOUS
      <3>1. m = l /\ \E other \in inService : other < l
        BY <1>1, <2>1 DEF EndOfInterrupt
      <3> QED BY <1>1, <2>1, <3>1 DEF Master
    <2> QED BY <2>1, <2>2 DEF AckPic
  <1>2. CASE l \in Slave
    <2>1. inService \subseteq {Cascade, l} /\ l + 32 >= 40 /\ l \notin Master
      BY <1>2 DEF Master, Slave, Marks, SpuriousMarks
    <2>2. Cascade \in Master /\ Cascade \notin Slave
      BY DEF Cascade, Master, Slave
    <2> DEFINE rest == EndOfInterrupt(inService, Slave)
    <2>3. rest \subseteq {Cascade}
      <3> SUFFICES ASSUME NEW m \in rest, m # Cascade PROVE FALSE
        OBVIOUS
      <3>1. m = l /\ \E other \in inService \cap Slave : other < l
        BY <1>2, <2>1 DEF EndOfInterrupt
      <3>2. inService \cap Slave \subseteq {l}
        BY <2>1, <2>2
      <3> QED BY <1>2, <3>1, <3>2 DEF Slave
    <2>4. EndOfInterrupt(rest, Master) = {}
      BY <2>2, <2>3 DEF EndOfInterrupt, Cascade
    <2> QED BY <2>1, <2>4 DEF AckPic
  <1> QED BY <1>1, <1>2

-----------------------------------------------------------------------------
LEMMA IntInitInv == Init => IntInv
  <1> SUFFICES ASSUME Init PROVE IntInv
    OBVIOUS
  <1>1. TypeOK
    <2>1. tick \in 0 .. TickMod - 1
      BY InterruptsAssumption DEF Init
    <2> QED BY <2>1, StageNames DEF Init, TypeOK
  <1>2. ProgressIsPosition
    BY DEF Init, ProgressIsPosition, Passed, Position, Subsystems
  <1>3. OneHandler /\ InServiceIsCurrent
    BY DEF Init, OneHandler, InServiceIsCurrent
  <1> QED BY <1>1, <1>2, <1>3 DEF IntInv

(* While kmain runs with its own registers no interrupt is in service, so  *)
(* a step of kmain that touches neither controllers nor flag keeps it so.  *)
LEMMA KmainKeepsService ==
  ASSUME IntInv, handler' = "none", inService' \in {inService, {}},
         frame' = frame, handler = "none"
  PROVE  InServiceIsCurrent'
  BY DEF IntInv, InServiceIsCurrent

LEMMA InitialiseInv ==
  ASSUME IntInv, NEW p \in Subsystems, Initialise(p)
  PROVE  IntInv'
  <1>1. p \in DOMAIN KmainOrder /\ p \notin {"finish", "publish", "load_page_dir", "sti"}
    BY StageNames DEF Subsystems
  <1>2. KmainStep(p)
    BY DEF Initialise
  <1> USE StepPasses DEF IntInv
  <1>3. TypeOK'
    BY <1>1, <1>2 DEF TypeOK, Initialise
  <1>4. ProgressIsPosition'
    <2>1. {"finish", "publish", "load_page_dir", "sti"} \cup Subsystems \subseteq Stages
      BY StageNames
    <2>2. inited' = {s \in Subsystems : Passed(s)'}
      BY <1>1, <1>2, <2>1 DEF ProgressIsPosition, Initialise
    <2> QED BY <1>1, <1>2, <2>1, <2>2 DEF ProgressIsPosition, Initialise
  <1>5. OneHandler'
    BY <1>1, <1>2, StageNames DEF OneHandler, Initialise
  <1>6. InServiceIsCurrent'
    BY <1>1, <1>2, KmainKeepsService DEF Initialise
  <1> QED BY <1>3, <1>4, <1>5, <1>6

\* the stages that initialise no subsystem
LEMMA OtherStage ==
  ASSUME IntInv, NEW p \in DOMAIN KmainOrder \ Subsystems, KmainStep(p),
         inited' = inited
  PROVE  /\ inited' = {s \in Subsystems : Passed(s)'}
         /\ \A s \in {"finish", "publish", "load_page_dir", "sti"} :
              Passed(s)' <=> Passed(s) \/ s = p
  <1>1. Subsystems \cup {"finish", "publish", "load_page_dir", "sti"} \subseteq Stages
    BY StageNames
  <1> QED BY <1>1, StepPasses DEF IntInv, ProgressIsPosition

LEMMA LoadKernelDirectoryInv ==
  ASSUME IntInv, LoadKernelDirectory
  PROVE  IntInv'
  <1> DEFINE p == "load_page_dir"
  <1>1. p \in DOMAIN KmainOrder \ Subsystems /\ KmainStep(p)
    BY StageNames DEF Subsystems, LoadKernelDirectory
  <1>2. TypeOK'
    BY <1>1, StepPasses DEF IntInv, TypeOK, LoadKernelDirectory
  <1>3. ProgressIsPosition'
    BY <1>1, OtherStage DEF IntInv, ProgressIsPosition, LoadKernelDirectory
  <1>4. OneHandler'
    BY <1>1, StepPasses DEF IntInv, OneHandler, LoadKernelDirectory
  <1>5. InServiceIsCurrent'
    BY <1>1, StepPasses, KmainKeepsService DEF IntInv, LoadKernelDirectory
  <1> QED BY <1>2, <1>3, <1>4, <1>5 DEF IntInv

LEMMA StiInv ==
  ASSUME IntInv, Sti
  PROVE  IntInv'
  <1> DEFINE p == "sti"
  <1>1. p \in DOMAIN KmainOrder \ Subsystems /\ KmainStep(p)
    BY StageNames DEF Subsystems, Sti
  <1>2. TypeOK'
    BY <1>1, StepPasses DEF IntInv, TypeOK, Sti
  <1>3. ProgressIsPosition'
    BY <1>1, OtherStage DEF IntInv, ProgressIsPosition, Sti
  <1>4. OneHandler'
    BY <1>1, StepPasses, OtherStage DEF IntInv, OneHandler, Sti
  <1>5. InServiceIsCurrent'
    BY <1>1, StepPasses, KmainKeepsService DEF IntInv, Sti
  <1> QED BY <1>2, <1>3, <1>4, <1>5 DEF IntInv

LEMMA FinishInv ==
  ASSUME IntInv, Finish
  PROVE  IntInv'
  <1> DEFINE p == "finish"
  <1>1. p \in DOMAIN KmainOrder \ Subsystems /\ KmainStep(p)
    BY StageNames DEF Subsystems, Finish
  <1>2. TypeOK'
    BY <1>1, StepPasses DEF IntInv, TypeOK, Finish
  <1>3. ProgressIsPosition'
    BY <1>1, OtherStage DEF IntInv, ProgressIsPosition, Finish
  <1>4. OneHandler'
    BY <1>1, StepPasses, OtherStage DEF IntInv, OneHandler, Finish
  <1>5. InServiceIsCurrent'
    BY <1>1, StepPasses, KmainKeepsService DEF IntInv, Finish
  <1> QED BY <1>2, <1>3, <1>4, <1>5 DEF IntInv

(* The steps of create_process: the directory is prepared around the       *)
(* publication, and loaded after it.                                       *)
LEMMA CreateProcessInv ==
  ASSUME IntInv, CreateProcess
  PROVE  IntInv'
  <1> DEFINE Contents == {"garbage", "empty", "kernel", "complete"}
  <1>1. ASSUME NEW p \in {"kmalloc", "memset", "copy", "map"}, NEW c \in Contents,
               PrepareDirectory(p, c)
        PROVE  IntInv'
    <2>1. p \in DOMAIN KmainOrder \ Subsystems /\ KmainStep(p)
      BY <1>1, StageNames DEF Subsystems, PrepareDirectory
    <2>2. TypeOK'
      BY <1>1, <2>1, StepPasses DEF IntInv, TypeOK, PrepareDirectory
    <2>3. ProgressIsPosition'
      BY <1>1, <2>1, OtherStage DEF IntInv, ProgressIsPosition, PrepareDirectory
    <2>4. OneHandler'
      BY <1>1, <2>1, StepPasses, OtherStage DEF IntInv, OneHandler, PrepareDirectory
    <2>5. InServiceIsCurrent'
      BY <1>1, <2>1, StepPasses, KmainKeepsService DEF IntInv, PrepareDirectory
    <2> QED BY <2>2, <2>3, <2>4, <2>5 DEF IntInv
  <1>2. CASE Publish
    <2>1. "publish" \in DOMAIN KmainOrder \ Subsystems /\ KmainStep("publish")
      BY <1>2, StageNames DEF Subsystems, Publish
    <2>2. TypeOK'
      BY <1>2, <2>1, StepPasses DEF IntInv, TypeOK, Publish
    <2>3. ProgressIsPosition'
      BY <1>2, <2>1, OtherStage DEF IntInv, ProgressIsPosition, Publish
    <2>4. OneHandler'
      BY <1>2, <2>1, StepPasses, OtherStage DEF IntInv, OneHandler, Publish
    <2>5. InServiceIsCurrent'
      BY <1>2, <2>1, StepPasses, KmainKeepsService DEF IntInv, Publish
    <2> QED BY <2>2, <2>3, <2>4, <2>5 DEF IntInv
  <1>3. CASE LoadProcessDirectory
    <2>1. "load" \in DOMAIN KmainOrder \ Subsystems /\ KmainStep("load")
      BY <1>3, StageNames DEF Subsystems, LoadProcessDirectory
    <2>2. TypeOK'
      BY <1>3, <2>1, StepPasses DEF IntInv, TypeOK, LoadProcessDirectory
    <2>3. ProgressIsPosition'
      <3>1. published /\ cr3 # "boot"
        BY <2>1, StepPasses, StageOrder DEF IntInv, ProgressIsPosition
      <3> QED BY <1>3, <2>1, <3>1, OtherStage
           DEF IntInv, ProgressIsPosition, LoadProcessDirectory
    <2>4. OneHandler'
      BY <1>3, <2>1, StepPasses, OtherStage DEF IntInv, OneHandler, LoadProcessDirectory
    <2>5. InServiceIsCurrent'
      BY <1>3, <2>1, StepPasses, KmainKeepsService DEF IntInv, LoadProcessDirectory
    <2> QED BY <2>2, <2>3, <2>4, <2>5 DEF IntInv
  <1>4. CASE CopyCode
    <2>1. "memcpy" \in DOMAIN KmainOrder \ Subsystems /\ KmainStep("memcpy")
      BY <1>4, StageNames DEF Subsystems, CopyCode
    <2>2. TypeOK'
      BY <1>4, <2>1, StepPasses DEF IntInv, TypeOK, CopyCode
    <2>3. ProgressIsPosition'
      BY <1>4, <2>1, OtherStage DEF IntInv, ProgressIsPosition, CopyCode
    <2>4. OneHandler'
      BY <1>4, <2>1, StepPasses, OtherStage DEF IntInv, OneHandler, CopyCode
    <2>5. InServiceIsCurrent'
      BY <1>4, <2>1, StepPasses, KmainKeepsService DEF IntInv, CopyCode
    <2> QED BY <2>2, <2>3, <2>4, <2>5 DEF IntInv
  <1> QED BY <1>1, <1>2, <1>3, <1>4 DEF CreateProcess

(* Steps that leave the place of kmain, and what it has done, alone.       *)
LEMMA ProgressKept ==
  ASSUME IntInv, UNCHANGED <<pc, inited, finished, published>>,
         cr3' = cr3 \/ (cr3' = "process" /\ cr3 # "boot" /\ published)
  PROVE  ProgressIsPosition' /\ (Passed("sti")' <=> Passed("sti"))
  <1>1. \A s : Passed(s)' <=> Passed(s)
    BY DEF Passed
  <1> QED BY <1>1 DEF IntInv, ProgressIsPosition

\* instructions that change nothing here, and those of a stage run without its stack
LEMMA KmainRestInv ==
  ASSUME IntInv, NEW p \in Stages, Work(p) \/ RunLost(p)
  PROVE  IntInv'
  <1>1. TypeOK'
    BY DEF IntInv, TypeOK, Work, RunLost, KmainRuns
  <1>2. ProgressIsPosition' /\ (Passed("sti")' <=> Passed("sti"))
    BY ProgressKept DEF Work, RunLost
  <1>3. OneHandler'
    BY <1>2 DEF IntInv, OneHandler, Work, RunLost, KmainRuns
  <1>4. InServiceIsCurrent'
    BY DEF IntInv, InServiceIsCurrent, Work, RunLost, KmainRuns
  <1> QED BY <1>1, <1>2, <1>3, <1>4 DEF IntInv

LEMMA KmainInv ==
  ASSUME IntInv, Kmain
  PROVE  IntInv'
  BY InitialiseInv, LoadKernelDirectoryInv, StiInv, FinishInv, CreateProcessInv, KmainRestInv
  DEF Kmain, Advance

-----------------------------------------------------------------------------
LEMMA RaiseInv ==
  ASSUME IntInv, NEW l \in Lines, Raise(l)
  PROVE  IntInv'
  <1>1. TypeOK'
    BY DEF IntInv, TypeOK, Raise, cpuVars
  <1>2. ProgressIsPosition' /\ (Passed("sti")' <=> Passed("sti"))
    BY ProgressKept DEF Raise
  <1>3. OneHandler' /\ InServiceIsCurrent'
    BY <1>2 DEF IntInv, OneHandler, InServiceIsCurrent, Raise, cpuVars
  <1> QED BY <1>1, <1>2, <1>3 DEF IntInv

(* The CPU takes an interrupt, real or spurious, only between two          *)
(* instructions of kmain, when none is in service.                         *)
LEMMA DeliverInv ==
  ASSUME IntInv,
         \/ \E l \in Lines : Deliver(l)
         \/ \E l \in Spurious : DeliverSpurious(l)
  PROVE  IntInv'
  <1>1. /\ handler = "none" /\ frame = "own" /\ frame' = frame /\ dead = FALSE /\ dead' = dead
        /\ IF_ = TRUE /\ inService = {}
    BY DEF IntInv, TypeOK, OneHandler, InServiceIsCurrent, Deliver, DeliverSpurious
  <1>2. PICK l \in Lines \cup Spurious : 
          /\ handler' = "callback" /\ line' = l /\ IF_' = FALSE
          /\ inService' = IF l \in Spurious THEN SpuriousMarks(l) ELSE Marks(l)
          /\ requests' \subseteq requests /\ mayRaise' \subseteq mayRaise
          /\ UNCHANGED <<pc, tick, cr3, inited, finished, published, dir>>
    BY <1>1, InterruptsAssumption DEF Deliver, DeliverSpurious, Enter
  <1>3. inService' \subseteq Master \cup Slave
    BY <1>2, InterruptsAssumption DEF SpuriousMarks, Marks, Master, Slave, Cascade
  <1>4. TypeOK'
    BY <1>1, <1>2, <1>3 DEF IntInv, TypeOK
  <1>5. ProgressIsPosition' /\ (Passed("sti")' <=> Passed("sti"))
    BY <1>2, ProgressKept
  <1>6. OneHandler'
    BY <1>1, <1>2, <1>5 DEF IntInv, OneHandler
  <1>7. InServiceIsCurrent'
    BY <1>1, <1>2 DEF InServiceIsCurrent
  <1> QED BY <1>4, <1>5, <1>6, <1>7 DEF IntInv

LEMMA CallbackInv ==
  ASSUME IntInv, OtherCallback \/ TimerCallback
  PROVE  IntInv'
  <1>1. /\ handler = "callback" /\ handler' = "ack"
        /\ UNCHANGED <<picVars, IF_, line, pc, cr3, frame, dead, kernVars>>
    BY DEF OtherCallback, TimerCallback
  <1>2. tick' \in 0 .. TickMod - 1
    BY InterruptsAssumption DEF IntInv, TypeOK, OtherCallback, TimerCallback
  <1>3. TypeOK'
    BY <1>1, <1>2 DEF IntInv, TypeOK, picVars, kernVars
  <1>4. ProgressIsPosition' /\ (Passed("sti")' <=> Passed("sti"))
    BY <1>1, ProgressKept DEF kernVars
  <1>5. OneHandler' /\ InServiceIsCurrent'
    BY <1>1, <1>4 DEF IntInv, OneHandler, InServiceIsCurrent, picVars, kernVars
  <1> QED BY <1>3, <1>4, <1>5 DEF IntInv

(* The switch happens with a process only, and takes the frame with it.    *)
LEMMA SwitchTaskInv ==
  ASSUME IntInv, SwitchTask
  PROVE  IntInv'
  <1>1. /\ handler = "callback" /\ handler' \in {handler, "none"} /\ published = TRUE
        /\ cr3' = "process" /\ IF_ = FALSE /\ frame = "own"
        /\ UNCHANGED <<picVars, IF_, line, pc, kernVars>>
    BY DEF IntInv, TypeOK, OneHandler, SwitchTask
  <1>2. tick' \in 0 .. TickMod - 1
    BY InterruptsAssumption DEF IntInv, TypeOK, SwitchTask
  <1>3. TypeOK'
    BY <1>1, <1>2 DEF IntInv, TypeOK, SwitchTask, picVars, kernVars
  <1>4. ProgressIsPosition' /\ (Passed("sti")' <=> Passed("sti"))
    <2>1. cr3 # "boot"
      BY <1>1, StageOrder DEF IntInv, OneHandler, ProgressIsPosition
    <2> QED BY <1>1, <2>1, ProgressKept DEF kernVars
  <1>5. OneHandler' /\ InServiceIsCurrent'
    BY <1>1, <1>4 DEF IntInv, OneHandler, InServiceIsCurrent, SwitchTask, picVars, kernVars
  <1> QED BY <1>3, <1>4, <1>5 DEF IntInv

LEMMA AckInv ==
  ASSUME IntInv, Ack
  PROVE  IntInv'
  <1>1. /\ handler = "ack" /\ handler' = "iret" /\ IF_ = FALSE /\ frame = "own"
        /\ UNCHANGED <<requests, mayRaise, IF_, line, pc, tick, cr3, frame, dead, kernVars>>
    BY DEF IntInv, TypeOK, OneHandler, Ack
  <1>2. inService' = {}
    <2>1. inService = IF line \in Spurious THEN SpuriousMarks(line) ELSE Marks(line)
      BY <1>1 DEF IntInv, InServiceIsCurrent
    <2>2. /\ line \in Master \cup Slave
          /\ line \in Spurious => line \in {7, 15}
          /\ line \notin Spurious => line # Cascade
      BY InterruptsAssumption DEF IntInv, TypeOK, Master, Slave, Cascade
    <2> QED BY <2>1, <2>2, AckEndsTheCurrent DEF Ack
  <1>3. TypeOK'
    BY <1>1, <1>2 DEF IntInv, TypeOK, kernVars
  <1>4. ProgressIsPosition' /\ (Passed("sti")' <=> Passed("sti"))
    BY <1>1, ProgressKept DEF kernVars
  <1>5. OneHandler' /\ InServiceIsCurrent'
    BY <1>1, <1>2, <1>4 DEF IntInv, OneHandler, InServiceIsCurrent, kernVars
  <1> QED BY <1>3, <1>4, <1>5 DEF IntInv

LEMMA IretInv ==
  ASSUME IntInv, Iret
  PROVE  IntInv'
  <1>1. /\ handler = "iret" /\ handler' = "none" /\ IF_' = TRUE /\ frame = "own"
        /\ UNCHANGED <<picVars, line, pc, tick, cr3, frame, dead, kernVars>>
    BY DEF IntInv, TypeOK, OneHandler, Iret
  <1>2. TypeOK'
    BY <1>1 DEF IntInv, TypeOK, picVars, kernVars
  <1>3. ProgressIsPosition' /\ (Passed("sti")' <=> Passed("sti"))
    BY <1>1, ProgressKept DEF kernVars
  <1>4. OneHandler' /\ InServiceIsCurrent'
    BY <1>1, <1>3 DEF IntInv, OneHandler, InServiceIsCurrent, picVars, kernVars
  <1> QED BY <1>2, <1>3, <1>4 DEF IntInv

LEMMA IntStepInv == IntInv /\ [Next]_vars => IntInv'
  <1> SUFFICES ASSUME IntInv, [Next]_vars PROVE IntInv'
    OBVIOUS
  <1>1. CASE Kmain
    BY <1>1, KmainInv
  <1>2. CASE \E l \in Lines : Raise(l)
    BY <1>2, RaiseInv
  <1>3. CASE (\E l \in Lines : Deliver(l)) \/ (\E l \in Spurious : DeliverSpurious(l))
    BY <1>3, DeliverInv
  <1>4. CASE Handler
    BY <1>4, CallbackInv, SwitchTaskInv, AckInv, IretInv DEF Handler
  <1>5. CASE UNCHANGED vars
    <2>1. TypeOK'
      BY <1>5 DEF IntInv, TypeOK, vars
    <2>2. ProgressIsPosition' /\ (Passed("sti")' <=> Passed("sti"))
      BY <1>5, ProgressKept DEF vars
    <2>3. OneHandler' /\ InServiceIsCurrent'
      BY <1>5, <2>2 DEF IntInv, OneHandler, InServiceIsCurrent, vars
    <2> QED BY <2>1, <2>2, <2>3 DEF IntInv
  <1> QED BY <1>1, <1>2, <1>3, <1>4, <1>5 DEF Next, Dispatch

LEMMA Invariant == Spec => []IntInv
  BY IntInitInv, IntStepInv, PTL DEF Spec

-----------------------------------------------------------------------------
(* The variables keep their types, whatever lines raise requests.          *)
THEOREM InterruptsTypeCorrect == Spec => []TypeOK
  BY Invariant, PTL DEF IntInv

(* Handlers never nest, and the acknowledgement of each ends its own       *)
(* interrupt, spurious or not, on both chips (isr.c:124-159).              *)
THEOREM HandlersDoNotNest == Spec => []InServiceIsCurrent
  BY Invariant, PTL DEF IntInv

(* An interrupt finds its vector, its handler's table and the kernel's     *)
(* page directory, however it falls in kmain (kernel.c:28-31).             *)
THEOREM TablesPrecedeHandlers == Spec => []HandlersFindTheirTables
  <1>1. IntInv => HandlersFindTheirTables
    <2> SUFFICES ASSUME IntInv, handler # "none" \/ IF_
                 PROVE  {"isr_install", "irq_install"} \subseteq inited /\ cr3 # "boot"
      BY DEF HandlersFindTheirTables
    <2>1. Passed("isr_install") /\ Passed("irq_install") /\ Passed("load_page_dir")
      BY StageOrder DEF IntInv, OneHandler
    <2> QED BY <2>1 DEF IntInv, ProgressIsPosition, Subsystems
  <1> QED BY <1>1, Invariant, PTL

(* A tick during kmain paints only a console that exists, and disturbs     *)
(* stack, registers and page directory only once there is a process to     *)
(* switch to (timer.c:15, proc.c:21, 45-58).                               *)
THEOREM TicksDisturbNobody == Spec => []TicksAreHarmless
  <1>1. IntInv => TicksAreHarmless
    <2> SUFFICES ASSUME IntInv PROVE TicksAreHarmless
      OBVIOUS
    <2>1. finished => {"heap_init", "vesa_graphics_init", "tty_init"} \subseteq inited
      BY StageOrder DEF IntInv, ProgressIsPosition, Subsystems
    <2>2. dead \/ frame = "lost" \/ cr3 = "process" => published
      BY DEF IntInv, ProgressIsPosition, OneHandler
    <2> QED BY <2>1, <2>2 DEF TicksAreHarmless, Paints
  <1> QED BY <1>1, Invariant, PTL

=============================================================================
