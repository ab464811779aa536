---------------------------- MODULE PagingProofs ----------------------------
(***************************************************************************)
(* Proofs about Paging, for every size of memory, frame buffer, table and  *)
(* directory that PagingAssumption and AddressSpaceAssumption allow.       *)
(***************************************************************************)
EXTENDS Paging, FiniteSetTheorems, FunctionTheorems, TLAPS

-----------------------------------------------------------------------------
(* The constants, one fact at a time. *)

LEMMA Sizes ==
  /\ Entries \in Nat /\ Entries > 0 /\ DirSize \in Nat /\ DirSize > 0
  /\ WordBits \in Nat /\ WordBits > 0 /\ BITSIZE \in Nat /\ BITSIZE > 0
  /\ BASE \in Nat /\ BASE > 0
  /\ KernelMap \in Nat /\ KernelMap > 0 /\ TmpPages \in Nat /\ TmpPages > 0
  /\ HeapPages \in Nat /\ HeapPages > 0
  /\ BitmapWord \in Nat /\ LastFrame \in Nat /\ MaxProcesses \in Nat
  BY PagingAssumption

LEMMA Division ==
  ASSUME NEW a \in Nat, NEW b \in Nat, b > 0
  PROVE  a \div b \in Nat /\ a % b \in 0 .. b - 1 /\ a = b * (a \div b) + (a % b)
  OBVIOUS

(* The bitmap has a bit for every block, and the scan finds no others.     *)
LEMMA BitmapRoundsUp ==
  ASSUME NEW r \in Nat
  PROVE  /\ BitmapBits(r) \in Nat /\ r <= BitmapBits(r)
         /\ (r \div BITSIZE) * BITSIZE \in Nat /\ (r \div BITSIZE) * BITSIZE <= r
  <1> DEFINE q == r \div BITSIZE
  <1>1. q \in Nat /\ r % BITSIZE \in 0 .. BITSIZE - 1 /\ r = BITSIZE * q + (r % BITSIZE)
    BY Sizes, Division
  <1>2. q * BITSIZE \in Nat /\ (q + 1) * BITSIZE \in Nat /\ q * BITSIZE = BITSIZE * q
        /\ (q + 1) * BITSIZE = BITSIZE * q + BITSIZE
    BY <1>1, Sizes
  <1>3. q * BITSIZE <= r
    BY <1>1, <1>2, Sizes
  <1>4. CASE r % BITSIZE = 0
    BY <1>1, <1>2, <1>3, <1>4 DEF BitmapBits
  <1>5. CASE r % BITSIZE # 0
    BY <1>1, <1>2, <1>3, <1>5, Sizes DEF BitmapBits
  <1> QED BY <1>4, <1>5

LEMMA BlocksOfMemory ==
  ASSUME PagingTypeOK
  PROVE  /\ ram \in Nat /\ Memory \subseteq Nat /\ LastFrame \in Nat \ Memory
         /\ Free \subseteq Memory
         /\ \A f \in Memory : Hit(f) = {}
  <1>1. ram \in Nat /\ BitmapBits(ram) <= LastFrame
    BY PagingAssumption DEF PagingTypeOK
  <1>2. ram <= BitmapBits(ram) /\ BitmapBits(ram) \in Nat
    BY <1>1, BitmapRoundsUp
  <1>3. Memory \subseteq Covered /\ Memory \subseteq Nat /\ LastFrame \in Nat \ Memory
    BY <1>1, <1>2, Sizes DEF Memory, Covered
  <1>4. Scanned \subseteq Memory
    BY <1>1, BitmapRoundsUp DEF Scanned, Memory
  <1> QED BY <1>1, <1>3, <1>4 DEF Free, Hit

LEMMA BehindBitmapType ==
  ASSUME NEW r \in Nat
  PROVE  BehindBitmap(r) \in Nat
  <1>1. BitmapBits(r) \in Nat
    BY BitmapRoundsUp
  <1>2. BitmapBits(r) \div WordBits \in Nat
    BY <1>1, Sizes, Division
  <1>3. (BitmapWord + BitmapBits(r) \div WordBits) \div Entries \in Nat
    BY <1>2, Sizes, Division
  <1> QED BY <1>3 DEF BehindBitmap

LEMMA SlotOfPage ==
  ASSUME NEW v \in 0 .. DirSize * Entries - 1
  PROVE  /\ v \in Nat /\ v \div Entries \in 0 .. DirSize - 1
         /\ v % Entries \in 0 .. Entries - 1
         /\ v >= Entries => v \div Entries # 0
  <1>1. v \in Nat /\ v < DirSize * Entries
    BY Sizes
  <1>2. /\ v \div Entries \in Nat /\ v % Entries \in 0 .. Entries - 1
        /\ v = Entries * (v \div Entries) + (v % Entries)
    BY <1>1, Sizes, Division
  <1>3. v \div Entries < DirSize
    BY <1>1, <1>2, Sizes, SMTT(30)
  <1> QED BY <1>1, <1>2, <1>3, Sizes

(* Two tables have no word in common. *)
LEMMA WordsAreApart ==
  ASSUME NEW t \in Nat, NEW u \in Nat, NEW j \in 0 .. Entries - 1, NEW k \in 0 .. Entries - 1,
         Word(t, j) = Word(u, k)
  PROVE  t = u /\ j = k
  BY Sizes, SMTT(30) DEF Word

-----------------------------------------------------------------------------
(* The inductive invariant, in parts. *)

Booting == {"identity", "heap_init", "heap", "lfb"}
Filling == {"identity", "heap_init", "heap"}

(* Where the loops are; processes come after the last kernel mapping. *)
WhereItIs ==
  /\ phase \in Booting => nprocs = 0
  /\ phase \in {"text", "stack", "load"} => nprocs > 0
  /\ nprocs > 0 => length \in CodeLengths
  /\ phase \notin {"identity", "heap", "lfb"} => at = 0
  /\ phase = "identity" => at < KernelMap
  /\ phase = "heap" => at < HeapPages
  /\ phase = "lfb" => at < lfb.length
  /\ phase \notin {"identity", "heap_init"} => heap_start = HeapStart

(* dumb_kmalloc_a has got as far as tmp_heap; directories that are not     *)
(* made yet are empty; the kernel has nothing in the first table's share.  *)
TablesBelow == \A d \in Dirs, i \in 0 .. DirSize - 1 : ref_tables[d][i] <= tmp_heap
TablesSoFar ==
  /\ TablesBelow
  /\ \A p \in Processes, i \in 0 .. DirSize - 1 : p > nprocs => ref_tables[p][i] = NoTable
  /\ ref_tables[kpage_dir][0] = NoTable
  /\ \A p \in 1 .. nprocs :
       p < nprocs \/ phase \in {"stack", "load", "idle"} => ref_tables[p][0] # NoTable

(* A block of memory in an entry is no longer free. *)
Taken == granted \cup withheld
EveryFrameTaken == \A w \in DOMAIN pte : pte[w] \in Memory => pte[w] \in Taken
FramesAreTaken ==
  /\ EveryFrameTaken
  /\ phase = "identity" => \A f \in Taken : f < at

(* Until the frame buffer is mapped, bits fall behind the bitmap, and      *)
(* entries have no block of memory, only when there is no more memory.     *)
FilledFromMemory ==
  phase \in Filling /\ Free # {} =>
    /\ spoiled = {}
    /\ \A w \in DOMAIN pte : pte[w] \in Memory \cup {Absent}

HeapSoFar ==
  phase \notin {"identity", "heap_init"} =>
    \A v \in HeapVirtual :
      phase # "heap" \/ v < BASE + heap_start + at =>
        /\ Mapped(kpage_dir, v)
        /\ pte[Entry(kpage_dir, v)] \in Memory \/ Free = {}

PagingInv ==
  /\ PagingTypeOK
  /\ WhereItIs
  /\ TablesSoFar
  /\ OnlyTheKernelIsShared
  /\ FramesAreTaken
  /\ NoFrameMappedTwice
  /\ FilledFromMemory
  /\ HeapSoFar
  /\ CodeStays

-----------------------------------------------------------------------------
(* map_virtual_address: the table and the word it uses, and what it does.  *)

Pages        == 0 .. DirSize * Entries - 1
Target(d, v) == IF Table(d, v) = NoTable THEN Bumped ELSE Table(d, v)
Slot(d, v)   == Word(Target(d, v), v % Entries)
EntryWords   == UNION {Words(t) : t \in InUse}

LEMMA TablesInUse ==
  \A t : t \in InUse <=>
    \E d \in Dirs, i \in 0 .. DirSize - 1 : ref_tables[d][i] = t /\ t # NoTable
  BY DEF InUse, Filled

LEMMA WordsOfTables ==
  \A w : w \in EntryWords <=> \E t \in InUse, j \in 0 .. Entries - 1 : w = Word(t, j)
  BY DEF EntryWords, Words

LEMMA MapPageTables ==
  ASSUME PagingTypeOK, TablesBelow, NEW d \in Dirs, NEW v \in Pages, NEW want, MapPage(d, v, want)
  PROVE  /\ Target(d, v) \in Nat \ {NoTable}
         /\ ref_tables' = [ref_tables EXCEPT ![d][v \div Entries] = Target(d, v)]
         /\ tmp_heap' \in Nat /\ tmp_heap <= tmp_heap' /\ Target(d, v) <= tmp_heap'
         /\ logged' \in BOOLEAN
         /\ Table(d, v) = NoTable => Target(d, v) > tmp_heap
  <1>1. v \div Entries \in 0 .. DirSize - 1
    BY SlotOfPage DEF Pages
  <1>2. /\ ref_tables \in [Dirs -> [0 .. DirSize - 1 -> Nat]] /\ tmp_heap \in Nat
        /\ Table(d, v) \in Nat /\ Table(d, v) <= tmp_heap
    BY <1>1 DEF PagingTypeOK, Table, TablesBelow
  <1>3. CASE Table(d, v) = NoTable
    <2>1. /\ ref_tables' = [ref_tables EXCEPT ![d][v \div Entries] = Bumped]
          /\ tmp_heap' = Bumped
          /\ logged' = (logged \/ Bumped >= tmp_heap_end)
      BY <1>3 DEF MapPage
    <2> QED BY <1>2, <1>3, <2>1 DEF Bumped, NoTable, Target
  <1>4. CASE Table(d, v) # NoTable
    <2>1. UNCHANGED <<ref_tables, tmp_heap, logged>>
      BY <1>4 DEF MapPage
    <2>2. ref_tables' = [ref_tables EXCEPT ![d][v \div Entries] = ref_tables[d][v \div Entries]]
      BY <1>1, <1>2, <2>1
    <2>3. logged' \in BOOLEAN
      BY <2>1 DEF PagingTypeOK
    <2>4. Target(d, v) = Table(d, v) /\ Target(d, v) = ref_tables[d][v \div Entries]
      BY <1>4 DEF Target, Table
    <2>5. tmp_heap' \in Nat /\ tmp_heap <= tmp_heap' /\ Table(d, v) <= tmp_heap'
      BY <1>2, <2>1
    <2> QED BY <1>2, <1>4, <2>2, <2>3, <2>4, <2>5
  <1> QED BY <1>3, <1>4

(* Kept(w): an entry that counts as present is not written to. *)
Present(w) == pte[w] # Absent \/ w \in spoiled
Kept(w)    == /\ w \in DOMAIN pte'
              /\ pte'[w] = pte[w]
              /\ w \in spoiled => w \in spoiled'

(* Where a frame f has been mapped: only Slot(d, v) has changed, or been   *)
(* added with the rest of its table.                                       *)
Written(d, v, want, f) ==
  /\ ~Mapped(d, v)
  /\ f \in Nat
  /\ IF want = Any THEN Allocated(f) /\ Granting(f) /\ UNCHANGED withheld
                   ELSE f = want /\ withheld' = withheld \cup ({f} \cap Memory) /\ UNCHANGED granted
  /\ spoiled' \subseteq spoiled \cup Hit(f)
  /\ Slot(d, v) \in DOMAIN pte' /\ pte'[Slot(d, v)] = f
  /\ \A w \in DOMAIN pte' \ {Slot(d, v)} :
       \/ pte'[w] = Absent
       \/ w \in DOMAIN pte /\ pte'[w] = pte[w]

LEMMA TargetWords ==
  ASSUME PagingTypeOK, TablesBelow, NEW d \in Dirs, NEW v \in Pages
  PROVE  /\ v % Entries \in 0 .. Entries - 1
         /\ Slot(d, v) \in Words(Target(d, v))
         /\ Table(d, v) # NoTable =>
              Slot(d, v) = Entry(d, v) /\ Words(Target(d, v)) \subseteq DOMAIN pte
         /\ Table(d, v) = NoTable => Words(Target(d, v)) \cap DOMAIN pte = {}
  <1>1. v \div Entries \in 0 .. DirSize - 1 /\ v % Entries \in 0 .. Entries - 1
    BY SlotOfPage DEF Pages
  <1>2. /\ ref_tables \in [Dirs -> [0 .. DirSize - 1 -> Nat]] /\ tmp_heap \in Nat
        /\ DOMAIN pte = EntryWords
    BY DEF PagingTypeOK, EntryWords
  <1>3. Slot(d, v) \in Words(Target(d, v))
    BY <1>1 DEF Slot, Words
  <1>4. ASSUME Table(d, v) # NoTable
        PROVE  Slot(d, v) = Entry(d, v) /\ Words(Target(d, v)) \subseteq DOMAIN pte
    <2>1. Table(d, v) \in InUse
      BY <1>1, <1>4, TablesInUse DEF Table
    <2> QED BY <1>2, <1>4, <2>1 DEF Slot, Entry, Target, EntryWords
  <1>5. ASSUME Table(d, v) = NoTable
        PROVE  Words(Target(d, v)) \cap DOMAIN pte = {}
    <2>1. Target(d, v) = tmp_heap + 1
      BY <1>5 DEF Target, Bumped
    <2>2. SUFFICES ASSUME NEW w \in Words(Target(d, v)), w \in EntryWords PROVE FALSE
      BY <1>2
    <2>3. PICK j \in 0 .. Entries - 1 : w = Word(tmp_heap + 1, j)
      BY <2>1, <2>2 DEF Words
    <2>4. PICK t \in InUse, k \in 0 .. Entries - 1 : w = Word(t, k)
      BY <2>2, WordsOfTables
    <2>5. t \in Nat /\ t <= tmp_heap
      <3>1. PICK e \in Dirs, i \in 0 .. DirSize - 1 : ref_tables[e][i] = t
        BY <2>4, TablesInUse
      <3> QED BY <1>2, <3>1 DEF TablesBelow
    <2>6. tmp_heap + 1 = t
      BY <1>2, <2>3, <2>4, <2>5, WordsAreApart
    <2> QED BY <1>2, <2>5, <2>6
  <1> QED BY <1>1, <1>3, <1>4, <1>5

LEMMA MapPageEntries ==
  ASSUME PagingTypeOK, TablesBelow, NEW d \in Dirs, NEW v \in Pages, NEW want \in Nat \cup {Any},
         MapPage(d, v, want), UNCHANGED ram
  PROVE  /\ DOMAIN pte' = DOMAIN pte \cup Words(Target(d, v))
         /\ \A w \in DOMAIN pte : Present(w) => Kept(w)
         /\ \/ Mapped(d, v) /\ UNCHANGED <<pte, spoiled, granted, withheld>>
            \/ \E f \in Nat : Written(d, v, want, f)
  <1> DEFINE t == Target(d, v)
             s == Slot(d, v)
  <1>1. /\ v % Entries \in 0 .. Entries - 1 /\ s \in Words(t) /\ s = Word(t, v % Entries)
        /\ Table(d, v) # NoTable => s = Entry(d, v) /\ Words(t) \subseteq DOMAIN pte
        /\ Table(d, v) = NoTable => Words(t) \cap DOMAIN pte = {}
    BY TargetWords DEF Slot
  <1>2. /\ pte = [w \in DOMAIN pte |-> pte[w]] /\ spoiled \subseteq Nat
        /\ Memory \subseteq Nat /\ LastFrame \in Nat /\ Memory' = Memory
    BY Sizes, PagingAssumption DEF PagingTypeOK, Memory
  <1>3. CASE Mapped(d, v)
    <2>1. Table(d, v) # NoTable /\ UNCHANGED <<pte, spoiled, granted, withheld>>
      BY <1>3 DEF MapPage, Mapped
    <2>2. DOMAIN pte' = DOMAIN pte \cup Words(t)
      BY <1>1, <2>1
    <2> QED BY <1>3, <2>1, <2>2 DEF Kept
  <1>4. CASE ~Mapped(d, v)
    <2> DEFINE held  == IF Table(d, v) = NoTable THEN Blank(t) ELSE pte
               clean == IF Table(d, v) = NoTable THEN Cleared(t) ELSE spoiled
    <2>1. PICK f \in Memory \cup {LastFrame, want} :
            /\ IF want = Any
               THEN Allocated(f) /\ Granting(f) /\ UNCHANGED withheld
               ELSE f = want /\ withheld' = withheld \cup ({f} \cap Memory) /\ UNCHANGED granted
            /\ spoiled' = clean \cup Hit(f)
            /\ pte' = [held EXCEPT ![s] = f]
      BY <1>4 DEF MapPage, Slot, Target
    <2>2. f \in Nat
      BY <1>2, <2>1, BlocksOfMemory DEF Allocated, Any
    <2>3. /\ DOMAIN held = DOMAIN pte \cup Words(t)
          /\ held = [w \in DOMAIN held |-> held[w]]
          /\ \A w \in DOMAIN pte : held[w] = pte[w]
          /\ \A w \in Words(t) : w \in DOMAIN pte \/ held[w] = Absent
      BY <1>1, <1>2 DEF Blank
    <2>4. /\ DOMAIN pte' = DOMAIN pte \cup Words(t) /\ pte'[s] = f
          /\ \A w \in DOMAIN pte' : w = s \/ pte'[w] = held[w]
      BY <1>1, <2>1, <2>3
    <2>5. clean \subseteq spoiled /\ spoiled \cap DOMAIN pte \subseteq clean
      BY <1>1 DEF Cleared
    <2>6. ASSUME NEW w \in DOMAIN pte, Present(w) PROVE Kept(w)
      <3>1. w # s
        BY <1>1, <1>4, <2>6 DEF Present, Mapped
      <3> QED BY <2>1, <2>3, <2>4, <2>5, <3>1 DEF Kept
    <2>7. Written(d, v, want, f)
      BY <1>1, <1>4, <2>1, <2>2, <2>3, <2>4, <2>5 DEF Written
    <2> QED BY <2>2, <2>4, <2>6, <2>7
  <1> QED BY <1>3, <1>4

-----------------------------------------------------------------------------
(* What map_virtual_address keeps, whoever calls it. *)

LEMMA MapPageTypes ==
  ASSUME PagingTypeOK, TablesBelow, NEW d \in Dirs, NEW v \in Pages, NEW want \in Nat \cup {Any},
         MapPage(d, v, want), UNCHANGED ram
  PROVE  /\ ref_tables' \in [Dirs -> [0 .. DirSize - 1 -> Nat]]
         /\ pte' \in [EntryWords' -> Nat \cup {Absent}]
         /\ spoiled' \subseteq Nat
         /\ tmp_heap' \in Nat /\ logged' \in BOOLEAN
         /\ granted' \subseteq Memory /\ withheld' \subseteq Memory
         /\ TablesBelow'
  <1> DEFINE t == Target(d, v)
             I == v \div Entries
  <1>1. /\ I \in 0 .. DirSize - 1 /\ t \in Nat \ {NoTable}
        /\ ref_tables' = [ref_tables EXCEPT ![d][I] = t]
        /\ tmp_heap' \in Nat /\ tmp_heap <= tmp_heap' /\ t <= tmp_heap' /\ logged' \in BOOLEAN
    BY MapPageTables, SlotOfPage DEF Pages
  <1>2. /\ ref_tables \in [Dirs -> [0 .. DirSize - 1 -> Nat]] /\ tmp_heap \in Nat
        /\ pte \in [EntryWords -> Nat \cup {Absent}]
        /\ spoiled \subseteq Nat /\ granted \subseteq Memory /\ withheld \subseteq Memory
    BY DEF PagingTypeOK, EntryWords
  <1>3. ref_tables' \in [Dirs -> [0 .. DirSize - 1 -> Nat]] /\ TablesBelow'
    <2>1. ref_tables' \in [Dirs -> [0 .. DirSize - 1 -> Nat]]
      BY <1>1, <1>2
    <2>2. ASSUME NEW e \in Dirs, NEW i \in 0 .. DirSize - 1 PROVE ref_tables'[e][i] <= tmp_heap'
      <3>1. ref_tables'[e][i] = ref_tables[e][i] \/ ref_tables'[e][i] = t
        BY <1>1, <1>2
      <3>2. ref_tables[e][i] \in Nat /\ ref_tables[e][i] <= tmp_heap
        BY <1>2 DEF TablesBelow
      <3> QED BY <1>1, <1>2, <3>1, <3>2
    <2> QED BY <2>1, <2>2 DEF TablesBelow
  <1>4. EntryWords' = EntryWords \cup Words(t)
    <2>1. \A x : x \in InUse' <=> x \in InUse \/ x = t
      <3>1. \A x : x \in InUse' <=>
              \E e \in Dirs, i \in 0 .. DirSize - 1 : ref_tables'[e][i] = x /\ x # NoTable
        BY DEF InUse, Filled
      <3>2. ref_tables'[d][I] = t /\ (ref_tables[d][I] = NoTable \/ ref_tables[d][I] = t)
        BY <1>1, <1>2 DEF Target, Table
      <3>3. \A e \in Dirs, i \in 0 .. DirSize - 1 :
              (e = d /\ i = I) \/ ref_tables'[e][i] = ref_tables[e][i]
        BY <1>1, <1>2
      <3> QED BY <1>1, <3>1, <3>2, <3>3, TablesInUse
    <2> QED BY <2>1 DEF EntryWords
  <1>5. DOMAIN pte' = EntryWords'
    BY <1>2, <1>4, MapPageEntries
  <1>6. CASE Mapped(d, v) /\ UNCHANGED <<pte, spoiled, granted, withheld>>
    BY <1>1, <1>2, <1>3, <1>5, <1>6
  <1>7. ASSUME NEW f \in Nat, Written(d, v, want, f)
        PROVE  /\ pte' \in [EntryWords' -> Nat \cup {Absent}]
               /\ spoiled' \subseteq Nat
               /\ granted' \subseteq Memory /\ withheld' \subseteq Memory
    <2>1. Hit(f) \subseteq Nat
      BY Sizes, Division DEF Hit
    <2>2. spoiled' \subseteq Nat /\ granted' \subseteq Memory /\ withheld' \subseteq Memory
      BY <1>2, <1>7, <2>1 DEF Written, Granting
    <2>3. \A w \in DOMAIN pte' : pte'[w] \in Nat \cup {Absent}
      BY <1>2, <1>7 DEF Written
    <2>4. pte' = [w \in DOMAIN pte' |-> pte'[w]]
      BY <1>2 DEF MapPage, Blank
    <2> QED BY <1>5, <2>2, <2>3, <2>4
  <1> QED BY <1>1, <1>3, <1>6, <1>7, MapPageEntries

(* What is mapped stays mapped, to the same frame. *)
LEMMA MapPageKeeps ==
  ASSUME PagingTypeOK, TablesBelow, NEW d \in Dirs, NEW v \in Pages, NEW want \in Nat \cup {Any},
         MapPage(d, v, want), UNCHANGED ram
  PROVE  /\ \A e \in Dirs, u \in Pages : Mapped(e, u) =>
              Mapped(e, u)' /\ pte'[Entry(e, u)'] = pte[Entry(e, u)]
         /\ Mapped(d, v)'
         /\ Entry(d, v)' = Slot(d, v)
         /\ \A e \in Dirs, u \in Pages : Table(e, u) # NoTable => Table(e, u)' = Table(e, u)
         /\ Free' \subseteq Free
  <1> DEFINE t == Target(d, v)
             I == v \div Entries
  <1>1. /\ I \in 0 .. DirSize - 1 /\ t \in Nat \ {NoTable}
        /\ ref_tables' = [ref_tables EXCEPT ![d][I] = t]
        /\ ref_tables \in [Dirs -> [0 .. DirSize - 1 -> Nat]]
    BY MapPageTables, SlotOfPage DEF Pages, PagingTypeOK
  <1>2. Table(d, v)' = t /\ Entry(d, v)' = Slot(d, v)
    BY <1>1 DEF Table, Entry, Slot
  <1>3. ASSUME NEW e \in Dirs, NEW u \in Pages, Table(e, u) # NoTable
        PROVE  Table(e, u)' = Table(e, u)
    <2>1. u \div Entries \in 0 .. DirSize - 1
      BY SlotOfPage DEF Pages
    <2> QED BY <1>1, <1>3, <2>1 DEF Table, Target
  <1>4. ASSUME NEW e \in Dirs, NEW u \in Pages, Mapped(e, u)
        PROVE  Mapped(e, u)' /\ pte'[Entry(e, u)'] = pte[Entry(e, u)]
    <2>1. Table(e, u)' = Table(e, u) /\ Table(e, u) # NoTable /\ Entry(e, u)' = Entry(e, u)
      BY <1>3, <1>4 DEF Mapped, Entry
    <2>2. Entry(e, u) \in DOMAIN pte /\ Present(Entry(e, u))
      <3>1. Entry(e, u) = Slot(e, u) /\ Slot(e, u) \in DOMAIN pte
        BY <2>1, TargetWords
      <3> QED BY <1>4, <3>1 DEF Mapped, Present
    <2>3. Kept(Entry(e, u))
      BY <2>2, MapPageEntries
    <2> QED BY <1>4, <2>1, <2>3 DEF Kept, Mapped
  <1>5. Mapped(d, v)'
    <2>1. CASE Mapped(d, v)
      BY <1>4, <2>1
    <2>2. ASSUME NEW f \in Nat, Written(d, v, want, f) PROVE Mapped(d, v)'
      BY <1>1, <1>2, <2>2 DEF Mapped, Written, Absent
    <2> QED BY <2>1, <2>2, MapPageEntries
  <1>6. Free' \subseteq Free
    <2>1. Scanned' = Scanned
      BY DEF Scanned
    <2>2. granted \subseteq granted' /\ withheld \subseteq withheld'
      BY MapPageEntries DEF Written, Granting
    <2> QED BY <2>1, <2>2 DEF Free
  <1> QED BY <1>2, <1>3, <1>4, <1>5, <1>6

(* Frames: a free block, or one nobody has taken, gets one entry. *)
LEMMA MapPageFrames ==
  ASSUME PagingTypeOK, TablesBelow, NEW d \in Dirs, NEW v \in Pages, NEW want \in Nat \cup {Any},
         MapPage(d, v, want), UNCHANGED ram,
         EveryFrameTaken, NoFrameMappedTwice, want \notin Memory \cap Taken
  PROVE  /\ EveryFrameTaken' /\ NoFrameMappedTwice'
         /\ Taken \subseteq Taken' /\ (want # Any => Taken' \subseteq Taken \cup {want})
  <1>1. Memory' = Memory /\ LastFrame \notin Memory
    BY BlocksOfMemory DEF Memory
  <1>2. DOMAIN pte \subseteq DOMAIN pte'
    BY MapPageEntries
  <1>3. CASE UNCHANGED <<pte, spoiled, granted, withheld>>
    BY <1>1, <1>3 DEF EveryFrameTaken, NoFrameMappedTwice, Taken
  <1>4. ASSUME NEW f \in Nat, Written(d, v, want, f)
        PROVE  /\ EveryFrameTaken' /\ NoFrameMappedTwice'
               /\ Taken \subseteq Taken' /\ (want # Any => Taken' \subseteq Taken \cup {want})
    <2>1. f \in Memory => f \notin Taken
      BY <1>1, <1>4 DEF Written, Allocated, Free, Taken
    <2>2. Taken' = Taken \cup ({f} \cap Memory)
      BY <1>4 DEF Written, Granting, Taken
    <2>3. want # Any => f = want
      BY <1>4 DEF Written
    <2>4. \A w \in DOMAIN pte' \ {Slot(d, v)} :
            pte'[w] \in Memory => w \in DOMAIN pte /\ pte'[w] = pte[w] /\ pte'[w] \in Taken
      <3>1. Absent \notin Memory
        BY DEF Absent, Memory
      <3> QED BY <1>4, <3>1 DEF Written, EveryFrameTaken
    <2>5. pte'[Slot(d, v)] = f
      BY <1>4 DEF Written
    <2>6. EveryFrameTaken'
      BY <1>1, <2>2, <2>4, <2>5 DEF EveryFrameTaken
    <2>7. NoFrameMappedTwice'
      BY <1>1, <2>1, <2>4, <2>5 DEF NoFrameMappedTwice
    <2> QED BY <2>2, <2>3, <2>6, <2>7
  <1> QED BY <1>3, <1>4, MapPageEntries

(* Tables: while there is no process the kernel's directory grows, then    *)
(* the directory of the last process does.                                 *)
LEMMA MapPageShares ==
  ASSUME PagingTypeOK, TablesBelow, NEW v \in Pages, NEW want \in Nat \cup {Any},
         MapPage(nprocs, v, want), UNCHANGED <<ram, nprocs>>,
         OnlyTheKernelIsShared, ref_tables[kpage_dir][0] = NoTable,
         \A p \in Processes, i \in 0 .. DirSize - 1 : p > nprocs => ref_tables[p][i] = NoTable,
         nprocs = 0 => v >= Entries
  PROVE  /\ OnlyTheKernelIsShared' /\ ref_tables'[kpage_dir][0] = NoTable
         /\ \A p \in Processes, i \in 0 .. DirSize - 1 : p > nprocs => ref_tables'[p][i] = NoTable
  <1> DEFINE d == nprocs
             t == Target(d, v)
             I == v \div Entries
  <1>1. /\ I \in 0 .. DirSize - 1 /\ (v >= Entries => I # 0)
        /\ d \in Nat /\ d \in Dirs /\ \A p \in 1 .. d : p \in Dirs /\ p \in Nat
        /\ \A p \in Dirs : p \in Nat
    BY SlotOfPage, Sizes DEF Pages, PagingTypeOK, Dirs, Processes, kpage_dir
  <1>2. /\ t \in Nat \ {NoTable}
        /\ ref_tables' = [ref_tables EXCEPT ![d][I] = t]
        /\ ref_tables \in [Dirs -> [0 .. DirSize - 1 -> Nat]]
        /\ Table(d, v) = ref_tables[d][I]
        /\ ref_tables[d][I] = NoTable => t > tmp_heap
        /\ ref_tables[d][I] # NoTable => t = ref_tables[d][I]
    BY <1>1, MapPageTables DEF PagingTypeOK, Table, Target
  <1>3. CASE ref_tables[d][I] # NoTable
    <2>1. ref_tables' = ref_tables
      BY <1>1, <1>2, <1>3
    <2> QED BY <1>3, <2>1 DEF OnlyTheKernelIsShared, Filled
  <1>4. CASE ref_tables[d][I] = NoTable
    <2>1. /\ ref_tables'[d][I] = t
          /\ \A e \in Dirs, i \in 0 .. DirSize - 1 :
               (e = d /\ i = I) \/ ref_tables'[e][i] = ref_tables[e][i]
      BY <1>1, <1>2
    <2>2. \A e \in Dirs, i \in 0 .. DirSize - 1 : ref_tables[e][i] # t
      BY <1>2, <1>4 DEF TablesBelow, PagingTypeOK
    <2>3. \A e \in Dirs : \A i : i \in Filled(e)' <=>
             i \in Filled(e) \/ (e = d /\ i = I)
      BY <1>1, <1>2, <1>4, <2>1 DEF Filled
    <2>4. ASSUME NEW p \in 1 .. nprocs, NEW i \in Filled(kpage_dir)'
          PROVE  ref_tables'[p][i] = ref_tables'[kpage_dir][i]
      <3>1. d # kpage_dir /\ i \in Filled(kpage_dir) /\ p \in Dirs /\ i \in 0 .. DirSize - 1
        BY <1>1, <2>3, <2>4 DEF kpage_dir, Filled, Dirs
      <3>2. ref_tables[p][i] = ref_tables[kpage_dir][i] /\ ref_tables[kpage_dir][i] # NoTable
        BY <3>1 DEF OnlyTheKernelIsShared, Filled
      <3>3. ~(p = d /\ i = I)
        BY <1>4, <3>2
      <3> QED BY <2>1, <3>1, <3>2, <3>3 DEF Dirs
    <2>5. ASSUME NEW a \in Dirs, NEW b \in Dirs, NEW i \in Filled(a)', NEW j \in Filled(b)',
                 ref_tables'[a][i] = ref_tables'[b][j]
          PROVE  i = j /\ (a = b \/ ref_tables'[kpage_dir][i] = ref_tables'[a][i])
      <3>1. i \in 0 .. DirSize - 1 /\ j \in 0 .. DirSize - 1 /\ kpage_dir \in Dirs
        BY <2>5 DEF Filled, Dirs
      <3>2. CASE (a = d /\ i = I) \/ (b = d /\ j = I)
        <4>1. a = d /\ i = I /\ b = d /\ j = I
          BY <2>1, <2>2, <2>5, <3>1, <3>2
        <4> QED BY <4>1
      <3>3. CASE ~(a = d /\ i = I) /\ ~(b = d /\ j = I)
        <4>1. i \in Filled(a) /\ j \in Filled(b) /\ ref_tables[a][i] = ref_tables[b][j]
          BY <2>1, <2>3, <2>5, <3>1, <3>3
        <4>2. i = j /\ (a = b \/ ref_tables[kpage_dir][i] = ref_tables[a][i])
          BY <4>1 DEF OnlyTheKernelIsShared
        <4>3. ref_tables[a][i] # NoTable
          BY <4>1 DEF Filled
        <4>4. ~(kpage_dir = d /\ i = I) \/ ref_tables[kpage_dir][i] = NoTable
          BY <1>4
        <4> QED BY <2>1, <3>1, <3>3, <4>2, <4>3, <4>4
      <3> QED BY <3>2, <3>3
    <2>6. OnlyTheKernelIsShared'
      BY <2>4, <2>5 DEF OnlyTheKernelIsShared
    <2>7. ref_tables'[kpage_dir][0] = NoTable
      <3>1. kpage_dir \in Dirs /\ 0 \in 0 .. DirSize - 1
        BY Sizes DEF Dirs
      <3> QED BY <1>1, <2>1, <3>1 DEF kpage_dir
    <2>8. \A p \in Processes, i \in 0 .. DirSize - 1 : p > nprocs => ref_tables'[p][i] = NoTable
      BY <1>1, <2>1 DEF Dirs, Processes
    <2> QED BY <2>6, <2>7, <2>8
  <1> QED BY <1>3, <1>4

(* Code: the first table of a process is in no other directory. *)
LEMMA FirstTableIsPrivate ==
  ASSUME PagingTypeOK, OnlyTheKernelIsShared, ref_tables[kpage_dir][0] = NoTable,
         NEW p \in 1 .. nprocs, NEW q \in 1 .. nprocs, p # q,
         NEW i \in 0 .. DirSize - 1, ref_tables[p][0] # NoTable
  PROVE  ref_tables[q][i] # ref_tables[p][0]
  <1>1. p \in Dirs /\ q \in Dirs /\ 0 \in 0 .. DirSize - 1
    BY Sizes DEF PagingTypeOK, Dirs, Processes
  <1>2. SUFFICES ASSUME ref_tables[p][0] = ref_tables[q][i] PROVE FALSE
    OBVIOUS
  <1>3. 0 \in Filled(p) /\ i \in Filled(q)
    BY <1>1, <1>2 DEF Filled
  <1>4. ref_tables[kpage_dir][0] = ref_tables[p][0]
    BY <1>1, <1>2, <1>3 DEF OnlyTheKernelIsShared
  <1> QED BY <1>4

LEMMA FirstPage ==
  /\ 0 \in Pages /\ 0 \div Entries = 0 /\ 0 % Entries = 0
  /\ \A d : Table(d, 0) = ref_tables[d][0]
  <1>1. 0 \in Pages
    BY Sizes, SMTT(30) DEF Pages
  <1>2. 0 \div Entries = 0 /\ 0 % Entries = 0
    BY Sizes
  <1> QED BY <1>1, <1>2 DEF Table

LEMMA EntryOfOneTable ==
  ASSUME PagingTypeOK, NEW d \in Dirs, NEW u \in Pages, NEW e \in Dirs, NEW v \in Pages,
         Entry(d, u) = Entry(e, v)
  PROVE  Table(d, u) = Table(e, v)
  <1>1. /\ u \div Entries \in 0 .. DirSize - 1 /\ u % Entries \in 0 .. Entries - 1
        /\ v \div Entries \in 0 .. DirSize - 1 /\ v % Entries \in 0 .. Entries - 1
    BY SlotOfPage DEF Pages
  <1>2. Table(d, u) \in Nat /\ Table(e, v) \in Nat
    BY <1>1 DEF PagingTypeOK, Table
  <1> QED BY <1>1, <1>2, WordsAreApart DEF Entry

EarlierProcess(p) == p \in 1 .. nprocs /\ p < nprocs
CodeOf(p)         == pte[Entry(p, 0)] \in Memory => content[pte[Entry(p, 0)]] = p

LEMMA MapPageCode ==
  ASSUME PagingTypeOK, TablesBelow, NEW v \in Pages, NEW want \in Nat \cup {Any},
         MapPage(nprocs, v, want), UNCHANGED <<ram, nprocs, content>>,
         OnlyTheKernelIsShared, ref_tables[kpage_dir][0] = NoTable,
         NEW p, EarlierProcess(p), ref_tables[p][0] # NoTable, CodeOf(p)
  PROVE  EarlierProcess(p)' /\ ref_tables'[p][0] # NoTable /\ CodeOf(p)'
  <1> DEFINE d == nprocs
             w == Entry(p, 0)
  <1>1. /\ p \in 1 .. nprocs /\ p \in Dirs /\ d \in Dirs /\ p # d /\ d \in 1 .. nprocs
        /\ EarlierProcess(p)' /\ Memory' = Memory
    <2>1. p \in 1 .. nprocs /\ p < nprocs /\ nprocs \in 0 .. MaxProcesses
      BY DEF EarlierProcess, PagingTypeOK
    <2>2. p \in 1 .. MaxProcesses /\ nprocs \in 1 .. MaxProcesses /\ nprocs \in 1 .. nprocs
      BY Sizes, <2>1
    <2>3. EarlierProcess(p)' /\ Memory' = Memory
      BY <2>1 DEF EarlierProcess, Memory
    <2> QED BY <2>1, <2>2, <2>3 DEF Dirs, Processes
  <1>2. Table(p, 0)' = Table(p, 0) /\ Table(p, 0) # NoTable
    BY <1>1, FirstPage, MapPageKeeps
  <1>3. Entry(p, 0)' = w
    BY <1>2 DEF Entry
  <1>4. w \in DOMAIN pte
    BY <1>1, <1>2, FirstPage, TargetWords
  <1>5. w # Slot(d, v)
    <2>1. CASE Table(d, v) = NoTable
      BY <1>1, <1>4, <2>1, TargetWords
    <2>2. CASE Table(d, v) # NoTable
      <3>1. v \div Entries \in 0 .. DirSize - 1 /\ v % Entries \in 0 .. Entries - 1
        BY SlotOfPage DEF Pages
      <3>2. Table(d, v) # Table(p, 0)
        BY <1>1, <3>1, FirstPage, FirstTableIsPrivate DEF Table
      <3>3. Slot(d, v) = Entry(d, v)
        BY <2>2 DEF Slot, Target, Entry
      <3> QED BY <1>1, <3>2, <3>3, FirstPage, EntryOfOneTable
    <2> QED BY <2>1, <2>2
  <1>6. pte'[w] = pte[w] \/ pte'[w] = Absent
    <2>1. w \in DOMAIN pte'
      BY <1>1, <1>4, MapPageEntries
    <2>2. UNCHANGED pte \/ \E f \in Nat : Written(d, v, want, f)
      BY <1>1, MapPageEntries
    <2> QED BY <1>5, <2>1, <2>2 DEF Written
  <1>7. Absent \notin Memory
    BY DEF Absent, Memory
  <1>8. CodeOf(p)'
    BY <1>1, <1>3, <1>6, <1>7 DEF CodeOf
  <1>9. ref_tables'[p][0] = Table(p, 0)'
    BY FirstPage DEF Table
  <1> QED BY <1>1, <1>2, <1>8, <1>9

-----------------------------------------------------------------------------
(* The steps. *)

(* What every call of map_virtual_address leaves as it was. *)
LEMMA MapPageInv ==
  ASSUME PagingInv, NEW v \in Pages, NEW want \in Nat \cup {Any}, MapPage(nprocs, v, want),
         UNCHANGED <<machine, content, nprocs, length>>,
         nprocs = 0 => v >= Entries, want \notin Memory \cap Taken
  PROVE  /\ (heap_start' \in Nat /\ at' \in Nat /\ phase' \in Booting \cup
               {"idle", "text", "stack", "load", "faulted"}) => PagingTypeOK'
         /\ TablesBelow' /\ OnlyTheKernelIsShared' /\ ref_tables'[kpage_dir][0] = NoTable
         /\ \A p \in Processes, i \in 0 .. DirSize - 1 : p > nprocs => ref_tables'[p][i] = NoTable
         /\ EveryFrameTaken' /\ NoFrameMappedTwice'
         /\ \A p : EarlierProcess(p) =>
              EarlierProcess(p)' /\ ref_tables'[p][0] # NoTable /\ CodeOf(p)'
  <1>1. /\ PagingTypeOK /\ TablesBelow /\ nprocs \in Dirs /\ UNCHANGED ram
        /\ OnlyTheKernelIsShared /\ ref_tables[kpage_dir][0] = NoTable
        /\ \A p \in Processes, i \in 0 .. DirSize - 1 : p > nprocs => ref_tables[p][i] = NoTable
        /\ EveryFrameTaken /\ NoFrameMappedTwice
    <2>1. nprocs \in Dirs
      BY DEF PagingInv, PagingTypeOK, Dirs, Processes, kpage_dir
    <2> QED BY <2>1 DEF PagingInv, TablesSoFar, FramesAreTaken, machine
  <1>2. /\ ref_tables' \in [Dirs -> [0 .. DirSize - 1 -> Nat]]
        /\ pte' \in [EntryWords' -> Nat \cup {Absent}]
        /\ spoiled' \subseteq Nat
        /\ tmp_heap' \in Nat /\ logged' \in BOOLEAN
        /\ granted' \subseteq Memory /\ withheld' \subseteq Memory
        /\ TablesBelow'
    BY <1>1, MapPageTypes
  <1>3. Memory' = Memory
    BY <1>1 DEF Memory
  <1>4. ASSUME heap_start' \in Nat, at' \in Nat,
               phase' \in Booting \cup {"idle", "text", "stack", "load", "faulted"}
        PROVE  PagingTypeOK'
    <2>1. /\ ram \in RamSizes /\ lfb \in Lfbs /\ content \in [Memory -> Dirs]
          /\ nprocs \in 0 .. MaxProcesses /\ length \in CodeLengths \cup {0}
      BY <1>1 DEF PagingTypeOK
    <2> QED BY <1>2, <1>3, <1>4, <2>1 DEF PagingTypeOK, EntryWords, Booting, machine
  <1>5. /\ OnlyTheKernelIsShared' /\ ref_tables'[kpage_dir][0] = NoTable
        /\ \A p \in Processes, i \in 0 .. DirSize - 1 : p > nprocs => ref_tables'[p][i] = NoTable
    BY <1>1, MapPageShares
  <1>6. EveryFrameTaken' /\ NoFrameMappedTwice'
    BY <1>1, MapPageFrames
  <1>7. ASSUME NEW p, EarlierProcess(p)
        PROVE  EarlierProcess(p)' /\ ref_tables'[p][0] # NoTable /\ CodeOf(p)'
    <2>1. ref_tables[p][0] # NoTable /\ CodeOf(p)
      BY <1>7 DEF PagingInv, TablesSoFar, CodeStays, CodeOf, EarlierProcess
    <2> QED BY <1>1, <1>7, <2>1, MapPageCode
  <1> QED BY <1>2, <1>4, <1>5, <1>6, <1>7

LEMMA InitInv == PagingInit => PagingInv
  <1> SUFFICES ASSUME PagingInit PROVE PagingInv
    OBVIOUS
  <1>1. /\ ram \in RamSizes /\ lfb \in Lfbs /\ ram \in Nat
        /\ tmp_heap_0 \in Nat /\ tmp_heap = tmp_heap_0 + 2
    <2>1. ram \in RamSizes /\ lfb \in Lfbs /\ ram \in Nat /\ tmp_heap = tmp_heap_0 + 2
      BY PagingAssumption DEF PagingInit
    <2> QED BY <2>1, BehindBitmapType DEF tmp_heap_0
  <1>2. /\ ref_tables = [d \in Dirs |-> [i \in 0 .. DirSize - 1 |-> NoTable]]
        /\ pte = [w \in {} |-> Absent] /\ spoiled = {} /\ granted = {} /\ withheld = {}
        /\ logged \in BOOLEAN /\ content = [f \in Memory |-> kpage_dir]
        /\ heap_start = 0 /\ phase = "identity" /\ at = 0 /\ nprocs = 0 /\ length = 0
    BY DEF PagingInit
  <1>3. \A d \in Dirs : Filled(d) = {}
    BY <1>2 DEF Filled
  <1>4. InUse = {}
    BY <1>3 DEF InUse
  <1>5. PagingTypeOK
    <2>1. ref_tables \in [Dirs -> [0 .. DirSize - 1 -> Nat]] /\ content \in [Memory -> Dirs]
      BY <1>2 DEF NoTable, kpage_dir, Dirs
    <2>2. pte \in [UNION {Words(t) : t \in InUse} -> Nat \cup {Absent}]
      BY <1>2, <1>4
    <2> QED BY <1>1, <1>2, <2>1, <2>2, Sizes DEF PagingTypeOK
  <1>6. TablesSoFar
    <2>1. kpage_dir \in Dirs /\ 0 \in 0 .. DirSize - 1
      BY Sizes DEF Dirs
    <2> QED BY <1>1, <1>2, <2>1 DEF TablesSoFar, TablesBelow, Dirs, NoTable
  <1>7. OnlyTheKernelIsShared
    BY <1>2, <1>3 DEF OnlyTheKernelIsShared
  <1>8. WhereItIs /\ FramesAreTaken /\ NoFrameMappedTwice /\ FilledFromMemory /\ HeapSoFar /\ CodeStays
    BY <1>2, Sizes DEF WhereItIs, FramesAreTaken, EveryFrameTaken, Taken, NoFrameMappedTwice,
                       FilledFromMemory, HeapSoFar, CodeStays
  <1> QED BY <1>5, <1>6, <1>7, <1>8 DEF PagingInv

(* Behind the identity map every kernel page lies in the address space.    *)
LEMMA KernelPages ==
  ASSUME PagingTypeOK, NEW n \in Nat
  PROVE  /\ n < KernelMap => BASE + n \in Pages /\ BASE + n >= Entries
         /\ heap_start = HeapStart /\ n < HeapPages =>
              BASE + heap_start + n \in Pages /\ BASE + heap_start + n >= Entries
         /\ n < lfb.length => /\ lfb.base + n \in Pages /\ lfb.base + n >= Entries
                              /\ lfb.base + n \in Nat \ Memory
  <1>1. /\ BASE + KernelMap <= DirSize * Entries /\ Entries <= BASE /\ Entries <= KernelMap
        /\ ram \in RamSizes /\ lfb \in Lfbs /\ DirSize * Entries \in Nat
    BY Sizes, AddressSpaceAssumption DEF PagingTypeOK
  <1>2. /\ lfb.base \in Nat /\ lfb.length \in Nat /\ lfb.base + lfb.length <= DirSize * Entries
        /\ ram \in Nat /\ ram <= lfb.base /\ KernelMap <= ram
    BY <1>1, PagingAssumption, AddressSpaceAssumption
  <1>3. BASE + BehindBitmap(ram) + TmpPages + 1 + HeapPages <= DirSize * Entries
    BY <1>1, AddressSpaceAssumption
  <1>4. BehindBitmap(ram) \in Nat
    BY <1>2, BehindBitmapType
  <1>5. HeapStart = BehindBitmap(ram) + TmpPages + 1
    BY DEF HeapStart, tmp_heap_end, tmp_heap_0
  <1>6. n < KernelMap => BASE + n \in Pages /\ BASE + n >= Entries
    BY <1>1, Sizes DEF Pages
  <1>7. heap_start = HeapStart /\ n < HeapPages =>
          BASE + heap_start + n \in Pages /\ BASE + heap_start + n >= Entries
    BY <1>1, <1>3, <1>4, <1>5, Sizes DEF Pages
  <1>8. n < lfb.length => /\ lfb.base + n \in Pages /\ lfb.base + n >= Entries
                          /\ lfb.base + n \in Nat \ Memory
    BY <1>1, <1>2, Sizes DEF Pages, Memory
  <1> QED BY <1>6, <1>7, <1>8

LEMMA MapIdentityInv == PagingInv /\ MapIdentity => PagingInv'
  <1> SUFFICES ASSUME PagingInv, MapIdentity PROVE PagingInv'
    OBVIOUS
  <1>1. /\ phase = "identity" /\ nprocs = 0 /\ at \in Nat /\ at < KernelMap
        /\ MapPage(nprocs, BASE + at, at) /\ Advance(KernelMap, "heap_init")
        /\ UNCHANGED <<machine, content, heap_start, nprocs, length>> /\ UNCHANGED ram
        /\ PagingTypeOK /\ TablesBelow /\ 0 \in Dirs
    BY DEF MapIdentity, PagingInv, WhereItIs, PagingTypeOK, TablesSoFar, Booting, kpage_dir, machine,
           Dirs
  <1>2. BASE + at \in Pages /\ BASE + at >= Entries /\ at \in Memory /\ at \in Nat \cup {Any}
    <2>1. KernelMap <= ram /\ ram \in Nat
      BY <1>1, PagingAssumption DEF PagingTypeOK
    <2> QED BY <1>1, <2>1, KernelPages, Sizes DEF Memory
  <1>3. at \notin Memory \cap Taken
    BY <1>1 DEF PagingInv, FramesAreTaken
  <1>4. \/ phase' = "identity" /\ at' = at + 1 /\ at' < KernelMap
        \/ phase' = "heap_init" /\ at' = 0
    BY <1>1, Sizes DEF Advance
  <1>5. /\ PagingTypeOK' /\ TablesBelow' /\ OnlyTheKernelIsShared' /\ ref_tables'[kpage_dir][0] = NoTable
        /\ \A p \in Processes, i \in 0 .. DirSize - 1 : p > nprocs => ref_tables'[p][i] = NoTable
        /\ EveryFrameTaken' /\ NoFrameMappedTwice'
    <2>1. at' \in Nat /\ heap_start' \in Nat
      BY <1>1, <1>4 DEF PagingTypeOK
    <2> QED BY <1>1, <1>2, <1>3, <1>4, <2>1, MapPageInv DEF Booting
  <1>6. FramesAreTaken'
    <2>1. Taken' \subseteq Taken \cup {at}
      BY <1>1, <1>2, <1>3, MapPageFrames DEF PagingInv, FramesAreTaken, Any
    <2>2. \A f \in Taken : f \in Nat /\ f < at
      BY <1>1 DEF PagingInv, FramesAreTaken, Taken, PagingTypeOK, Memory
    <2>3. phase' = "identity" => \A f \in Taken' : f < at'
      BY <1>1, <1>4, <2>1, <2>2
    <2> QED BY <1>5, <2>3 DEF FramesAreTaken
  <1>7. FilledFromMemory'
    <2>1. Free' \subseteq Free /\ Memory' = Memory
      BY <1>1, <1>2, MapPageKeeps DEF Memory
    <2>2. SUFFICES ASSUME Free' # {}
                   PROVE  spoiled' = {} /\ \A w \in DOMAIN pte' : pte'[w] \in Memory \cup {Absent}
      BY <2>1 DEF FilledFromMemory
    <2>3. spoiled = {} /\ \A w \in DOMAIN pte : pte[w] \in Memory \cup {Absent}
      BY <1>1, <2>1, <2>2 DEF PagingInv, FilledFromMemory, Filling
    <2>4. CASE UNCHANGED <<pte, spoiled>>
      BY <2>3, <2>4
    <2>5. ASSUME NEW f \in Nat, Written(0, BASE + at, at, f)
          PROVE  spoiled' = {} /\ \A w \in DOMAIN pte' : pte'[w] \in Memory \cup {Absent}
      <3>1. f = at /\ Hit(f) = {}
        BY <1>1, <1>2, <2>5, BlocksOfMemory DEF Written, Any
      <3> QED BY <1>2, <2>3, <2>5, <3>1 DEF Written
    <2> QED BY <1>1, <1>2, <2>4, <2>5, MapPageEntries
  <1>8. WhereItIs' /\ HeapSoFar' /\ CodeStays'
    BY <1>1, <1>4 DEF WhereItIs, HeapSoFar, CodeStays, Booting
  <1>9. TablesSoFar'
    BY <1>1, <1>5 DEF TablesSoFar
  <1> QED BY <1>5, <1>6, <1>7, <1>8, <1>9 DEF PagingInv

(* Steps that leave memory and tables alone. *)
LEMMA TablesUnchanged ==
  ASSUME PagingInv, UNCHANGED <<machine, tables, nprocs>>
  PROVE  /\ TablesBelow' /\ OnlyTheKernelIsShared' /\ ref_tables'[kpage_dir][0] = NoTable
         /\ \A p \in Processes, i \in 0 .. DirSize - 1 : p > nprocs' => ref_tables'[p][i] = NoTable
         /\ EveryFrameTaken' /\ NoFrameMappedTwice' /\ Taken' = Taken
         /\ \A d, v : Mapped(d, v)' = Mapped(d, v) /\ Entry(d, v)' = Entry(d, v)
         /\ Free' = Free /\ Memory' = Memory
  <1>1. /\ UNCHANGED <<ram, lfb, ref_tables, pte, spoiled, tmp_heap, logged, granted, withheld, nprocs>>
        /\ TablesBelow /\ OnlyTheKernelIsShared /\ ref_tables[kpage_dir][0] = NoTable
        /\ \A p \in Processes, i \in 0 .. DirSize - 1 : p > nprocs => ref_tables[p][i] = NoTable
        /\ EveryFrameTaken /\ NoFrameMappedTwice
    BY DEF PagingInv, TablesSoFar, FramesAreTaken, machine, tables
  <1>2. TablesBelow' /\ OnlyTheKernelIsShared'
    BY <1>1 DEF TablesBelow, OnlyTheKernelIsShared, Filled
  <1>3. EveryFrameTaken' /\ NoFrameMappedTwice' /\ Taken' = Taken /\ Memory' = Memory /\ Free' = Free
    BY <1>1 DEF EveryFrameTaken, NoFrameMappedTwice, Taken, Memory, Free, Scanned
  <1>4. \A d, v : Mapped(d, v)' = Mapped(d, v) /\ Entry(d, v)' = Entry(d, v)
    BY <1>1 DEF Mapped, Entry, Table
  <1> QED BY <1>1, <1>2, <1>3, <1>4

LEMMA PlaceHeapInv == PagingInv /\ PlaceHeap => PagingInv'
  <1> SUFFICES ASSUME PagingInv, PlaceHeap PROVE PagingInv'
    OBVIOUS
  <1>1. /\ phase = "heap_init" /\ phase' = "heap" /\ at = 0 /\ nprocs = 0 /\ heap_start' = HeapStart
        /\ UNCHANGED <<machine, tables, content, at, nprocs, length>>
        /\ UNCHANGED <<ram, lfb, ref_tables, pte, spoiled, tmp_heap, logged, granted, withheld>>
        /\ PagingTypeOK
    BY DEF PlaceHeap, PagingInv, WhereItIs, Booting, machine, tables
  <1>2. HeapStart' = HeapStart /\ HeapStart \in Nat
    <2>1. HeapStart' = HeapStart
      BY <1>1 DEF HeapStart, tmp_heap_end, tmp_heap_0
    <2>2. ram \in Nat
      BY <1>1, PagingAssumption DEF PagingTypeOK
    <2>3. BehindBitmap(ram) \in Nat
      BY <2>2, BehindBitmapType
    <2> QED BY <2>1, <2>3, Sizes DEF HeapStart, tmp_heap_end, tmp_heap_0
  <1>3. PagingTypeOK'
    BY <1>1, <1>2 DEF PagingTypeOK, InUse, Filled, Memory
  <1>4. WhereItIs'
    BY <1>1, <1>2, Sizes DEF WhereItIs, Booting
  <1>5. TablesSoFar' /\ FramesAreTaken' /\ CodeStays'
    BY <1>1, TablesUnchanged DEF TablesSoFar, FramesAreTaken, CodeStays
  <1>6. FilledFromMemory'
    BY <1>1, TablesUnchanged DEF PagingInv, FilledFromMemory, Filling
  <1>7. HeapSoFar'
    <2>1. ASSUME NEW v \in HeapVirtual', v < BASE + heap_start' + at' PROVE FALSE
      BY <1>1, <1>2, <2>1, Sizes DEF HeapVirtual
    <2> QED BY <1>1, <2>1 DEF HeapSoFar
  <1> QED BY <1>1, <1>3, <1>4, <1>5, <1>6, <1>7, TablesUnchanged DEF PagingInv

(* A heap page once seen to is backed for good. *)
Backed(v) == Mapped(kpage_dir, v) /\ (pte[Entry(kpage_dir, v)] \in Memory \/ Free = {})

LEMMA BackedStays ==
  ASSUME PagingTypeOK, TablesBelow, NEW d \in Dirs, NEW v \in Pages, NEW want \in Nat \cup {Any},
         MapPage(d, v, want), UNCHANGED ram, NEW u \in Pages, Backed(u)
  PROVE  Backed(u)'
  <1>1. kpage_dir \in Dirs /\ Memory' = Memory
    BY DEF Dirs, Memory
  <1> QED BY <1>1, MapPageKeeps DEF Backed

LEMMA HeapIsInPages ==
  ASSUME PagingTypeOK, heap_start = HeapStart
  PROVE  HeapVirtual \subseteq Pages
  <1> SUFFICES ASSUME NEW v \in HeapVirtual PROVE v \in Pages
    OBVIOUS
  <1>1. heap_start \in Nat
    BY DEF PagingTypeOK
  <1>2. v - (BASE + heap_start) \in Nat /\ v - (BASE + heap_start) < HeapPages
        /\ v = BASE + heap_start + (v - (BASE + heap_start))
    BY <1>1, Sizes DEF HeapVirtual
  <1> QED BY <1>2, KernelPages

LEMMA MapHeapInv == PagingInv /\ MapHeap => PagingInv'
  <1> SUFFICES ASSUME PagingInv, MapHeap PROVE PagingInv'
    OBVIOUS
  <1>0. PICK v : v = BASE + heap_start + at
    OBVIOUS
  <1>1. /\ phase = "heap" /\ nprocs = 0 /\ at \in Nat /\ at < HeapPages /\ heap_start = HeapStart
        /\ heap_start \in Nat
        /\ MapPage(nprocs, v, Any) /\ MapPage(0, v, Any) /\ Advance(HeapPages, "lfb")
        /\ UNCHANGED <<machine, content, heap_start, nprocs, length>> /\ UNCHANGED <<ram, lfb>>
        /\ PagingTypeOK /\ TablesBelow /\ 0 \in Dirs /\ kpage_dir = 0 /\ Any \in Nat \cup {Any}
    BY <1>0 DEF MapHeap, PagingInv, WhereItIs, PagingTypeOK, TablesSoFar, Booting, kpage_dir, machine,
           Dirs
  <1>2. v \in Pages /\ v >= Entries /\ Any \notin Memory \cap Taken /\ Memory' = Memory
    BY <1>0, <1>1, KernelPages DEF Any, Memory
  <1>3. \/ phase' = "heap" /\ at' = at + 1 /\ at' < HeapPages
        \/ phase' = "lfb" /\ at' = 0 /\ at + 1 >= HeapPages
    BY <1>1, Sizes DEF Advance
  <1>4. /\ PagingTypeOK' /\ TablesBelow' /\ OnlyTheKernelIsShared' /\ ref_tables'[kpage_dir][0] = NoTable
        /\ \A p \in Processes, i \in 0 .. DirSize - 1 : p > nprocs => ref_tables'[p][i] = NoTable
        /\ EveryFrameTaken' /\ NoFrameMappedTwice'
    <2>1. at' \in Nat /\ heap_start' \in Nat
      BY <1>1, <1>3
    <2> QED BY <1>1, <1>2, <1>3, <2>1, MapPageInv DEF Booting
  <1>5. HeapStart' = HeapStart
    BY <1>1 DEF HeapStart, tmp_heap_end, tmp_heap_0
  <1>6. WhereItIs'
    <2>1. lfb.length \in Nat /\ 0 < lfb.length
      BY <1>1, PagingAssumption DEF PagingTypeOK
    <2> QED BY <1>1, <1>3, <1>5, <2>1 DEF WhereItIs, Booting
  <1>7. Free' \subseteq Free
    BY <1>1, <1>2, MapPageKeeps
  <1>8. FilledFromMemory'
    <2>1. SUFFICES ASSUME Free' # {}
                   PROVE  spoiled' = {} /\ \A w \in DOMAIN pte' : pte'[w] \in Memory \cup {Absent}
      BY <1>2 DEF FilledFromMemory
    <2>2. Free # {} /\ spoiled = {} /\ \A w \in DOMAIN pte : pte[w] \in Memory \cup {Absent}
      BY <1>1, <1>7, <2>1 DEF PagingInv, FilledFromMemory, Filling
    <2>3. CASE UNCHANGED <<pte, spoiled>>
      BY <2>2, <2>3
    <2>4. ASSUME NEW f \in Nat, Written(0, v, Any, f)
          PROVE  spoiled' = {} /\ \A w \in DOMAIN pte' : pte'[w] \in Memory \cup {Absent}
      <3>1. f \in Free
        BY <2>2, <2>4 DEF Written, Allocated
      <3>2. f \in Memory /\ Hit(f) = {}
        BY <1>1, <3>1, BlocksOfMemory DEF PagingInv
      <3> QED BY <2>2, <2>4, <3>2 DEF Written
    <2> QED BY <1>1, <1>2, <2>3, <2>4, MapPageEntries
  <1>9. Backed(v)'
    <2>1. Mapped(0, v)' /\ Entry(0, v)' = Slot(0, v)
      BY <1>1, <1>2, MapPageKeeps
    <2>2. ASSUME Free # {}, Mapped(0, v) PROVE pte[Entry(0, v)] \in Memory
      <3>1. spoiled = {} /\ \A w \in DOMAIN pte : pte[w] \in Memory \cup {Absent}
        BY <1>1, <2>2 DEF PagingInv, FilledFromMemory, Filling
      <3>2. Entry(0, v) \in DOMAIN pte
        BY <1>1, <1>2, <2>2, TargetWords DEF Mapped
      <3> QED BY <2>2, <3>1, <3>2 DEF Mapped
    <2>3. CASE Mapped(0, v)
      BY <1>1, <1>2, <2>2, <2>3, BackedStays DEF Backed
    <2>4. ASSUME NEW f \in Nat, Written(0, v, Any, f) PROVE Backed(v)'
      <3>1. f \in Memory \/ Free = {}
        BY <1>1, <2>4, BlocksOfMemory DEF Written, Allocated
      <3> QED BY <1>1, <1>2, <1>7, <2>1, <2>4, <3>1 DEF Backed, Written
    <2> QED BY <1>1, <1>2, <2>3, <2>4, MapPageEntries
  <1>10. HeapSoFar'
    <2>1. SUFFICES ASSUME NEW u \in HeapVirtual, phase' # "heap" \/ u < BASE + heap_start + at'
                   PROVE  Backed(u)'
      BY <1>1 DEF HeapSoFar, HeapVirtual, Backed
    <2>2. u \in Pages /\ u \in Nat /\ u < BASE + heap_start + HeapPages
      BY <1>1, HeapIsInPages, Sizes DEF HeapVirtual
    <2>3. u = v \/ u < v
      BY <1>0, <1>1, <1>3, <2>1, <2>2, Sizes
    <2>4. CASE u < v
      <3>1. Backed(u)
        BY <1>0, <1>1, <2>4 DEF PagingInv, HeapSoFar, Backed
      <3> QED BY <1>1, <1>2, <2>2, <3>1, BackedStays
    <2> QED BY <1>9, <2>3, <2>4
  <1>11. CodeStays' /\ FramesAreTaken' /\ TablesSoFar'
    BY <1>1, <1>3, <1>4 DEF CodeStays, FramesAreTaken, TablesSoFar
  <1> QED BY <1>4, <1>6, <1>8, <1>10, <1>11 DEF PagingInv

LEMMA MapLfbInv == PagingInv /\ MapLfb => PagingInv'
  <1> SUFFICES ASSUME PagingInv, MapLfb PROVE PagingInv'
    OBVIOUS
  <1> DEFINE v == lfb.base + at
  <1>1. /\ phase = "lfb" /\ nprocs = 0 /\ at \in Nat /\ at < lfb.length /\ heap_start = HeapStart
        /\ heap_start \in Nat
        /\ MapPage(nprocs, v, v) /\ Advance(lfb.length, "idle")
        /\ UNCHANGED <<machine, content, heap_start, nprocs, length>> /\ UNCHANGED <<ram, lfb>>
        /\ PagingTypeOK /\ TablesBelow /\ 0 \in Dirs
    BY DEF MapLfb, PagingInv, WhereItIs, PagingTypeOK, TablesSoFar, Booting, machine, Dirs, kpage_dir
  <1>2. v \in Pages /\ v >= Entries /\ v \in Nat \cup {Any} /\ v \notin Memory \cap Taken
    BY <1>1, KernelPages
  <1>3. lfb.length \in Nat
    BY <1>1, PagingAssumption DEF PagingTypeOK
  <1>4. \/ phase' = "lfb" /\ at' = at + 1 /\ at' < lfb.length
        \/ phase' = "idle" /\ at' = 0
    BY <1>1, <1>3 DEF Advance
  <1>5. /\ PagingTypeOK' /\ TablesBelow' /\ OnlyTheKernelIsShared' /\ ref_tables'[kpage_dir][0] = NoTable
        /\ \A p \in Processes, i \in 0 .. DirSize - 1 : p > nprocs => ref_tables'[p][i] = NoTable
        /\ EveryFrameTaken' /\ NoFrameMappedTwice'
    <2>1. at' \in Nat /\ heap_start' \in Nat
      BY <1>1, <1>4
    <2> QED BY <1>1, <1>2, <1>4, <2>1, MapPageInv DEF Booting
  <1>6. WhereItIs'
    BY <1>1, <1>4 DEF WhereItIs, Booting, HeapStart, tmp_heap_end, tmp_heap_0
  <1>7. HeapSoFar'
    <2>1. SUFFICES ASSUME NEW u \in HeapVirtual PROVE Backed(u)'
      BY <1>1 DEF HeapSoFar, HeapVirtual, Backed
    <2>2. u \in Pages /\ Backed(u)
      BY <1>1, HeapIsInPages DEF PagingInv, HeapSoFar, Backed
    <2> QED BY <1>1, <1>2, <2>2, BackedStays
  <1>8. FilledFromMemory' /\ CodeStays' /\ FramesAreTaken' /\ TablesSoFar'
    BY <1>1, <1>4, <1>5 DEF FilledFromMemory, Filling, CodeStays, FramesAreTaken, TablesSoFar
  <1> QED BY <1>5, <1>6, <1>7, <1>8 DEF PagingInv

LEMMA CreateProcessInv == PagingInv /\ CreateProcess => PagingInv'
  <1> SUFFICES ASSUME PagingInv, CreateProcess PROVE PagingInv'
    OBVIOUS
  <1>0. PICK q : q = nprocs + 1
    OBVIOUS
  <1>1. /\ phase = "idle" /\ phase' = "text" /\ nprocs' = q /\ length' \in CodeLengths
        /\ ref_tables' = [ref_tables EXCEPT ![q] = ref_tables[0]]
        /\ UNCHANGED <<machine, pte, spoiled, tmp_heap, logged, granted, withheld, content, heap_start, at>>
        /\ UNCHANGED <<ram, lfb>>
        /\ PagingTypeOK /\ TablesSoFar /\ kpage_dir = 0 /\ at = 0 /\ heap_start = HeapStart
    BY <1>0 DEF CreateProcess, Linked, PagingInv, WhereItIs, machine, kpage_dir
  <1>2. /\ nprocs \in Nat /\ q \in Processes /\ q \in Dirs /\ 0 \in Dirs /\ q # 0 /\ q = nprocs + 1
        /\ q \in 0 .. MaxProcesses /\ 0 \in 0 .. DirSize - 1
        /\ \A p \in Dirs : p \in Nat
    BY <1>0, <1>1, Sizes DEF CreateProcess, PagingTypeOK, Processes, Dirs, kpage_dir
  <1>2a. ASSUME NEW p \in 1 .. q, p # q
         PROVE  p \in 1 .. nprocs /\ p < q /\ p \in Dirs \ {q}
    <2>1. p \in Nat /\ 1 <= p /\ p <= nprocs /\ nprocs <= MaxProcesses
      BY <1>2, <1>2a, Sizes
    <2>2. p \in 1 .. MaxProcesses /\ p \in 1 .. nprocs /\ p < q
      BY <1>2, <2>1, Sizes
    <2> QED BY <1>2a, <2>2 DEF Dirs, Processes
  <1>3. /\ ref_tables \in [Dirs -> [0 .. DirSize - 1 -> Nat]]
        /\ ref_tables'[q] = ref_tables[0]
        /\ \A e \in Dirs \ {q} : ref_tables'[e] = ref_tables[e]
        /\ \A i \in 0 .. DirSize - 1 : ref_tables[q][i] = NoTable
    BY <1>1, <1>2 DEF PagingTypeOK, TablesSoFar
  <1>4. Filled(q)' = Filled(0) /\ \A e \in Dirs \ {q} : Filled(e)' = Filled(e)
    BY <1>3 DEF Filled
  <1>5. InUse' = InUse
    <2>2. \A x : x \in InUse' <=>
            \E d \in Dirs, i \in 0 .. DirSize - 1 : ref_tables'[d][i] = x /\ x # NoTable
      BY DEF InUse, Filled
    <2>3. \A x : x \in InUse' => x \in InUse
      <3>1. SUFFICES ASSUME NEW x, NEW d \in Dirs, NEW i \in 0 .. DirSize - 1,
                            ref_tables'[d][i] = x, x # NoTable
                     PROVE  x \in InUse
        BY <2>2
      <3>2. CASE d = q
        BY <1>2, <1>3, <3>1, <3>2, TablesInUse
      <3>3. CASE d # q
        BY <1>3, <3>1, <3>3, TablesInUse
      <3> QED BY <3>2, <3>3
    <2>4. \A x : x \in InUse => x \in InUse'
      <3>1. SUFFICES ASSUME NEW x, NEW d \in Dirs, NEW i \in 0 .. DirSize - 1,
                            ref_tables[d][i] = x, x # NoTable
                     PROVE  x \in InUse'
        BY TablesInUse
      <3>2. d # q
        BY <1>3, <3>1
      <3> QED BY <1>3, <2>2, <3>1, <3>2
    <2> QED BY <2>3, <2>4
  <1>6. PagingTypeOK'
    <2>1. ref_tables' \in [Dirs -> [0 .. DirSize - 1 -> Nat]]
      BY <1>1, <1>2, <1>3
    <2> QED BY <1>1, <1>2, <1>5, <2>1 DEF PagingTypeOK, Memory
  <1>7. TablesSoFar'
    <2>1. TablesBelow'
      BY <1>1, <1>2, <1>3 DEF TablesSoFar, TablesBelow
    <2>2. \A p \in Processes, i \in 0 .. DirSize - 1 : p > nprocs' => ref_tables'[p][i] = NoTable
      BY <1>1, <1>2, <1>3 DEF TablesSoFar, Dirs
    <2>3. ref_tables'[0][0] = NoTable
      BY <1>1, <1>2, <1>3 DEF TablesSoFar
    <2>4. ASSUME NEW p \in 1 .. q, p < q PROVE ref_tables'[p][0] # NoTable
      <3>1. p \in 1 .. nprocs /\ p \in Dirs \ {q}
        BY <1>2, <1>2a, <2>4
      <3> QED BY <1>1, <1>3, <3>1 DEF TablesSoFar
    <2> QED BY <1>1, <2>1, <2>2, <2>3, <2>4 DEF TablesSoFar
  <1>8. OnlyTheKernelIsShared'
    <2>1. ASSUME NEW p \in 1 .. q, NEW i \in Filled(0) PROVE ref_tables'[p][i] = ref_tables'[0][i]
      <3>1. p = q \/ p \in (1 .. nprocs) \cap Dirs
        BY <1>2a
      <3> QED BY <1>1, <1>2, <1>3, <3>1 DEF PagingInv, OnlyTheKernelIsShared
    <2>2. ASSUME NEW a \in Dirs, NEW b \in Dirs, NEW i \in Filled(a)', NEW j \in Filled(b)',
                 ref_tables'[a][i] = ref_tables'[b][j]
          PROVE  i = j /\ (a = b \/ ref_tables'[0][i] = ref_tables'[a][i])
      <3>1. PICK c \in Dirs : c = IF a = q THEN 0 ELSE a
        BY <1>2
      <3>2. PICK e \in Dirs : e = IF b = q THEN 0 ELSE b
        BY <1>2
      <3>3. i \in Filled(c) /\ j \in Filled(e) /\ ref_tables[c][i] = ref_tables[e][j]
        BY <1>3, <1>4, <2>2, <3>1, <3>2
      <3>4. i = j /\ (c = e \/ ref_tables[0][i] = ref_tables[c][i])
        BY <1>1, <3>3 DEF PagingInv, OnlyTheKernelIsShared
      <3> QED BY <1>2, <1>3, <3>1, <3>2, <3>4
    <2> QED BY <1>1, <1>2, <1>4, <2>1, <2>2 DEF OnlyTheKernelIsShared
  <1>9. WhereItIs'
    BY <1>1, <1>2 DEF WhereItIs, Booting, HeapStart, tmp_heap_end, tmp_heap_0
  <1>10. FramesAreTaken' /\ NoFrameMappedTwice' /\ FilledFromMemory'
    BY <1>1 DEF PagingInv, FramesAreTaken, EveryFrameTaken, Taken, Memory, NoFrameMappedTwice,
                FilledFromMemory, Filling
  <1>11. \A e \in Dirs \ {q} : \A v :
           Table(e, v)' = Table(e, v) /\ Entry(e, v)' = Entry(e, v) /\ Mapped(e, v)' = Mapped(e, v)
    BY <1>1, <1>3 DEF Table, Entry, Mapped
  <1>12. HeapSoFar'
    BY <1>1, <1>2, <1>11 DEF PagingInv, HeapSoFar, HeapVirtual, Free, Scanned, Memory
  <1>13. CodeStays'
    <2>1. SUFFICES ASSUME NEW p \in 1 .. q, p < q, pte[Entry(p, 0)'] \in Memory
                   PROVE  content[pte[Entry(p, 0)']] = p
      BY <1>1 DEF CodeStays, Memory
    <2>2. p \in 1 .. nprocs /\ p \in Dirs \ {q}
      BY <1>2, <1>2a, <2>1
    <2> QED BY <1>1, <1>11, <2>1, <2>2 DEF PagingInv, CodeStays
  <1> QED BY <1>6, <1>7, <1>8, <1>9, <1>10, <1>12, <1>13 DEF PagingInv

(* create_process's two calls of map_virtual_address. *)
LEMMA ProcessPageInv ==
  ASSUME PagingInv, NEW v \in Pages, MapPage(nprocs, v, Any),
         UNCHANGED <<machine, content, heap_start, at, nprocs, length>>,
         \/ phase = "text" /\ v = 0 /\ phase' = "stack"
         \/ phase = "stack" /\ phase' = "load"
  PROVE  PagingInv'
  <1>0. PICK d : d = nprocs
    OBVIOUS
  <1>1. /\ PagingTypeOK /\ TablesSoFar /\ TablesBelow /\ UNCHANGED <<ram, lfb>>
        /\ d \in Dirs /\ nprocs > 0 /\ d = nprocs /\ MapPage(d, v, Any) /\ at \in Nat
        /\ heap_start \in Nat /\ Any \in Nat \cup {Any} /\ Any \notin Memory \cap Taken
        /\ heap_start = HeapStart /\ phase \in {"text", "stack"}
    BY <1>0 DEF PagingInv, PagingTypeOK, WhereItIs, TablesSoFar, machine, Dirs, Processes, kpage_dir,
                Any, Memory
  <1>2. /\ PagingTypeOK' /\ TablesBelow' /\ OnlyTheKernelIsShared' /\ ref_tables'[kpage_dir][0] = NoTable
        /\ \A p \in Processes, i \in 0 .. DirSize - 1 : p > nprocs => ref_tables'[p][i] = NoTable
        /\ EveryFrameTaken' /\ NoFrameMappedTwice'
        /\ \A p : EarlierProcess(p) =>
              EarlierProcess(p)' /\ ref_tables'[p][0] # NoTable /\ CodeOf(p)'
    <2>1. (heap_start' \in Nat /\ at' \in Nat /\ phase' \in Booting \cup
             {"idle", "text", "stack", "load", "faulted"})
      BY <1>1
    <2>2. nprocs = 0 => v >= Entries
      BY <1>1
    <2> QED BY <1>1, <2>1, <2>2, MapPageInv
  <1>3. ref_tables'[d][0] # NoTable
    <2>1. CASE phase = "text"
      <3>1. Mapped(d, v)' /\ v = 0
        BY <1>1, <2>1, MapPageKeeps
      <3>2. Table(d, v)' # NoTable
        BY <3>1 DEF Mapped
      <3> QED BY <3>1, <3>2, FirstPage DEF Table
    <2>2. CASE phase = "stack"
      <3>1. d \in 1 .. nprocs
        BY <1>1 DEF PagingTypeOK
      <3>2. Table(d, 0) # NoTable
        BY <1>1, <2>2, <3>1, FirstPage DEF TablesSoFar
      <3> QED BY <1>1, <3>2, MapPageKeeps, FirstPage DEF Table
    <2> QED BY <1>1, <2>1, <2>2
  <1>4. TablesSoFar'
    <2>1. ASSUME NEW p \in 1 .. nprocs PROVE ref_tables'[p][0] # NoTable
      <3>1. p = d \/ EarlierProcess(p)
        BY <1>1 DEF EarlierProcess, PagingTypeOK
      <3> QED BY <1>2, <1>3, <3>1
    <2> QED BY <1>2, <2>1 DEF TablesSoFar
  <1>5. CodeStays'
    <2>1. SUFFICES ASSUME NEW p \in 1 .. nprocs, p < nprocs PROVE CodeOf(p)'
      BY DEF CodeStays, CodeOf
    <2> QED BY <1>2, <2>1 DEF EarlierProcess
  <1>6. HeapSoFar'
    <2>1. SUFFICES ASSUME NEW u \in HeapVirtual PROVE Backed(u)'
      BY DEF HeapSoFar, HeapVirtual, Backed
    <2>2. u \in Pages /\ Backed(u)
      BY <1>1, HeapIsInPages DEF PagingInv, HeapSoFar, Backed
    <2> QED BY <1>1, <2>2, BackedStays
  <1>7. WhereItIs'
    BY <1>1 DEF PagingInv, WhereItIs, Booting, HeapStart, tmp_heap_end, tmp_heap_0
  <1>8. FramesAreTaken' /\ FilledFromMemory'
    BY <1>2 DEF FramesAreTaken, FilledFromMemory, Filling
  <1> QED BY <1>2, <1>4, <1>5, <1>6, <1>7, <1>8 DEF PagingInv

(* Code and stack lie in the address space. *)
LEMMA ProcessPages ==
  ASSUME PagingTypeOK
  PROVE  /\ length \div 4096 + 1 \in Pages
         /\ \A u \in 0 .. (length + 4095) \div 4096 - 1 : u \in Pages
  <1>1. length \in Nat /\ length \div 4096 + 1 < DirSize * Entries
    <2>1. CASE length \in CodeLengths
      BY <2>1, PagingAssumption, AddressSpaceAssumption
    <2>2. CASE length = 0
      BY <2>2, AddressSpaceAssumption, Sizes
    <2> QED BY <2>1, <2>2 DEF PagingTypeOK
  <1> QED BY <1>1, Sizes DEF Pages

LEMMA MapTextInv == PagingInv /\ MapText => PagingInv'
  BY FirstPage, ProcessPageInv DEF MapText

LEMMA MapStackInv == PagingInv /\ MapStack => PagingInv'
  <1> SUFFICES ASSUME PagingInv, MapStack PROVE PagingInv'
    OBVIOUS
  <1>1. length \div 4096 + 1 \in Pages
    BY ProcessPages DEF PagingInv
  <1> QED BY <1>1, ProcessPageInv DEF MapStack

LEMMA LoadCodeInv == PagingInv /\ LoadCode => PagingInv'
  <1> SUFFICES ASSUME PagingInv, LoadCode PROVE PagingInv'
    OBVIOUS
  <1> DEFINE pages == 0 .. (length + 4095) \div 4096 - 1
             there == {v \in pages : \A u \in 0 .. v : Mapped(nprocs, u)}
  <1>1. /\ phase = "load" /\ nprocs > 0 /\ length \in CodeLengths /\ at = 0 /\ heap_start = HeapStart
        /\ content' = [f \in Memory |-> IF \E v \in there : pte[Entry(nprocs, v)] = f
                                        THEN nprocs ELSE content[f]]
        /\ phase' = IF there = pages THEN "idle" ELSE "faulted"
        /\ UNCHANGED <<machine, tables, heap_start, at, nprocs, length>>
        /\ UNCHANGED <<ram, lfb, ref_tables, pte, spoiled, tmp_heap, logged, granted, withheld>>
        /\ PagingTypeOK /\ TablesSoFar
    BY DEF LoadCode, PagingInv, WhereItIs, machine, tables
  <1>2. nprocs \in Nat /\ nprocs \in 1 .. nprocs /\ nprocs \in Dirs
    BY <1>1 DEF PagingTypeOK, Dirs, Processes
  <1>3. PagingTypeOK'
    <2>1. content' \in [Memory -> Dirs]
      BY <1>1, <1>2 DEF PagingTypeOK
    <2>2. InUse' = InUse /\ Memory' = Memory /\ nprocs \in 0 .. MaxProcesses
      BY <1>1 DEF InUse, Filled, Memory, PagingTypeOK
    <2>3. phase' \in {"idle", "faulted"}
      BY <1>1
    <2> QED BY <1>1, <2>1, <2>2, <2>3 DEF PagingTypeOK
  <1>4. WhereItIs'
    BY <1>1 DEF WhereItIs, Booting, HeapStart, tmp_heap_end, tmp_heap_0
  <1>5. TablesSoFar' /\ FramesAreTaken' /\ FilledFromMemory'
    BY <1>1, TablesUnchanged DEF TablesSoFar, FramesAreTaken, FilledFromMemory, Filling
  <1>6. HeapSoFar'
    BY <1>1, TablesUnchanged DEF PagingInv, HeapSoFar, HeapVirtual
  <1>7. ASSUME NEW p \in 1 .. nprocs, p < nprocs \/ phase' = "idle", pte[Entry(p, 0)] \in Memory
        PROVE  content'[pte[Entry(p, 0)]] = p
    <2> DEFINE f == pte[Entry(p, 0)]
    <2>1. CASE p = nprocs
      <3>1. there = pages /\ 0 \in pages
        BY <1>1, <1>7, <2>1, <1>2, PagingAssumption
      <3> QED BY <1>1, <1>7, <2>1, <3>1
    <2>2. CASE p # nprocs
      <3>1. p < nprocs /\ p \in Dirs
        BY <1>2, <2>2, <1>1, Sizes DEF PagingTypeOK, Dirs, Processes
      <3>2. content[f] = p /\ ref_tables[p][0] # NoTable
        BY <1>1, <1>7, <3>1 DEF PagingInv, CodeStays, TablesSoFar
      <3>3. ASSUME NEW v \in there, pte[Entry(nprocs, v)] = f PROVE FALSE
        <4>1. v \in Pages /\ Mapped(nprocs, v)
          BY <1>1, <3>3, ProcessPages, Sizes
        <4>2. Entry(nprocs, v) \in DOMAIN pte /\ Entry(p, 0) \in DOMAIN pte
          BY <1>1, <1>2, <3>1, <3>2, <4>1, FirstPage, TargetWords DEF PagingInv, TablesSoFar, Mapped
        <4>3. Entry(nprocs, v) = Entry(p, 0)
          BY <1>7, <3>3, <4>2 DEF PagingInv, NoFrameMappedTwice
        <4>4. Table(nprocs, v) = Table(p, 0)
          BY <1>1, <1>2, <3>1, <4>1, <4>3, FirstPage, EntryOfOneTable
        <4>5. v \div Entries \in 0 .. DirSize - 1
          BY <4>1, SlotOfPage DEF Pages
        <4> QED BY <1>1, <1>2, <2>2, <3>2, <4>4, <4>5, FirstPage, FirstTableIsPrivate
                DEF PagingInv, TablesSoFar, Table
      <3> QED BY <1>1, <1>7, <3>2, <3>3
    <2> QED BY <2>1, <2>2
  <1>8. CodeStays'
    BY <1>1, <1>7, TablesUnchanged DEF CodeStays
  <1> QED BY <1>1, <1>3, <1>4, <1>5, <1>6, <1>8, TablesUnchanged DEF PagingInv

LEMMA PagingStepInv == PagingInv /\ [PagingNext]_pagingVars => PagingInv'
  <1> SUFFICES ASSUME PagingInv, [PagingNext]_pagingVars PROVE PagingInv'
    OBVIOUS
  <1>1. CASE UNCHANGED pagingVars
    <2>1. /\ UNCHANGED <<machine, tables, content, heap_start, phase, at, nprocs, length>>
          /\ UNCHANGED <<ram, lfb, ref_tables, pte, spoiled, tmp_heap, logged, granted, withheld>>
      BY <1>1 DEF pagingVars, machine, tables
    <2>2. PagingTypeOK'
      BY <2>1 DEF PagingInv, PagingTypeOK, InUse, Filled, Memory
    <2>3. WhereItIs'
      BY <2>1 DEF PagingInv, WhereItIs, HeapStart, tmp_heap_end, tmp_heap_0
    <2>4. TablesSoFar' /\ FramesAreTaken' /\ FilledFromMemory'
      BY <2>1, TablesUnchanged DEF PagingInv, TablesSoFar, FramesAreTaken, FilledFromMemory
    <2>5. HeapSoFar' /\ CodeStays'
      BY <2>1, TablesUnchanged DEF PagingInv, HeapSoFar, HeapVirtual, CodeStays
    <2> QED BY <2>1, <2>2, <2>3, <2>4, <2>5, TablesUnchanged DEF PagingInv
  <1> QED BY <1>1, MapIdentityInv, PlaceHeapInv, MapHeapInv, MapLfbInv, CreateProcessInv, MapTextInv,
             MapStackInv, LoadCodeInv DEF PagingNext

LEMMA PagingInvariant == PagingSpec => []PagingInv
  BY InitInv, PagingStepInv, PTL DEF PagingSpec

-----------------------------------------------------------------------------
(* Directories hold tables, and every word of every table in use, and no   *)
(* other, is an entry (paging.c:143-152).                                  *)
THEOREM PagingTypeCorrect == PagingSpec => []PagingTypeOK
  BY PagingInvariant, PTL DEF PagingInv

(* However allocation follows the identity map and the frame buffer, and   *)
(* whether or not memory runs out, no block of memory is behind two        *)
(* entries (paging.c:157-160).                                             *)
THEOREM FramesHaveOneEntry == PagingSpec => []NoFrameMappedTwice
  BY PagingInvariant, PTL DEF PagingInv

(* Every process has all of the kernel's tables and no other table in      *)
(* common with anybody (copy_page_directory, dumb_kmalloc_a).              *)
THEOREM TablesAreTheKernelsOrOwn == PagingSpec => []OnlyTheKernelIsShared
  BY PagingInvariant, PTL DEF PagingInv

(* Behind heap_init every page of the heap has a block of memory, unless   *)
(* memory has run out (heap.c:57-62).                                      *)
THEOREM TheHeapIsBacked == PagingSpec => []HeapIsBacked
  <1>1. PagingInv => HeapIsBacked
    BY DEF PagingInv, HeapSoFar, HeapIsBacked
  <1> QED BY <1>1, PagingInvariant, PTL

(* Loading the code of a process leaves that of the processes before it    *)
(* where it is (proc.c:56-59).                                             *)
THEOREM ProcessesKeepTheirCode == PagingSpec => []CodeStays
  BY PagingInvariant, PTL DEF PagingInv

(* The half of TablesKeepTheirMemory that does not depend on where the     *)
(* stray bits fall: no table lies in the heap before the log says so       *)
(* (paging.c:29).                                                          *)
TablesBelowTheHeap ==
  phase \notin {"identity", "heap_init"} => logged \/ \A t \in InUse : t < heap_start

FullIsLogged == logged \/ tmp_heap < tmp_heap_end

LEMMA TmpHeapEnd == PagingTypeOK => tmp_heap_end \in Nat
  <1> SUFFICES ASSUME PagingTypeOK PROVE tmp_heap_end \in Nat
    OBVIOUS
  <1>1. ram \in Nat
    BY PagingAssumption DEF PagingTypeOK
  <1>2. BehindBitmap(ram) \in Nat
    BY <1>1, BehindBitmapType
  <1> QED BY <1>2, Sizes DEF tmp_heap_end, tmp_heap_0

LEMMA FullIsLoggedStep ==
  PagingInv /\ FullIsLogged /\ [PagingNext]_pagingVars => FullIsLogged'
  <1> SUFFICES ASSUME PagingInv, FullIsLogged, [PagingNext]_pagingVars PROVE FullIsLogged'
    OBVIOUS
  <1>1. tmp_heap_end \in Nat /\ tmp_heap \in Nat /\ logged \in BOOLEAN
    BY TmpHeapEnd DEF PagingInv, PagingTypeOK
  <1>2. ram' = ram
    BY DEF PagingNext, MapIdentity, PlaceHeap, MapHeap, MapLfb, CreateProcess, MapText, MapStack,
           LoadCode, pagingVars, machine
  <1>3. tmp_heap_end' = tmp_heap_end
    BY <1>2 DEF tmp_heap_end, tmp_heap_0
  <1>4. ASSUME NEW d, NEW v, NEW want, MapPage(d, v, want) PROVE FullIsLogged'
    <2>1. CASE Table(d, v) = NoTable
      <3>1. tmp_heap' = tmp_heap + 1 /\ (logged' \/ ~(tmp_heap + 1 >= tmp_heap_end))
        BY <1>4, <2>1 DEF MapPage, Bumped
      <3> QED BY <1>1, <1>3, <3>1 DEF FullIsLogged
    <2>2. CASE Table(d, v) # NoTable
      BY <1>3, <1>4, <2>2 DEF MapPage, FullIsLogged
    <2> QED BY <2>1, <2>2
  <1>5. CASE UNCHANGED <<tmp_heap, logged>>
    BY <1>3, <1>5 DEF FullIsLogged
  <1> QED BY <1>4, <1>5 DEF PagingNext, MapIdentity, PlaceHeap, MapHeap, MapLfb, CreateProcess,
                            MapText, MapStack, LoadCode, pagingVars, tables

THEOREM TablesStayBelowTheHeap == PagingSpec => []TablesBelowTheHeap
  <1>1. PagingInit => FullIsLogged
    <2>1. PagingInit => PagingTypeOK
      BY InitInv DEF PagingInv
    <2>2. SUFFICES ASSUME PagingInit, PagingTypeOK PROVE FullIsLogged
      BY <2>1
    <2>3. tmp_heap_end \in Nat /\ tmp_heap \in Nat
      BY <2>2, TmpHeapEnd DEF PagingTypeOK
    <2>4. logged \/ ~(tmp_heap >= tmp_heap_end)
      BY <2>2 DEF PagingInit
    <2> QED BY <2>3, <2>4 DEF FullIsLogged
  <1>2. PagingInv /\ FullIsLogged => TablesBelowTheHeap
    <2> SUFFICES ASSUME PagingInv, FullIsLogged, heap_start = HeapStart, ~logged, NEW t \in InUse
                 PROVE  t < heap_start
      BY DEF TablesBelowTheHeap, PagingInv, WhereItIs
    <2>1. tmp_heap_end \in Nat /\ tmp_heap \in Nat /\ tmp_heap < tmp_heap_end
      BY TmpHeapEnd DEF PagingInv, PagingTypeOK, FullIsLogged
    <2>2. PICK d \in Dirs, i \in 0 .. DirSize - 1 : ref_tables[d][i] = t
      BY TablesInUse
    <2>3. t \in Nat /\ t <= tmp_heap
      BY <2>2 DEF PagingInv, PagingTypeOK, TablesSoFar, TablesBelow
    <2> QED BY <2>1, <2>3 DEF HeapStart
  <1> QED BY <1>1, <1>2, FullIsLoggedStep, PagingInvariant, PTL DEF PagingSpec

-----------------------------------------------------------------------------
(* How many tables there are, and so how far the dumb heap has got: one    *)
(* for each share of the address space the kernel maps, and what each      *)
(* process has of its own.                                                 *)

OwnTables ==
  IF nprocs = 0 THEN 0
  ELSE (nprocs - 1) * TablesOfProcess
         + (IF phase = "text" THEN 0 ELSE IF phase = "stack" THEN 1 ELSE TablesOfProcess)

KernelTables == Cardinality(Filled(kpage_dir))

Counted ==
  /\ Filled(kpage_dir) \subseteq KernelShares(ram, lfb)
  /\ tmp_heap_0 + 2 <= tmp_heap
  /\ tmp_heap <= tmp_heap_0 + 2 + KernelTables + OwnTables

LEMMA SharesAreFinite ==
  ASSUME PagingTypeOK
  PROVE  /\ IsFiniteSet(KernelShares(ram, lfb))
         /\ Filled(kpage_dir) \subseteq KernelShares(ram, lfb) =>
              /\ IsFiniteSet(Filled(kpage_dir)) /\ KernelTables \in Nat
              /\ KernelTables <= Cardinality(KernelShares(ram, lfb))
         /\ Cardinality(KernelShares(ram, lfb)) \in Nat
  <1>1. /\ tmp_heap_0 \in Nat /\ BehindBitmap(ram) = tmp_heap_0
        /\ lfb.base \in Nat /\ lfb.length \in Nat
    <2>1. ram \in Nat
      BY PagingAssumption DEF PagingTypeOK
    <2>2. lfb.base \in Nat /\ lfb.length \in Nat
      BY PagingAssumption DEF PagingTypeOK
    <2> QED BY <2>1, <2>2, BehindBitmapType DEF tmp_heap_0
  <1> DEFINE A == BASE .. BASE + KernelMap - 1
             B == BASE + BehindBitmap(ram) + TmpPages + 1 .. BASE + BehindBitmap(ram) + TmpPages + HeapPages
             C == lfb.base .. lfb.base + lfb.length - 1
             V == A \cup B \cup C
  <1>2. IsFiniteSet(A) /\ IsFiniteSet(B) /\ IsFiniteSet(C)
    <2>1. /\ BASE \in Int /\ BASE + KernelMap - 1 \in Int
          /\ BASE + BehindBitmap(ram) + TmpPages + 1 \in Int
          /\ BASE + BehindBitmap(ram) + TmpPages + HeapPages \in Int
          /\ lfb.base \in Int /\ lfb.base + lfb.length - 1 \in Int
      BY <1>1, Sizes
    <2> QED BY <2>1, FS_Interval
  <1>3. IsFiniteSet(V)
    BY <1>2, FS_Union
  <1>4. KernelShares(ram, lfb) = {v \div Entries : v \in V}
    BY DEF KernelShares
  <1> HIDE DEF V
  <1>5. IsFiniteSet(KernelShares(ram, lfb))
    <2> DEFINE share == [v \in V |-> v \div Entries]
    <2>1. share \in Surjection(V, KernelShares(ram, lfb))
      BY <1>4 DEF Surjection
    <2> QED BY <1>3, <2>1, FS_Surjection
  <1>6. Cardinality(KernelShares(ram, lfb)) \in Nat
    BY <1>5, FS_CardinalityType
  <1>7. ASSUME Filled(kpage_dir) \subseteq KernelShares(ram, lfb)
        PROVE  /\ IsFiniteSet(Filled(kpage_dir)) /\ KernelTables \in Nat
               /\ KernelTables <= Cardinality(KernelShares(ram, lfb))
    <2>1. IsFiniteSet(Filled(kpage_dir))
      BY <1>5, <1>7, FS_Subset
    <2>2. Cardinality(Filled(kpage_dir)) <= Cardinality(KernelShares(ram, lfb))
      BY <1>5, <1>7, FS_Subset
    <2> QED BY <2>1, <2>2, FS_CardinalityType DEF KernelTables
  <1> QED BY <1>5, <1>6, <1>7

(* One mapping makes at most one table. *)
LEMMA MapPageCount ==
  ASSUME PagingInv, Counted, NEW d \in Dirs, NEW v \in Pages, NEW want,
         MapPage(d, v, want), UNCHANGED machine
  PROVE  /\ tmp_heap' = tmp_heap \/ tmp_heap' = tmp_heap + 1
         /\ Table(d, v) # NoTable => tmp_heap' = tmp_heap
         /\ IF d = kpage_dir
            THEN /\ Filled(kpage_dir)' \subseteq Filled(kpage_dir) \cup {v \div Entries}
                 /\ \E k \in 0 .. 1 : /\ tmp_heap' = tmp_heap + k
                                    /\ KernelTables' = KernelTables + k
            ELSE Filled(kpage_dir)' = Filled(kpage_dir)
  <1>1. PagingTypeOK /\ TablesBelow
    BY DEF PagingInv, TablesSoFar
  <1>2. /\ v \div Entries \in 0 .. DirSize - 1 /\ tmp_heap \in Nat
        /\ ref_tables \in [Dirs -> [0 .. DirSize - 1 -> Nat]]
        /\ kpage_dir \in Dirs
    BY <1>1, SlotOfPage DEF Pages, PagingTypeOK, Dirs
  <1>3. IsFiniteSet(Filled(kpage_dir)) /\ KernelTables \in Nat
    BY <1>1, SharesAreFinite DEF Counted
  <1>4. CASE Table(d, v) # NoTable
    <2>1. UNCHANGED <<ref_tables, tmp_heap>>
      BY <1>4 DEF MapPage
    <2>2. Filled(kpage_dir)' = Filled(kpage_dir)
      BY <2>1 DEF Filled
    <2> QED BY <1>2, <1>3, <1>4, <2>1, <2>2 DEF KernelTables
  <1>5. CASE Table(d, v) = NoTable
    <2>1. /\ ref_tables' = [ref_tables EXCEPT ![d][v \div Entries] = Bumped]
          /\ tmp_heap' = tmp_heap + 1 /\ Bumped = tmp_heap + 1
      BY <1>5 DEF MapPage, Bumped
    <2>2. CASE d = kpage_dir
      <3>1. Filled(kpage_dir)' = Filled(kpage_dir) \cup {v \div Entries}
        <4>1. PICK k \in 0 .. DirSize - 1 : k = v \div Entries
          BY <1>2
        <4>2. \A i \in 0 .. DirSize - 1 :
                ref_tables'[kpage_dir][i] = IF i = k THEN tmp_heap + 1 ELSE ref_tables[kpage_dir][i]
          BY <1>2, <2>1, <2>2, <4>1
        <4>3. tmp_heap + 1 # NoTable
          BY <1>2 DEF NoTable
        <4> QED BY <4>1, <4>2, <4>3 DEF Filled
      <3>2. v \div Entries \notin Filled(kpage_dir)
        BY <1>5, <2>2 DEF Filled, Table
      <3>3. Cardinality(Filled(kpage_dir) \cup {v \div Entries}) = Cardinality(Filled(kpage_dir)) + 1
        BY <1>3, <3>2, FS_AddElement
      <3>4. KernelTables' = KernelTables + 1
        BY <3>1, <3>3 DEF KernelTables
      <3> QED BY <1>2, <1>3, <1>5, <2>1, <2>2, <3>1, <3>4
    <2>3. CASE d # kpage_dir
      <3>1. Filled(kpage_dir)' = Filled(kpage_dir)
        BY <1>2, <2>1, <2>3 DEF Filled
      <3> QED BY <1>2, <1>5, <2>1, <2>3, <3>1
    <2> QED BY <2>2, <2>3
  <1> QED BY <1>4, <1>5

LEMMA OneOrTwo == TablesOfProcess \in {1, 2}
  BY DEF TablesOfProcess

LEMMA OwnTablesAreFew ==
  ASSUME PagingTypeOK
  PROVE  OwnTables \in Nat /\ OwnTables <= MaxProcesses * TablesOfProcess
  <1>1. nprocs \in Nat /\ nprocs <= MaxProcesses /\ MaxProcesses \in Nat
    BY Sizes DEF PagingTypeOK
  <1>2. CASE TablesOfProcess = 1
    BY <1>1, <1>2 DEF OwnTables
  <1>3. CASE TablesOfProcess = 2
    BY <1>1, <1>3 DEF OwnTables
  <1> QED BY <1>2, <1>3, OneOrTwo

LEMMA CountedInit == PagingInit => Counted
  <1> SUFFICES ASSUME PagingInit PROVE Counted
    OBVIOUS
  <1>1. PagingTypeOK
    BY InitInv DEF PagingInv
  <1>2. tmp_heap = tmp_heap_0 + 2 /\ tmp_heap \in Nat /\ nprocs = 0
    BY <1>1 DEF PagingInit, PagingTypeOK
  <1>3. Filled(kpage_dir) = {}
    BY DEF PagingInit, Filled, Dirs
  <1>4. KernelTables = 0
    BY <1>3, FS_EmptySet DEF KernelTables
  <1>5. OwnTables = 0
    BY <1>2 DEF OwnTables
  <1>6. tmp_heap_0 + 2 \in Nat
    BY <1>2
  <1> QED BY <1>2, <1>3, <1>4, <1>5, <1>6 DEF Counted

LEMMA HeapPlaces ==
  ASSUME PagingInv, Counted
  PROVE  /\ tmp_heap_0 \in Nat /\ tmp_heap \in Nat /\ KernelTables \in Nat /\ OwnTables \in Nat
         /\ BehindBitmap(ram) = tmp_heap_0
  <1>1. PagingTypeOK
    BY DEF PagingInv
  <1>2. ram \in Nat
    BY <1>1, PagingAssumption DEF PagingTypeOK
  <1>3. tmp_heap_0 \in Nat /\ BehindBitmap(ram) = tmp_heap_0
    BY <1>2, BehindBitmapType DEF tmp_heap_0
  <1>4. KernelTables \in Nat /\ OwnTables \in Nat /\ tmp_heap \in Nat
    BY <1>1, SharesAreFinite, OwnTablesAreFew DEF Counted, PagingTypeOK
  <1> QED BY <1>3, <1>4

(* A mapping of the kernel's, while there is no process. *)
LEMMA KernelCount ==
  ASSUME PagingInv, Counted, nprocs = 0, NEW v \in Pages, NEW want,
         MapPage(kpage_dir, v, want), UNCHANGED <<machine, nprocs>>,
         v \div Entries \in KernelShares(ram, lfb)
  PROVE  Counted'
  <1>1. /\ Filled(kpage_dir)' \subseteq Filled(kpage_dir) \cup {v \div Entries}
        /\ \E k \in 0 .. 1 : tmp_heap' = tmp_heap + k /\ KernelTables' = KernelTables + k
    BY MapPageCount DEF Dirs
  <1>2. PICK k \in 0 .. 1 : tmp_heap' = tmp_heap + k /\ KernelTables' = KernelTables + k
    BY <1>1, Zenon
  <1>3. ram' = ram /\ lfb' = lfb /\ tmp_heap_0' = tmp_heap_0
    BY DEF machine, tmp_heap_0
  <1>4. Filled(kpage_dir)' \subseteq KernelShares(ram', lfb')
    BY <1>1, <1>3 DEF Counted
  <1>5. OwnTables = 0 /\ OwnTables' = 0
    BY DEF OwnTables
  <1>6. tmp_heap_0 \in Nat /\ tmp_heap \in Nat /\ KernelTables \in Nat
    BY HeapPlaces
  <1>7. /\ tmp_heap_0 + 2 <= tmp_heap
        /\ tmp_heap <= tmp_heap_0 + 2 + KernelTables
    BY <1>5, <1>6 DEF Counted
  <1>8. tmp_heap_0 + 2 <= tmp_heap + k /\ tmp_heap + k <= tmp_heap_0 + 2 + (KernelTables + k)
    BY <1>2, <1>6, <1>7
  <1>9. tmp_heap_0' + 2 <= tmp_heap' /\ tmp_heap' <= tmp_heap_0' + 2 + KernelTables' + OwnTables'
    BY <1>2, <1>3, <1>5, <1>6, <1>8
  <1> QED BY <1>4, <1>9 DEF Counted

(* A page of the last process's. *)
LEMMA ProcessCount ==
  ASSUME PagingInv, Counted, nprocs > 0, NEW v \in Pages, NEW want,
         MapPage(nprocs, v, want), UNCHANGED <<machine, nprocs>>,
         NEW k \in Nat, NEW l \in Nat, k <= l,
         tmp_heap' = tmp_heap + k, OwnTables' = OwnTables + l
  PROVE  Counted'
  <1>1. nprocs \in Dirs /\ nprocs # kpage_dir
    BY DEF Dirs, Processes, kpage_dir, PagingInv, PagingTypeOK
  <1>2. Filled(kpage_dir)' = Filled(kpage_dir)
    BY <1>1, MapPageCount
  <1>3. tmp_heap_0 \in Nat /\ tmp_heap \in Nat /\ KernelTables \in Nat /\ OwnTables \in Nat
    BY HeapPlaces
  <1>4. ram' = ram /\ lfb' = lfb /\ tmp_heap_0' = tmp_heap_0
    BY DEF machine, tmp_heap_0
  <1>5. Filled(kpage_dir)' \subseteq KernelShares(ram', lfb') /\ KernelTables' = KernelTables
    BY <1>2, <1>4 DEF Counted, KernelTables
  <1>7. /\ tmp_heap_0 + 2 <= tmp_heap
        /\ tmp_heap <= tmp_heap_0 + 2 + KernelTables + OwnTables
    BY DEF Counted
  <1>8. tmp_heap_0 + 2 <= tmp_heap + k /\ tmp_heap + k <= tmp_heap_0 + 2 + KernelTables + (OwnTables + l)
    BY <1>3, <1>7
  <1>9. tmp_heap_0' + 2 <= tmp_heap' /\ tmp_heap' <= tmp_heap_0' + 2 + KernelTables' + OwnTables'
    <2>1. KernelTables' = KernelTables
      BY <1>5, Zenon
    <2> QED BY <1>3, <1>4, <1>8, <2>1
  <1>10. Filled(kpage_dir)' \subseteq KernelShares(ram', lfb')
    BY <1>5, Zenon
  <1> QED BY <1>9, <1>10 DEF Counted

LEMMA SameCount ==
  ASSUME PagingInv, Counted, UNCHANGED <<ram, lfb, tmp_heap, Filled(kpage_dir), OwnTables>>
  PROVE  Counted'
  BY DEF Counted, KernelTables, tmp_heap_0

LEMMA CountedStep ==
  ASSUME PagingInv, Counted, [PagingNext]_pagingVars
  PROVE  Counted'
  <1>1. /\ PagingTypeOK /\ nprocs \in 0 .. MaxProcesses
        /\ phase \in Booting => nprocs = 0
        /\ phase \in {"text", "stack", "load"} => nprocs > 0
    BY DEF PagingInv, PagingTypeOK, WhereItIs
  <1>2. CASE MapIdentity
    <2>1. /\ phase = "identity" /\ MapPage(kpage_dir, BASE + at, at)
          /\ UNCHANGED <<machine, nprocs>> /\ nprocs = 0
      BY <1>1, <1>2 DEF MapIdentity, Booting
    <2>2. at \in Nat /\ at < KernelMap
      BY <2>1 DEF PagingInv, PagingTypeOK, WhereItIs
    <2>3. BASE + at \in Pages
      BY <1>1, <2>2, KernelPages
    <2>4. BASE + at \in BASE .. BASE + KernelMap - 1
      BY <2>2, Sizes
    <2>5. (BASE + at) \div Entries \in KernelShares(ram, lfb)
      BY <2>4 DEF KernelShares
    <2> QED BY <2>1, <2>3, <2>5, KernelCount
  <1>3. CASE PlaceHeap
    <2>1. UNCHANGED <<ram, lfb, tmp_heap, ref_tables, nprocs>> /\ nprocs = 0
      BY <1>1, <1>3 DEF PlaceHeap, machine, tables, Booting
    <2> QED BY <2>1, SameCount DEF Filled, OwnTables
  <1>4. CASE MapHeap
    <2>1. /\ phase = "heap" /\ MapPage(kpage_dir, BASE + heap_start + at, Any)
          /\ UNCHANGED <<machine, nprocs>> /\ nprocs = 0
      BY <1>1, <1>4 DEF MapHeap, Booting
    <2>2. at \in Nat /\ at < HeapPages /\ heap_start = HeapStart
      BY <2>1 DEF PagingInv, PagingTypeOK, WhereItIs
    <2>3. BASE + heap_start + at \in Pages
      BY <1>1, <2>2, KernelPages
    <2>4. BASE + heap_start + at \in BASE + BehindBitmap(ram) + TmpPages + 1 ..
                                      BASE + BehindBitmap(ram) + TmpPages + HeapPages
      <3>1. heap_start = BehindBitmap(ram) + TmpPages + 1
        BY <2>2 DEF HeapStart, tmp_heap_end, tmp_heap_0
      <3>2. BehindBitmap(ram) \in Nat
        <4>1. ram \in Nat
          BY <1>1, PagingAssumption DEF PagingTypeOK
        <4> QED BY <4>1, BehindBitmapType
      <3> QED BY <2>2, <3>1, <3>2, Sizes
    <2>5. (BASE + heap_start + at) \div Entries \in KernelShares(ram, lfb)
      BY <2>4 DEF KernelShares
    <2> QED BY <2>1, <2>3, <2>5, KernelCount
  <1>5. CASE MapLfb
    <2>1. /\ phase = "lfb" /\ MapPage(kpage_dir, lfb.base + at, lfb.base + at)
          /\ UNCHANGED <<machine, nprocs>> /\ nprocs = 0
      BY <1>1, <1>5 DEF MapLfb, Booting
    <2>2. at \in Nat /\ at < lfb.length
      BY <2>1 DEF PagingInv, PagingTypeOK, WhereItIs
    <2>3. lfb.base + at \in Pages
      BY <1>1, <2>2, KernelPages
    <2>4. lfb.base + at \in lfb.base .. lfb.base + lfb.length - 1
      <3>1. lfb.base \in Nat /\ lfb.length \in Nat
        BY <1>1, PagingAssumption DEF PagingTypeOK
      <3> QED BY <2>2, <3>1
    <2>5. (lfb.base + at) \div Entries \in KernelShares(ram, lfb)
      BY <2>4 DEF KernelShares
    <2> QED BY <2>1, <2>3, <2>5, KernelCount
  <1>6. CASE CreateProcess
    <2>1. /\ phase = "idle" /\ nprocs' = nprocs + 1 /\ phase' = "text"
          /\ ref_tables' = [ref_tables EXCEPT ![nprocs'] = Linked]
          /\ UNCHANGED <<ram, lfb, tmp_heap>>
      BY <1>6 DEF CreateProcess, machine
    <2>2. nprocs' # kpage_dir /\ nprocs' # 0
      BY <1>1, <2>1 DEF kpage_dir
    <2>3. Filled(kpage_dir)' = Filled(kpage_dir)
      <3>1. ref_tables'[kpage_dir] = ref_tables[kpage_dir]
        BY <1>1, <2>1, <2>2 DEF PagingTypeOK, Dirs
      <3> QED BY <3>1 DEF Filled
    <2>4. OwnTables' = OwnTables
      <3>1. CASE TablesOfProcess = 1
        BY <1>1, <2>1, <3>1 DEF OwnTables
      <3>2. CASE TablesOfProcess = 2
        BY <1>1, <2>1, <3>2 DEF OwnTables
      <3> QED BY <3>1, <3>2, OneOrTwo
    <2> QED BY <2>1, <2>3, <2>4, SameCount
  <1>7. CASE MapText
    <2>1. /\ phase = "text" /\ phase' = "stack" /\ MapPage(nprocs, 0, Any) /\ nprocs > 0
          /\ UNCHANGED <<machine, nprocs>>
      BY <1>1, <1>7 DEF MapText
    <2>2. 0 \in Pages /\ nprocs \in Dirs
      BY <1>1, <2>1, FirstPage DEF Dirs, Processes
    <2>3. tmp_heap' = tmp_heap \/ tmp_heap' = tmp_heap + 1
      BY <2>1, <2>2, MapPageCount
    <2>4. OwnTables' = OwnTables + 1
      <3>1. CASE TablesOfProcess = 1
        BY <1>1, <2>1, <3>1 DEF OwnTables
      <3>2. CASE TablesOfProcess = 2
        BY <1>1, <2>1, <3>2 DEF OwnTables
      <3> QED BY <3>1, <3>2, OneOrTwo
    <2>5. tmp_heap \in Nat
      BY <1>1 DEF PagingTypeOK
    <2>6. PICK k \in {0, 1} : tmp_heap' = tmp_heap + k
      BY <2>3, <2>5
    <2>7. k \in Nat /\ 1 \in Nat /\ k <= 1
      OBVIOUS
    <2> QED BY <2>1, <2>2, <2>4, <2>6, <2>7, ProcessCount
  <1>8. CASE MapStack
    <2> DEFINE top == length \div 4096 + 1
    <2>1. /\ phase = "stack" /\ phase' = "load" /\ MapPage(nprocs, top, Any) /\ nprocs > 0
          /\ UNCHANGED <<machine, nprocs>>
      BY <1>1, <1>8 DEF MapStack
    <2>2. top \in Pages /\ nprocs \in Dirs
      BY <1>1, <2>1, ProcessPages DEF Dirs, Processes
    <2>3. /\ tmp_heap' = tmp_heap \/ tmp_heap' = tmp_heap + 1
          /\ Table(nprocs, top) # NoTable => tmp_heap' = tmp_heap
      BY <2>1, <2>2, MapPageCount
    <2>4. tmp_heap \in Nat /\ OwnTables \in Nat
      BY <1>1, HeapPlaces
    <2>6. CASE TablesOfProcess = 1
      <3>1. length \in CodeLengths
        BY <2>1 DEF PagingInv, WhereItIs
      <3>2. top \div Entries = 0
        BY <2>6, <3>1 DEF TablesOfProcess
      <3>3. ref_tables[nprocs][0] # NoTable
        <4>1. nprocs \in 1 .. nprocs
          BY <1>1, <2>1
        <4> QED BY <2>1, <4>1 DEF PagingInv, TablesSoFar
      <3>4. tmp_heap' = tmp_heap + 0
        BY <2>3, <2>4, <3>2, <3>3 DEF Table
      <3>5. OwnTables' = OwnTables
        BY <1>1, <2>1, <2>6 DEF OwnTables
      <3>6. OwnTables' = OwnTables + 0 /\ 0 \in Nat /\ 0 <= 0
        BY <2>4, <3>5
      <3> QED BY <2>1, <2>2, <3>4, <3>6, ProcessCount
    <2>7. CASE TablesOfProcess = 2
      <3>1. OwnTables' = OwnTables + 1
        BY <1>1, <2>1, <2>7 DEF OwnTables
      <3>2. PICK k \in {0, 1} : tmp_heap' = tmp_heap + k
        BY <2>3, <2>4
      <3>3. k \in Nat /\ 1 \in Nat /\ k <= 1
        OBVIOUS
      <3> QED BY <2>1, <2>2, <3>1, <3>2, <3>3, ProcessCount
    <2> QED BY <2>6, <2>7, OneOrTwo
  <1>9. CASE LoadCode
    <2>1. /\ UNCHANGED <<ram, lfb, tmp_heap, ref_tables, nprocs>>
          /\ phase = "load" /\ phase' \in {"idle", "faulted"}
      BY <1>9 DEF LoadCode, machine, tables
    <2>2. OwnTables' = OwnTables
      BY <2>1 DEF OwnTables
    <2> QED BY <2>1, <2>2, SameCount DEF Filled
  <1>10. CASE UNCHANGED pagingVars
    BY <1>10, SameCount DEF pagingVars, machine, tables, Filled, OwnTables
  <1> QED BY <1>2, <1>3, <1>4, <1>5, <1>6, <1>7, <1>8, <1>9, <1>10 DEF PagingNext

-----------------------------------------------------------------------------
(* The dumb heap ends, at the latest, where BitsMissTheTables says.        *)

Bounded ==
  /\ tmp_heap_0 + 2 <= tmp_heap
  /\ nprocs = 0 => tmp_heap <= KernelTablesEnd(ram, lfb)
  /\ tmp_heap <= KernelTablesEnd(ram, lfb) + MaxProcesses * TablesOfProcess
  /\ KernelTablesEnd(ram, lfb) \in Nat

LEMMA CountedIsBounded == PagingInv /\ Counted => Bounded
  <1> SUFFICES ASSUME PagingInv, Counted PROVE Bounded
    OBVIOUS
  <1>1. PagingTypeOK
    BY DEF PagingInv
  <1>2. /\ tmp_heap_0 \in Nat /\ tmp_heap \in Nat /\ KernelTables \in Nat /\ OwnTables \in Nat
        /\ BehindBitmap(ram) = tmp_heap_0
    BY HeapPlaces
  <1> DEFINE shares == Cardinality(KernelShares(ram, lfb))
             most   == MaxProcesses * TablesOfProcess
  <1>3. KernelTables <= shares /\ shares \in Nat
    BY <1>1, SharesAreFinite DEF Counted
  <1>4. KernelTablesEnd(ram, lfb) = tmp_heap_0 + 2 + shares
    BY <1>2 DEF KernelTablesEnd
  <1>5. OwnTables <= most /\ most \in Nat
    BY <1>1, OwnTablesAreFew, OneOrTwo, Sizes
  <1>6. tmp_heap_0 + 2 <= tmp_heap /\ tmp_heap <= tmp_heap_0 + 2 + KernelTables + OwnTables
    BY DEF Counted
  <1>7. nprocs = 0 => OwnTables = 0
    BY DEF OwnTables
  <1> HIDE DEF shares, most
  <1>8. /\ nprocs = 0 => tmp_heap <= KernelTablesEnd(ram, lfb)
        /\ tmp_heap <= KernelTablesEnd(ram, lfb) + most
        /\ KernelTablesEnd(ram, lfb) \in Nat
    BY <1>2, <1>3, <1>4, <1>5, <1>6, <1>7
  <1> QED BY <1>6, <1>8 DEF Bounded, most

LEMMA WordsAreBelow ==
  ASSUME NEW top \in Nat, NEW T, \A t \in T : t \in Nat /\ t <= top,
         NEW w \in UNION {Words(t) : t \in T}
  PROVE  w \in Nat /\ w < (top + 1) * Entries
  <1>1. PICK t \in T, j \in 0 .. Entries - 1 : w = t * Entries + j
    BY DEF Words, Word
  <1>2. t \in Nat /\ t <= top /\ j \in Nat /\ j < Entries
    BY <1>1, Sizes
  <1>3. PICK k \in Nat : top = t + k
    <2>1. top - t \in Nat /\ top = t + (top - t)
      BY <1>2
    <2> QED BY <2>1
  <1>4. (top + 1) * Entries = t * Entries + k * Entries + Entries
    BY <1>2, <1>3, Sizes
  <1>5. t * Entries \in Nat /\ k * Entries \in Nat
    BY <1>2, <1>3, Sizes
  <1> QED BY <1>1, <1>2, <1>4, <1>5, Sizes

LEMMA BitIsBehind ==
  ASSUME NEW f \in Nat, NEW last \in Nat, BitFallsBehind(f, last), NEW top \in Nat, top <= last,
         NEW w \in Hit(f)
  PROVE  w >= (top + 1) * Entries
  <1>1. w = BitmapWord + f \div WordBits
    BY DEF Hit
  <1>2. w >= (last + 1) * Entries
    BY <1>1 DEF BitFallsBehind
  <1>3. PICK k \in Nat : last = top + k
    <2>1. last - top \in Nat /\ last = top + (last - top)
      OBVIOUS
    <2> QED BY <2>1
  <1>4. (last + 1) * Entries = (top + 1) * Entries + k * Entries
    BY <1>3, Sizes
  <1>5. (top + 1) * Entries \in Nat /\ k * Entries \in Nat
    BY Sizes
  <1>6. w \in Nat
    BY <1>1, Sizes, Division
  <1> QED BY <1>2, <1>4, <1>5, <1>6

(* The bits a mapping sets. *)
Maps(want, f) == IF want = Any THEN f \in Memory \cup {LastFrame} ELSE f = want

LEMMA MapPageBits ==
  ASSUME PagingTypeOK, TablesBelow, NEW d \in Dirs, NEW v \in Pages, NEW want \in Nat \cup {Any},
         MapPage(d, v, want), UNCHANGED ram
  PROVE  \/ spoiled' = spoiled /\ DOMAIN pte' = DOMAIN pte
         \/ \E f \in Nat : /\ Maps(want, f)
                           /\ spoiled' \subseteq spoiled \cup Hit(f)
                           /\ spoiled' \cap DOMAIN pte' \subseteq (spoiled \cap DOMAIN pte) \cup Hit(f)
  <1> DEFINE t == Target(d, v)
  <1>1. DOMAIN pte' = DOMAIN pte \cup Words(t)
    BY MapPageEntries
  <1>2. CASE Mapped(d, v)
    <2>1. UNCHANGED <<pte, spoiled>>
      BY <1>2 DEF MapPage
    <2> QED BY <2>1
  <1>3. CASE ~Mapped(d, v)
    <2> DEFINE clean == IF Table(d, v) = NoTable THEN Cleared(t) ELSE spoiled
    <2>1. PICK f \in Memory \cup {LastFrame, want} :
            /\ IF want = Any THEN Allocated(f) /\ Granting(f) /\ UNCHANGED withheld
                             ELSE f = want /\ withheld' = withheld \cup ({f} \cap Memory) /\ UNCHANGED granted
            /\ spoiled' = clean \cup Hit(f)
      BY <1>3 DEF MapPage, Target
    <2>2. f \in Nat /\ Maps(want, f)
      <3>1. Memory \subseteq Nat /\ LastFrame \in Nat
        BY BlocksOfMemory
      <3>2. CASE want = Any
        BY <2>1, <3>1, <3>2, BlocksOfMemory DEF Allocated, Maps
      <3>3. CASE want # Any
        BY <2>1, <3>3 DEF Maps
      <3> QED BY <3>2, <3>3
    <2>3. clean \subseteq spoiled /\ clean \cap (DOMAIN pte \cup Words(t)) \subseteq spoiled \cap DOMAIN pte
      <3>1. CASE Table(d, v) = NoTable
        BY <3>1 DEF Cleared
      <3>2. CASE Table(d, v) # NoTable
        <4>1. Words(t) \subseteq DOMAIN pte
          BY <3>2, TargetWords
        <4> QED BY <3>2, <4>1
      <3> QED BY <3>1, <3>2
    <2> HIDE DEF clean
    <2> QED BY <1>1, <2>1, <2>2, <2>3
  <1> QED BY <1>2, <1>3

-----------------------------------------------------------------------------
(* The directory of the kernel and the tables in use have no spoiled word. *)

DirectoryWords == Words(tmp_heap_0 + 1) \cup Words(tmp_heap_0 + 2)

Missed == spoiled \cap DOMAIN pte = {} /\ spoiled \cap DirectoryWords = {}

LEMMA MissedByMapping ==
  ASSUME PagingInv, PagingInv', Bounded', Missed,
         NEW d \in Dirs, NEW v \in Pages, NEW want \in Nat \cup {Any},
         MapPage(d, v, want), UNCHANGED machine,
         NEW last \in Nat, tmp_heap' <= last,
         \A f \in Nat : Maps(want, f) => Hit(f) = {} \/ BitFallsBehind(f, last)
  PROVE  Missed'
  <1>1. PagingTypeOK /\ TablesBelow /\ ram' = ram
    BY DEF PagingInv, TablesSoFar, machine
  <1>2. CASE spoiled' = spoiled /\ DOMAIN pte' = DOMAIN pte
    <2>1. DirectoryWords' = DirectoryWords
      BY <1>1 DEF DirectoryWords, tmp_heap_0
    <2> QED BY <1>2, <2>1 DEF Missed
  <1>3. ASSUME NEW f \in Nat, Maps(want, f), spoiled' \subseteq spoiled \cup Hit(f),
               spoiled' \cap DOMAIN pte' \subseteq (spoiled \cap DOMAIN pte) \cup Hit(f)
        PROVE  Missed'
    <2>1. DirectoryWords' = DirectoryWords
      BY <1>1 DEF DirectoryWords, tmp_heap_0
    <2> DEFINE T == InUse' \cup {tmp_heap_0 + 1, tmp_heap_0 + 2}
    <2>2. PICK top \in Nat : top = tmp_heap'
      BY DEF PagingInv, PagingTypeOK
    <2>3. \A t \in T : t \in Nat /\ t <= top
      <3>1. ASSUME NEW t \in InUse' PROVE t \in Nat /\ t <= top
        <4>1. PICK e \in Dirs, i \in 0 .. DirSize - 1 : ref_tables'[e][i] = t
          BY <3>1 DEF InUse, Filled
        <4>2. ref_tables'[e][i] <= tmp_heap' /\ ref_tables'[e][i] \in Nat
          BY <4>1 DEF PagingInv, PagingTypeOK, TablesSoFar, TablesBelow
        <4> QED BY <2>2, <4>1, <4>2
      <3>2. tmp_heap_0 \in Nat /\ tmp_heap_0 + 2 <= top
        <4>1. tmp_heap_0' = tmp_heap_0 /\ tmp_heap_0' + 2 <= tmp_heap'
          BY <1>1 DEF Bounded, tmp_heap_0
        <4>2. ram \in Nat
          BY <1>1, PagingAssumption DEF PagingTypeOK
        <4>3. tmp_heap_0 \in Nat
          BY <4>2, BehindBitmapType DEF tmp_heap_0
        <4> QED BY <2>2, <4>1, <4>3
      <3>3. \A t \in {tmp_heap_0 + 1, tmp_heap_0 + 2} : t \in Nat /\ t <= top
        BY <3>2
      <3> QED BY <3>1, <3>3
    <2>4. DOMAIN pte' \cup DirectoryWords = UNION {Words(t) : t \in T}
      <3>1. DOMAIN pte' = UNION {Words(t) : t \in InUse'}
        BY DEF PagingInv, PagingTypeOK
      <3> QED BY <3>1 DEF DirectoryWords
    <2> HIDE DEF T
    <2>5. ASSUME NEW w \in Hit(f), w \in DOMAIN pte' \cup DirectoryWords PROVE FALSE
      <3>1. w \in Nat /\ w < (top + 1) * Entries
        BY <2>3, <2>4, <2>5, WordsAreBelow
      <3>2. BitFallsBehind(f, last) /\ top <= last
        BY <1>3, <2>2, <2>5
      <3>3. w >= (top + 1) * Entries
        BY <2>5, <3>2, BitIsBehind, Zenon
      <3>4. (top + 1) * Entries \in Nat
        BY Sizes
      <3> QED BY <3>1, <3>3, <3>4
    <2>6. spoiled' \cap DOMAIN pte' = {}
      BY <1>3, <2>5 DEF Missed
    <2>7. spoiled' \cap DirectoryWords = {}
      BY <1>3, <2>5 DEF Missed
    <2> QED BY <2>1, <2>6, <2>7 DEF Missed
  <1>4. \/ spoiled' = spoiled /\ DOMAIN pte' = DOMAIN pte
        \/ \E f \in Nat : /\ Maps(want, f)
                          /\ spoiled' \subseteq spoiled \cup Hit(f)
                          /\ spoiled' \cap DOMAIN pte' \subseteq (spoiled \cap DOMAIN pte) \cup Hit(f)
    BY <1>1, MapPageBits
  <1> QED BY <1>2, <1>3, <1>4

LEMMA MissedStep ==
  ASSUME BitsMissTheTables, PagingInv, PagingInv', Bounded', Missed, [PagingNext]_pagingVars
  PROVE  Missed'
  <1> DEFINE most == KernelTablesEnd(ram, lfb) + MaxProcesses * TablesOfProcess
  <1>1. PagingTypeOK /\ nprocs \in 0 .. MaxProcesses /\ (phase \in Booting => nprocs = 0)
        /\ (phase \in {"text", "stack", "load"} => nprocs > 0) /\ ram \in RamSizes /\ lfb \in Lfbs
    BY DEF PagingInv, PagingTypeOK, WhereItIs
  <1>2. ram' = ram /\ lfb' = lfb
    BY DEF PagingNext, MapIdentity, PlaceHeap, MapHeap, MapLfb, CreateProcess, MapText, MapStack,
           LoadCode, pagingVars, machine
  <1>3. /\ KernelTablesEnd(ram, lfb) \in Nat /\ most \in Nat
        /\ nprocs' = 0 => tmp_heap' <= KernelTablesEnd(ram, lfb)
        /\ tmp_heap' <= most
    <2>1. /\ KernelTablesEnd(ram, lfb) \in Nat
          /\ nprocs' = 0 => tmp_heap' <= KernelTablesEnd(ram, lfb)
          /\ tmp_heap' <= most
      BY <1>2 DEF Bounded
    <2>2. MaxProcesses * TablesOfProcess \in Nat
      BY OneOrTwo, Sizes
    <2> QED BY <2>1, <2>2
  <1>4. BitFallsBehind(LastFrame, most)
    BY <1>1 DEF BitsMissTheTables
  <1>5. ASSUME NEW f \in Nat, Maps(Any, f) PROVE Hit(f) = {} \/ BitFallsBehind(f, most)
    BY <1>1, <1>4, <1>5, BlocksOfMemory DEF Maps
  <1> HIDE DEF most
  <1>6. Any \in Nat \cup {Any}
    OBVIOUS
  <1>7. CASE MapIdentity
    <2>1. /\ phase = "identity" /\ MapPage(kpage_dir, BASE + at, at) /\ UNCHANGED machine
      BY <1>7 DEF MapIdentity
    <2>2. at \in Nat /\ at < KernelMap
      BY <2>1 DEF PagingInv, PagingTypeOK, WhereItIs
    <2>3. BASE + at \in Pages /\ kpage_dir \in Dirs
      BY <1>1, <2>2, KernelPages DEF Dirs
    <2>4. at \in Memory
      BY <1>1, <2>2, Sizes, PagingAssumption DEF Memory
    <2>5. ASSUME NEW f \in Nat, Maps(at, f) PROVE Hit(f) = {} \/ BitFallsBehind(f, most)
      <3>1. f = at
        BY <2>2, <2>5 DEF Maps, Any
      <3> QED BY <1>1, <2>4, <3>1, BlocksOfMemory
    <2> QED BY <1>3, <2>1, <2>2, <2>3, <2>5, MissedByMapping
  <1>8. CASE MapHeap
    <2>1. /\ phase = "heap" /\ MapPage(kpage_dir, BASE + heap_start + at, Any) /\ UNCHANGED machine
      BY <1>8 DEF MapHeap
    <2>2. at \in Nat /\ at < HeapPages /\ heap_start = HeapStart
      BY <2>1 DEF PagingInv, PagingTypeOK, WhereItIs
    <2>3. BASE + heap_start + at \in Pages /\ kpage_dir \in Dirs
      BY <1>1, <2>2, KernelPages DEF Dirs
    <2> QED BY <1>3, <1>5, <1>6, <2>1, <2>3, MissedByMapping
  <1>9. CASE MapLfb
    <2> DEFINE page == lfb.base + at
    <2>1. /\ phase = "lfb" /\ MapPage(kpage_dir, page, page) /\ UNCHANGED <<machine, nprocs>>
          /\ nprocs' = 0
      BY <1>1, <1>9 DEF MapLfb, Booting
    <2>2. at \in Nat /\ at < lfb.length /\ lfb.base \in Nat /\ lfb.length \in Nat
      BY <1>1, <2>1, PagingAssumption DEF PagingInv, PagingTypeOK, WhereItIs
    <2>3. page \in Pages /\ kpage_dir \in Dirs /\ page \in Nat
          /\ page \in lfb.base .. lfb.base + lfb.length - 1
      BY <1>1, <2>2, KernelPages DEF Dirs
    <2>4. BitFallsBehind(page, KernelTablesEnd(ram, lfb))
      BY <1>1, <2>3 DEF BitsMissTheTables
    <2>5. page # Any
      BY <2>3 DEF Any
    <2> HIDE DEF page
    <2>6. ASSUME NEW f \in Nat, Maps(page, f)
          PROVE  Hit(f) = {} \/ BitFallsBehind(f, KernelTablesEnd(ram, lfb))
      BY <2>4, <2>5, <2>6 DEF Maps
    <2>7. PICK last \in Nat : last = KernelTablesEnd(ram, lfb)
      BY <1>3
    <2>8. tmp_heap' <= last
      BY <1>3, <2>1, <2>7
    <2>9. \A f \in Nat : Maps(page, f) => Hit(f) = {} \/ BitFallsBehind(f, last)
      BY <2>6, <2>7
    <2> QED BY <2>1, <2>3, <2>8, <2>9, MissedByMapping
  <1>10. CASE MapText
    <2>1. phase = "text" /\ MapPage(nprocs, 0, Any) /\ UNCHANGED machine
      BY <1>10 DEF MapText
    <2>2. 0 \in Pages /\ nprocs \in Dirs
      BY <1>1, FirstPage DEF Dirs, Processes, kpage_dir
    <2> QED BY <1>3, <1>5, <1>6, <2>1, <2>2, MissedByMapping
  <1>11. CASE MapStack
    <2> DEFINE top == length \div 4096 + 1
    <2>1. MapPage(nprocs, top, Any) /\ UNCHANGED machine
      BY <1>11 DEF MapStack
    <2>2. top \in Pages /\ nprocs \in Dirs
      BY <1>1, ProcessPages DEF Dirs, Processes, kpage_dir
    <2> HIDE DEF top
    <2> QED BY <1>3, <1>5, <1>6, <2>1, <2>2, MissedByMapping
  <1>12. CASE UNCHANGED <<spoiled, pte>>
    <2>1. DirectoryWords' = DirectoryWords
      BY <1>2 DEF DirectoryWords, tmp_heap_0
    <2> QED BY <1>12, <2>1 DEF Missed
  <1>13. CASE PlaceHeap \/ CreateProcess \/ LoadCode \/ UNCHANGED pagingVars
    <2>1. CASE PlaceHeap
      BY <1>12, <2>1 DEF PlaceHeap, tables
    <2>2. CASE CreateProcess
      BY <1>12, <2>2 DEF CreateProcess
    <2>3. CASE LoadCode
      BY <1>12, <2>3 DEF LoadCode, tables
    <2>4. CASE UNCHANGED pagingVars
      BY <1>12, <2>4 DEF pagingVars, tables
    <2> QED BY <1>13, <2>1, <2>2, <2>3, <2>4
  <1> QED BY <1>7, <1>8, <1>9, <1>10, <1>11, <1>13 DEF PagingNext

(* A word behind the bitmap that is written to belongs neither to the      *)
(* directory nor to a table in use, and no table lies in the heap unless   *)
(* the log has said so, for every memory and every frame buffer whose bits *)
(* miss the kernel's tables (pmm.c:25, paging.c:29).                       *)
THEOREM TablesAreKept ==
  ASSUME BitsMissTheTables
  PROVE  PagingSpec => []TablesKeepTheirMemory
  <1>1. PagingInit => Missed
    BY DEF PagingInit, Missed
  <1>2. PagingInv /\ PagingInv' /\ Bounded' /\ Missed /\ [PagingNext]_pagingVars => Missed'
    BY MissedStep
  <1>3. PagingInv /\ Missed /\ TablesBelowTheHeap => TablesKeepTheirMemory
    <2> SUFFICES ASSUME PagingInv, Missed, TablesBelowTheHeap PROVE TablesKeepTheirMemory
      OBVIOUS
    <2>1. DOMAIN pte = UNION {Words(t) : t \in InUse}
      BY DEF PagingInv, PagingTypeOK
    <2>2. UNION {Words(t) : t \in InUse \cup {tmp_heap_0 + 1, tmp_heap_0 + 2}}
            = DOMAIN pte \cup DirectoryWords
      BY <2>1 DEF DirectoryWords
    <2>3. spoiled \cap (DOMAIN pte \cup DirectoryWords) = {}
      BY DEF Missed
    <2> QED BY <2>2, <2>3 DEF TablesKeepTheirMemory, TablesBelowTheHeap
  <1>4. PagingInv /\ Counted /\ [PagingNext]_pagingVars => Counted'
    BY CountedStep
  <1> QED BY <1>1, <1>2, <1>3, <1>4, PagingInvariant, CountedInit, CountedIsBounded,
             TablesStayBelowTheHeap, PTL DEF PagingSpec
=============================================================================
