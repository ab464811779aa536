----------------------------- MODULE LibcProofs -----------------------------
(***************************************************************************)
(* Theorems about libc: what its loops compute, for memories and strings   *)
(* of every size, for every number, base and format.                       *)
(***************************************************************************)
EXTENDS Libc, SequenceTheorems, WellFoundedInduction, TLAPS

LEMMA Induction ==
  ASSUME NEW S, 0 \in S, \A n \in Nat : n \in S => n + 1 \in S
  PROVE  Nat \subseteq S
  <1> SUFFICES ASSUME Nat \ S # {} PROVE FALSE
    OBVIOUS
  <1>1. IsWellFoundedOn(OpToRel(<, Nat), Nat)
    BY NatLessThanWellFounded
  <1>2. PICK x \in Nat \ S : \A y \in Nat \ S : ~ (<<y, x>> \in OpToRel(<, Nat))
    BY <1>1, WFMin
  <1>3. \A y \in Nat \ S : ~ (y < x)
    BY <1>2 DEF OpToRel
  <1>4. x # 0 /\ x - 1 \in Nat /\ x - 1 < x /\ x = (x - 1) + 1
    OBVIOUS
  <1>5. x - 1 \in S
    BY <1>3, <1>4
  <1> QED BY <1>4, <1>5

\* f has at d a given value, or one made of the value at back[d], which has a lower rank
Solves(f, D, start, step, back) ==
  \A d \in D : f[d] = IF back[d] = d THEN start[d] ELSE step[d][f[back[d]]]
Descends(D, back, rank, N) ==
  \A d \in D : rank[d] <= N /\ (back[d] # d => rank[back[d]] < rank[d])

(* What a loop or a recursion computes exists.                             *)
LEMMA Recursion ==
  ASSUME NEW D, NEW V, NEW start \in [D -> V], NEW step \in [D -> [V -> V]],
         NEW back \in [D -> D], NEW rank \in [D -> Nat], NEW N \in Nat,
         Descends(D, back, rank, N)
  PROVE  \E f \in [D -> V] : Solves(f, D, start, step, back)
  <1> DEFINE Value(f, d)   == IF back[d] = d THEN start[d] ELSE step[d][f[back[d]]]
             Upto(f, k) == \A d \in D : rank[d] < k => f[d] = Value(f, d)
             S == {k \in Nat : \E f \in [D -> V] : Upto(f, k)}
  <1>1. 0 \in S
    <2>1. \A d \in D : ~ (rank[d] < 0)
      OBVIOUS
    <2>2. start \in [D -> V] /\ Upto(start, 0)
      BY <2>1
    <2> QED BY <2>2
  <1>2. ASSUME NEW k \in Nat, k \in S PROVE k + 1 \in S
    <2>1. PICK f \in [D -> V] : Upto(f, k)
      BY <1>2
    <2> DEFINE g == [d \in D |-> Value(f, d)]
    <2>2. g \in [D -> V]
      OBVIOUS
    <2>3. ASSUME NEW d \in D, rank[d] < k + 1 PROVE g[d] = Value(g, d)
      <3>1. CASE back[d] = d
        BY <3>1
      <3>2. CASE back[d] # d
        <4>1. back[d] \in D /\ rank[back[d]] < k
          <5>1. back[d] \in D /\ rank[back[d]] \in Nat /\ rank[d] \in Nat /\ rank[back[d]] < rank[d]
            BY <3>2 DEF Descends
          <5> QED BY <5>1, <2>3
        <4>2. f[back[d]] = g[back[d]]
          BY <4>1, <2>1
        <4> QED BY <3>2, <4>2
      <3> QED BY <3>1, <3>2
    <2>4. Upto(g, k + 1)
      BY <2>3
    <2> HIDE DEF g, Upto
    <2> QED BY <2>2, <2>4
  <1> HIDE DEF S
  <1>3. N + 1 \in S
    BY <1>1, <1>2, Induction
  <1>4. PICK f \in [D -> V] : Upto(f, N + 1)
    BY <1>3 DEF S
  <1>5. \A d \in D : rank[d] < N + 1
    BY DEF Descends
  <1> QED BY <1>4, <1>5 DEF Solves

\* the values a loop takes, turn by turn: op[k] is what turn k does
Turning(f, first, op, n) == f[0] = first /\ \A k \in 1 .. n : f[k] = op[k][f[k - 1]]

LEMMA Turns ==
  ASSUME NEW n \in Nat, NEW V, NEW first \in V, NEW op \in [1 .. n -> [V -> V]]
  PROVE  \E f \in [0 .. n -> V] : Turning(f, first, op, n)
  <1> DEFINE D     == 0 .. n
             start == [d \in D |-> first]
             step  == [d \in D |-> IF d = 0 THEN [v \in V |-> v] ELSE op[d]]
             back  == [d \in D |-> IF d = 0 THEN 0 ELSE d - 1]
             rank  == [d \in D |-> d]
  <1>1. start \in [D -> V] /\ step \in [D -> [V -> V]] /\ back \in [D -> D] /\ rank \in [D -> Nat]
    OBVIOUS
  <1>2. Descends(D, back, rank, n)
    BY DEF Descends
  <1>3. PICK f \in [D -> V] : Solves(f, D, start, step, back)
    <2> HIDE DEF D, start, step, back, rank
    <2> QED BY <1>1, <1>2, Recursion
  <1>4. f[0] = first
    <2>1. 0 \in D /\ back[0] = 0 /\ start[0] = first
      OBVIOUS
    <2>2. f[0] = IF back[0] = 0 THEN start[0] ELSE step[0][f[back[0]]]
      BY <1>3, <2>1 DEF Solves
    <2> QED BY <2>1, <2>2
  <1>5. ASSUME NEW k \in 1 .. n PROVE f[k] = op[k][f[k - 1]]
    <2>1. k \in D /\ back[k] = k - 1 /\ k - 1 # k /\ step[k] = op[k]
      OBVIOUS
    <2>2. f[k] = IF back[k] = k THEN start[k] ELSE step[k][f[back[k]]]
      BY <1>3, <2>1 DEF Solves
    <2> QED BY <2>1, <2>2
  <1> QED BY <1>4, <1>5 DEF Turning

\* two loops that start alike and do alike in every turn
Alike(f, g, n) == f[0] = g[0] /\ \A k \in 1 .. n : f[k - 1] = g[k - 1] => f[k] = g[k]

LEMMA SameTurns ==
  ASSUME NEW n \in Nat, NEW f, NEW g, Alike(f, g, n)
  PROVE  \A k \in 0 .. n : f[k] = g[k]
  <1> DEFINE S == {k \in Nat : k <= n => f[k] = g[k]}
  <1>1. 0 \in S
    BY DEF Alike
  <1>2. ASSUME NEW k \in Nat, k \in S PROVE k + 1 \in S
    <2> SUFFICES ASSUME k + 1 <= n PROVE f[k + 1] = g[k + 1]
      OBVIOUS
    <2>1. k + 1 \in 1 .. n /\ (k + 1) - 1 = k /\ f[k] = g[k]
      BY <1>2
    <2> QED BY <2>1 DEF Alike
  <1> HIDE DEF S
  <1>3. Nat \subseteq S
    BY <1>1, <1>2, Induction
  <1> QED BY <1>3 DEF S

-----------------------------------------------------------------------------
(* Copying and filling.                                                    *)

\* mem is the memory after each turn of a copying loop that starts with m
Copying(mem, m, dst, src, order, n) ==
  /\ mem[0] = m
  /\ \A k \in 1 .. n : mem[k] = CopyByte(mem[k - 1], dst, src, order[k])

\* and what the loop leaves is the last of them
CopyLoop(mem, A, B, m, dst, src, order, n) ==
  /\ mem \in [0 .. n -> [A -> B]]
  /\ Copying(mem, m, dst, src, order, n)
  /\ CopiedInOrder(m, dst, src, order) = mem[n]

\* the bytes that are copied lie in the memory
Inside(A, src, order, n) == \A k \in 1 .. n : src + order[k] \in A

LEMMA CopyTurns ==
  ASSUME NEW A \in SUBSET Int, NEW B, NEW m \in [A -> B], NEW dst \in Int, NEW src \in Int, NEW order, NEW n \in Nat,
         Len(order) = n, Inside(A, src, order, n)
  PROVE  \E mem : CopyLoop(mem, A, B, m, dst, src, order, n)
  <1> DEFINE op == [k \in 1 .. n |-> [v \in [A -> B] |-> CopyByte(v, dst, src, order[k])]]
             c  == CHOOSE g : g = [k \in 0 .. n |->
                                     IF k = 0 THEN m ELSE CopyByte(g[k - 1], dst, src, order[k])]
  <1>1. op \in [1 .. n -> [[A -> B] -> [A -> B]]]
    BY DEF CopyByte, Store, Inside
  <1>2. PICK f \in [0 .. n -> [A -> B]] : Turning(f, m, op, n)
    <2> HIDE DEF op
    <2> QED BY <1>1, Turns
  <1>3. ASSUME NEW k \in 1 .. n PROVE f[k] = CopyByte(f[k - 1], dst, src, order[k])
    <2>1. f[k - 1] \in [A -> B]
      BY k - 1 \in 0 .. n
    <2> QED BY <1>2, <2>1 DEF Turning
  <1>4. f = [k \in 0 .. n |-> IF k = 0 THEN m ELSE CopyByte(f[k - 1], dst, src, order[k])]
    <2>1. ASSUME NEW k \in 0 .. n
          PROVE  f[k] = IF k = 0 THEN m ELSE CopyByte(f[k - 1], dst, src, order[k])
      <3>1. k = 0 \/ k \in 1 .. n
        OBVIOUS
      <3> QED BY <1>2, <1>3, <3>1 DEF Turning
    <2> QED BY <2>1
  <1>5. c = [k \in 0 .. n |-> IF k = 0 THEN m ELSE CopyByte(c[k - 1], dst, src, order[k])]
    BY <1>4
  <1>6. c[n] = CopiedInOrder(m, dst, src, order)
    BY DEF CopiedInOrder
  <1> HIDE DEF op, c
  <1>7. c[0] = f[0] /\ f[0] = m
    BY <1>2, <1>5 DEF Turning
  <1>8. ASSUME NEW k \in 1 .. n, c[k - 1] = f[k - 1] PROVE c[k] = f[k]
    <2>1. k \in 0 .. n /\ k # 0
      OBVIOUS
    <2>2. c[k] = CopyByte(c[k - 1], dst, src, order[k])
      BY <1>5, <2>1
    <2> QED BY <1>3, <1>8, <2>2
  <1>9. c[n] = f[n]
    <2>1. Alike(c, f, n)
      BY <1>7, <1>8 DEF Alike
    <2> QED BY <2>1, SameTurns
  <1>10. Copying(f, m, dst, src, order, n)
    BY <1>3, <1>7 DEF Copying, CopyLoop
  <1> QED BY <1>6, <1>9, <1>10 DEF CopyLoop

\* m, where the addresses in places hold the bytes the copy brings there
Partly(m, dst, src, places) ==
  [a \in DOMAIN m |-> IF a \in places THEN m[a - dst + src] ELSE m[a]]

\* a turn adds to the places, and reads a byte that is still the source's
Adds(A, dst, src, i, places, more) ==
  src + i \in A /\ src + i \notin places /\ more = places \cup {dst + i}

LEMMA CopyOneMore ==
  ASSUME NEW A \in SUBSET Int, NEW B, NEW m \in [A -> B], NEW dst \in Int, NEW src \in Int,
         NEW i \in Int, NEW places, NEW more, Adds(A, dst, src, i, places, more), NEW mem, mem = Partly(m, dst, src, places)
  PROVE  CopyByte(mem, dst, src, i) = Partly(m, dst, src, more)
  <1>1. (dst + i) - dst + src = src + i
    OBVIOUS
  <1>2. mem[src + i] = m[src + i]
    BY DEF Partly, Adds
  <1>3. DOMAIN mem = A
    BY DEF Partly
  <1> QED BY <1>1, <1>2, <1>3 DEF Partly, Adds, CopyByte, Store

LEMMA StepsCount ==
  ASSUME NEW n \in Nat
  PROVE  /\ Len(Steps(n)) = n /\ \A k \in 1 .. n : Steps(n)[k] = k - 1
         /\ Len(Reverse(Steps(n))) = n /\ \A k \in 1 .. n : Reverse(Steps(n))[k] = n - k
  <1>1. Steps(n) \in Seq(Int) /\ Len(Steps(n)) = n /\ \A k \in 1 .. n : Steps(n)[k] = k - 1
    BY DEF Steps
  <1>2. Reverse(Steps(n)) = [k \in 1 .. n |-> Steps(n)[(n - k) + 1]]
    BY <1>1 DEF Reverse
  <1>3. ASSUME NEW k \in 1 .. n PROVE Steps(n)[(n - k) + 1] = n - k
    <2>1. (n - k) + 1 \in 1 .. n
      OBVIOUS
    <2> QED BY <1>1, <2>1
  <1>4. Reverse(Steps(n)) = [k \in 1 .. n |-> n - k]
    BY <1>2, <1>3
  <1>5. [k \in 1 .. n |-> n - k] \in Seq(Int) /\ Len([k \in 1 .. n |-> n - k]) = n
    OBVIOUS
  <1> QED BY <1>1, <1>4, <1>5

\* where the copy goes; the source lies in the memory; and the copy overwrites some of it before it is read
Target(dst, size) == dst .. dst + size - 1
Holds(A, src, size) == \A i \in 0 .. size - 1 : src + i \in A
Overtakes(dst, src, size) == dst \in src + 1 .. src + size - 1

(* Upwards, a copy is right unless it overwrites a byte before it is read. *)
LEMMA CopyUpwards ==
  ASSUME NEW A \in SUBSET Int, NEW B, NEW m \in [A -> B], NEW dst \in Int, NEW src \in Int,
         NEW size \in Nat, Holds(A, src, size), ~ Overtakes(dst, src, size)
  PROVE  CopiedUp(m, dst, src, size) = Partly(m, dst, src, Target(dst, size))
  <1> DEFINE order == Steps(size)
  <1>1. Len(order) = size /\ \A k \in 1 .. size : order[k] = k - 1
    BY StepsCount
  <1> HIDE DEF order
  <1>2. PICK mem : CopyLoop(mem, A, B, m, dst, src, order, size)
    <2>1. ASSUME NEW k \in 1 .. size PROVE src + order[k] \in A
      <3>1. order[k] \in 0 .. size - 1
        BY <1>1
      <3> QED BY <3>1 DEF Holds
    <2>2. Inside(A, src, order, size)
      BY <2>1 DEF Inside
    <2>3. Len(order) = size
      BY <1>1
    <2> QED BY <2>2, <2>3, CopyTurns
  <1> DEFINE Done(k) == dst .. dst + k - 1
             S == {k \in Nat : k <= size => mem[k] = Partly(m, dst, src, Done(k))}
  <1>3. 0 \in S
    <2>1. Done(0) = {}
      OBVIOUS
    <2>2. Partly(m, dst, src, {}) = m
      BY DEF Partly
    <2> QED BY <1>2, <2>1, <2>2 DEF Copying, CopyLoop
  <1>4. ASSUME NEW k \in Nat, k \in S PROVE k + 1 \in S
    <2> SUFFICES ASSUME k + 1 <= size
                 PROVE  mem[k + 1] = Partly(m, dst, src, Done(k + 1))
      OBVIOUS
    <2>1. mem[k] = Partly(m, dst, src, Done(k))
      BY <1>4
    <2>2. k + 1 \in 1 .. size /\ (k + 1) - 1 = k /\ order[k + 1] = k
      BY <1>1
    <2>3. mem[k + 1] = CopyByte(mem[k], dst, src, k)
      BY <1>2, <2>2 DEF Copying, CopyLoop
    <2>4. src + k \in A /\ src + k \notin Done(k)
      BY DEF Holds, Overtakes
    <2>5. Done(k + 1) = Done(k) \cup {dst + k}
      OBVIOUS
    <2> HIDE DEF Done
    <2>6. Adds(A, dst, src, k, Done(k), Done(k + 1))
      BY <2>4, <2>5 DEF Adds
    <2>7. CopyByte(mem[k], dst, src, k) = Partly(m, dst, src, Done(k + 1))
      BY <2>1, <2>6, CopyOneMore
    <2> QED BY <2>3, <2>7
  <1> HIDE DEF S
  <1>5. size \in S
    BY <1>3, <1>4, Induction
  <1>6. Done(size) = Target(dst, size)
    BY DEF Target
  <1> QED BY <1>2, <1>5, <1>6 DEF S, CopiedUp, order, CopyLoop

(* Downwards, it is right when it goes upwards in memory, or to its place. *)
LEMMA CopyDownwards ==
  ASSUME NEW A \in SUBSET Int, NEW B, NEW m \in [A -> B], NEW dst \in Int, NEW src \in Int,
         NEW size \in Nat, Holds(A, src, size), src <= dst
  PROVE  CopiedDown(m, dst, src, size) = Partly(m, dst, src, Target(dst, size))
  <1> DEFINE order == Reverse(Steps(size))
  <1>1. Len(order) = size /\ \A k \in 1 .. size : order[k] = size - k
    BY StepsCount
  <1> HIDE DEF order
  <1>2. PICK mem : CopyLoop(mem, A, B, m, dst, src, order, size)
    <2>1. ASSUME NEW k \in 1 .. size PROVE src + order[k] \in A
      <3>1. order[k] \in 0 .. size - 1
        BY <1>1
      <3> QED BY <3>1 DEF Holds
    <2>2. Inside(A, src, order, size)
      BY <2>1 DEF Inside
    <2>3. Len(order) = size
      BY <1>1
    <2> QED BY <2>2, <2>3, CopyTurns
  <1> DEFINE Done(k) == dst + size - k .. dst + size - 1
             S == {k \in Nat : k <= size => mem[k] = Partly(m, dst, src, Done(k))}
  <1>3. 0 \in S
    <2>1. Done(0) = {}
      OBVIOUS
    <2>2. Partly(m, dst, src, {}) = m
      BY DEF Partly
    <2> QED BY <1>2, <2>1, <2>2 DEF Copying, CopyLoop
  <1>4. ASSUME NEW k \in Nat, k \in S PROVE k + 1 \in S
    <2> SUFFICES ASSUME k + 1 <= size
                 PROVE  mem[k + 1] = Partly(m, dst, src, Done(k + 1))
      OBVIOUS
    <2>1. mem[k] = Partly(m, dst, src, Done(k))
      BY <1>4
    <2> DEFINE i == size - (k + 1)
    <2>2. k + 1 \in 1 .. size /\ (k + 1) - 1 = k /\ order[k + 1] = i /\ i \in 0 .. size - 1
      BY <1>1
    <2>3. mem[k + 1] = CopyByte(mem[k], dst, src, i)
      BY <1>2, <2>2 DEF Copying, CopyLoop
    <2>4. src + i \in A /\ src + i \notin Done(k)
      BY <2>2 DEF Holds
    <2>5. Done(k + 1) = Done(k) \cup {dst + i}
      OBVIOUS
    <2> HIDE DEF Done, i
    <2>6. i \in Int
      BY <2>2
    <2>7. Adds(A, dst, src, i, Done(k), Done(k + 1))
      BY <2>4, <2>5 DEF Adds
    <2>8. CopyByte(mem[k], dst, src, i) = Partly(m, dst, src, Done(k + 1))
      BY <2>1, <2>6, <2>7, CopyOneMore
    <2> QED BY <2>3, <2>8
  <1> HIDE DEF S
  <1>5. size \in S
    BY <1>3, <1>4, Induction
  <1>6. Done(size) = Target(dst, size)
    BY DEF Target
  <1> QED BY <1>2, <1>5, <1>6 DEF S, CopiedDown, order, CopyLoop

\* mem is the memory after each turn of memset's loop, and memset leaves the last
FillLoop(mem, m, dest, value, count) ==
  /\ mem[0] = m
  /\ \A k \in 1 .. count : mem[k] = Store(mem[k - 1], dest + k - 1, value % 256)
  /\ memset(m, dest, value, count) = mem[count]

LEMMA FillTurns ==
  ASSUME NEW A \in SUBSET Int, NEW B, NEW m \in [A -> B], NEW dest \in Int, NEW value \in Int,
         NEW count \in Nat
  PROVE  \E mem : FillLoop(mem, m, dest, value, count)
  <1> DEFINE byte == value % 256
             V    == [A -> B \cup {byte}]
             op   == [k \in 1 .. count |-> [v \in V |-> Store(v, dest + k - 1, byte)]]
             c    == CHOOSE g : g = [k \in 0 .. count |->
                                       IF k = 0 THEN m ELSE Store(g[k - 1], dest + k - 1, byte)]
  <1>1. op \in [1 .. count -> [V -> V]] /\ m \in V
    BY DEF Store
  <1>2. PICK f \in [0 .. count -> V] : Turning(f, m, op, count)
    <2> HIDE DEF op, V
    <2> QED BY <1>1, Turns
  <1>3. ASSUME NEW k \in 1 .. count PROVE f[k] = Store(f[k - 1], dest + k - 1, byte)
    <2>1. f[k - 1] \in V
      BY k - 1 \in 0 .. count
    <2> QED BY <1>2, <2>1 DEF Turning
  <1>4. f = [k \in 0 .. count |-> IF k = 0 THEN m ELSE Store(f[k - 1], dest + k - 1, byte)]
    <2>1. ASSUME NEW k \in 0 .. count
          PROVE  f[k] = IF k = 0 THEN m ELSE Store(f[k - 1], dest + k - 1, byte)
      <3>1. k = 0 \/ k \in 1 .. count
        OBVIOUS
      <3> QED BY <1>2, <1>3, <3>1 DEF Turning
    <2> QED BY <2>1
  <1>5. c = [k \in 0 .. count |-> IF k = 0 THEN m ELSE Store(c[k - 1], dest + k - 1, byte)]
    BY <1>4, Zenon
  <1>6. c[count] = memset(m, dest, value, count)
    BY DEF memset
  <1> HIDE DEF c, op, V, byte
  <1>7. ASSUME NEW k \in 1 .. count PROVE c[k] = Store(c[k - 1], dest + k - 1, byte)
    <2>1. k \in 0 .. count /\ k # 0
      OBVIOUS
    <2> QED BY <1>5, <2>1
  <1> QED BY <1>5, <1>6, <1>7 DEF FillLoop, byte

LEMMA FillsItsBytes ==
  ASSUME NEW A \in SUBSET Int, NEW B, NEW m \in [A -> B], NEW dest \in Int, NEW value \in Int,
         NEW count \in Nat
  PROVE  memset(m, dest, value, count) =
           [a \in A |-> IF a \in dest .. dest + count - 1 THEN value % 256 ELSE m[a]]
  <1> DEFINE Filled(k) == [a \in A |-> IF a \in dest .. dest + k - 1 THEN value % 256 ELSE m[a]]
  <1>1. PICK mem : FillLoop(mem, m, dest, value, count)
    BY FillTurns
  <1> DEFINE S == {k \in Nat : k <= count => mem[k] = Filled(k)}
  <1>2. 0 \in S
    <2>1. \A a \in A : a \notin dest .. dest + 0 - 1
      OBVIOUS
    <2>2. Filled(0) = m
      BY <2>1
    <2> QED BY <1>1, <2>2 DEF FillLoop
  <1>3. ASSUME NEW k \in Nat, k \in S PROVE k + 1 \in S
    <2> SUFFICES ASSUME k + 1 <= count PROVE mem[k + 1] = Filled(k + 1)
      <3> HIDE DEF Filled
      <3> QED OBVIOUS
    <2>1. mem[k] = Filled(k)
      BY <1>3
    <2>2. k + 1 \in 1 .. count /\ (k + 1) - 1 = k /\ dest + (k + 1) - 1 = dest + k
      OBVIOUS
    <2>3. mem[k + 1] = Store(Filled(k), dest + k, value % 256)
      BY <1>1, <2>1, <2>2 DEF FillLoop
    <2>4. \A a \in A : a \in dest .. dest + (k + 1) - 1 <=> a \in dest .. dest + k - 1 \/ a = dest + k
      OBVIOUS
    <2> QED BY <2>3, <2>4 DEF Store
  <1> HIDE DEF S
  <1>4. count \in S
    BY <1>2, <1>3, Induction
  <1> QED BY <1>1, <1>4 DEF S, FillLoop

-----------------------------------------------------------------------------
(* Comparing.                                                              *)

LEMMA MinIsLeast ==
  ASSUME NEW I \in SUBSET Nat, I # {}
  PROVE  Min(I) \in I /\ \A y \in I : Min(I) <= y
  <1>1. PICK x \in I : \A y \in I : ~ (<<y, x>> \in OpToRel(<, Nat))
    BY NatLessThanWellFounded, WFMin
  <1>2. \A y \in I : ~ (y < x)
    BY <1>1 DEF OpToRel
  <1>3. \A y \in I : x <= y
    BY <1>2
  <1> QED BY <1>3 DEF Min

(* Differ is the first place where two strings differ.                     *)
LEMMA FirstDifference ==
  ASSUME NEW s, NEW t, NEW last \in Int, last >= -1
  PROVE  /\ Differ(s, t, last) \in 0 .. last + 1
         /\ \A k \in 0 .. Differ(s, t, last) - 1 : At(s, k) = At(t, k)
         /\ Differ(s, t, last) <= last =>
              At(s, Differ(s, t, last)) # At(t, Differ(s, t, last))
  <1> DEFINE n == last + 1
             I == {i \in 1 .. Len(Steps(n)) : At(s, Steps(n)[i]) # At(t, Steps(n)[i])}
             J == {i \in 1 .. n : At(s, i - 1) # At(t, i - 1)}
             d == IF J # {} THEN Min(J) ELSE 0
  <1>1. n \in Nat
    OBVIOUS
  <1>2. Len(Steps(n)) = n /\ \A i \in 1 .. n : Steps(n)[i] = i - 1
    BY <1>1, StepsCount
  <1>3. I = J
    BY <1>2
  <1>4. Differ(s, t, last) = IF d = 0 THEN last + 1 ELSE d - 1
    <2>1. SelectInSeq(Steps(n), LAMBDA k : At(s, k) # At(t, k)) = IF I # {} THEN Min(I) ELSE 0
      BY DEF SelectInSeq
    <2> QED BY <2>1, <1>3 DEF Differ
  <1> HIDE DEF I
  <1>5. CASE J = {}
    <2>1. Differ(s, t, last) = n
      BY <1>4, <1>5
    <2>2. ASSUME NEW k \in 0 .. last PROVE At(s, k) = At(t, k)
      <3>1. k + 1 \in 1 .. n /\ (k + 1) - 1 = k
        OBVIOUS
      <3> QED BY <1>5, <3>1
    <2> QED BY <1>1, <2>1, <2>2
  <1>6. CASE J # {}
    <2>1. Min(J) \in J /\ \A y \in J : Min(J) <= y
      <3>1. J \in SUBSET Nat
        OBVIOUS
      <3> HIDE DEF J
      <3> QED BY <1>6, <3>1, MinIsLeast
    <2>2. PICK x : x = Min(J)
      OBVIOUS
    <2>3. x \in 1 .. n /\ At(s, x - 1) # At(t, x - 1)
      BY <2>1, <2>2
    <2>4. Differ(s, t, last) = x - 1
      BY <1>4, <1>6, <2>2, <2>3
    <2>5. ASSUME NEW k \in 0 .. x - 2 PROVE At(s, k) = At(t, k)
      <3>1. k + 1 \in 1 .. n /\ (k + 1) - 1 = k /\ ~ (x <= k + 1)
        BY <2>3
      <3>2. k + 1 \notin J
        BY <2>1, <2>2, <3>1
      <3> QED BY <3>1, <3>2
    <2> QED BY <2>3, <2>4, <2>5
  <1> QED BY <1>5, <1>6

Text == Seq(1 .. 255)

LEMMA TextIs ==
  ASSUME NEW s \in Text
  PROVE  Len(s) \in Nat /\ DOMAIN s = 1 .. Len(s) /\ \A k \in 1 .. Len(s) : s[k] \in 1 .. 255
  <1>1. PICK X : X = 1 .. 255
    OBVIOUS
  <1>2. s \in Seq(X)
    BY <1>1 DEF Text
  <1>3. Len(s) \in Nat /\ DOMAIN s = 1 .. Len(s) /\ \A k \in 1 .. Len(s) : s[k] \in X
    BY <1>2, LenProperties
  <1> QED BY <1>1, <1>3

LEMMA Characters ==
  ASSUME NEW s \in Text
  PROVE  /\ Len(s) \in Nat /\ DOMAIN s = 1 .. Len(s)
         /\ \A k \in 0 .. Len(s) - 1 : At(s, k) = s[k + 1] /\ At(s, k) \in 1 .. 255
         /\ \A k \in Nat : k >= Len(s) => At(s, k) = 0
  <1>1. Len(s) \in Nat /\ DOMAIN s = 1 .. Len(s) /\ \A k \in 1 .. Len(s) : s[k] \in 1 .. 255
    BY TextIs
  <1>2. ASSUME NEW k \in 0 .. Len(s) - 1 PROVE At(s, k) = s[k + 1] /\ At(s, k) \in 1 .. 255
    <2>1. k < Len(s) /\ k + 1 \in 1 .. Len(s)
      BY <1>1
    <2> QED BY <1>1, <2>1 DEF At
  <1>3. \A k \in Nat : k >= Len(s) => At(s, k) = 0
    BY <1>1 DEF At
  <1> QED BY <1>1, <1>2, <1>3

LEMMA TextsAreEqual ==
  ASSUME NEW s \in Text, NEW t \in Text, Len(s) = Len(t), \A i \in 1 .. Len(s) : s[i] = t[i]
  PROVE  s = t
  BY DEF Text

LEMMA PrefixCharacters ==
  ASSUME NEW s \in Text, NEW t \in Text
  PROVE  IsPrefix(s, t) <=> Len(s) <= Len(t) /\ \A i \in 1 .. Len(s) : s[i] = t[i]
  <1>1. Len(s) \in Nat /\ Len(t) \in Nat
    BY DEF Text
  <1>2. CASE Len(s) <= Len(t)
    <2>1. SubSeq(s, 1, Len(s)) = [i \in 1 .. Len(s) |-> s[i]]
      BY <1>1 DEF Text
    <2>2. SubSeq(t, 1, Len(s)) = [i \in 1 .. Len(s) |-> t[i]]
      BY <1>1, <1>2 DEF Text
    <2> QED BY <1>2, <2>1, <2>2 DEF IsPrefix
  <1>3. CASE ~ (Len(s) <= Len(t))
    BY <1>3 DEF IsPrefix
  <1> QED BY <1>2, <1>3

\* s and t are alike up to the first place where they differ
FirstAt(s, t, k) == At(s, k) # At(t, k) /\ \A j \in 0 .. k - 1 : At(s, j) = At(t, j)

\* before that place neither has ended
LEMMA NeitherHasEnded ==
  ASSUME NEW s \in Text, NEW t \in Text, NEW k \in Nat, FirstAt(s, t, k)
  PROVE  k <= Len(s) /\ k <= Len(t) /\ (k < Len(s) \/ k < Len(t))
  <1>1. /\ Len(s) \in Nat /\ Len(t) \in Nat
        /\ \A j \in Nat : j >= Len(s) => At(s, j) = 0
        /\ \A j \in Nat : j >= Len(t) => At(t, j) = 0
        /\ \A j \in Nat : j < Len(s) => At(s, j) # 0
        /\ \A j \in Nat : j < Len(t) => At(t, j) # 0
    <2>1. ASSUME NEW u \in Text PROVE \A j \in Nat : j < Len(u) => At(u, j) # 0
      <3> SUFFICES ASSUME NEW j \in Nat, j < Len(u) PROVE At(u, j) # 0
        OBVIOUS
      <3>1. j \in 0 .. Len(u) - 1
        BY Characters
      <3>2. PICK x \in 1 .. 255 : x = At(u, j)
        BY <3>1, Characters
      <3>3. x # 0
        OBVIOUS
      <3> QED BY <3>2, <3>3, Zenon
    <2> QED BY <2>1, Characters
  <1>2. \A j \in Nat : j < k => At(s, j) = At(t, j)
    BY DEF FirstAt
  <1>3. At(s, k) # At(t, k)
    BY DEF FirstAt
  <1>4. k <= Len(s)
    <2> SUFFICES ASSUME Len(s) < k PROVE FALSE
      BY <1>1
    <2>1. At(s, Len(s)) = 0 /\ At(t, Len(s)) = 0
      BY <1>1, <1>2
    <2>2. Len(t) <= Len(s)
      BY <1>1, <2>1
    <2>3. At(s, k) = 0 /\ At(t, k) = 0
      BY <1>1, <2>2
    <2> QED BY <1>3, <2>3
  <1>5. k <= Len(t)
    <2> SUFFICES ASSUME Len(t) < k PROVE FALSE
      BY <1>1
    <2>1. At(t, Len(t)) = 0 /\ At(s, Len(t)) = 0
      BY <1>1, <1>2
    <2>2. Len(s) <= Len(t)
      BY <1>1, <2>1
    <2>3. At(s, k) = 0 /\ At(t, k) = 0
      BY <1>1, <2>2
    <2> QED BY <1>3, <2>3
  <1>6. k < Len(s) \/ k < Len(t)
    BY <1>1, <1>3
  <1> QED BY <1>4, <1>5, <1>6

(* The first difference decides which string comes first in a dictionary.  *)
LEMMA DifferenceDecides ==
  ASSUME NEW s \in Text, NEW t \in Text, NEW k \in Nat, FirstAt(s, t, k)
  PROVE  Before(s, t) <=> At(s, k) < At(t, k)
  <1>1. k <= Len(s) /\ k <= Len(t) /\ (k < Len(s) \/ k < Len(t)) /\ Len(s) \in Nat /\ Len(t) \in Nat
    BY NeitherHasEnded, Characters
  <1>2. ASSUME NEW i \in 1 .. k PROVE s[i] = t[i]
    <2>1. i - 1 \in 0 .. Len(s) - 1 /\ i - 1 \in 0 .. Len(t) - 1 /\ i - 1 \in 0 .. k - 1 /\ (i - 1) + 1 = i
      BY <1>1
    <2>2. At(s, i - 1) = s[(i - 1) + 1] /\ At(t, i - 1) = t[(i - 1) + 1]
      BY <2>1, Characters
    <2> QED BY <2>1, <2>2 DEF FirstAt
  <1>3. ASSUME k < Len(s), k < Len(t)
        PROVE  /\ At(s, k) = s[k + 1] /\ At(t, k) = t[k + 1]
               /\ k + 1 \in DOMAIN s /\ k + 1 \in DOMAIN t
               /\ s[k + 1] \in 1 .. 255 /\ t[k + 1] \in 1 .. 255 /\ s[k + 1] # t[k + 1]
    <2>1. k \in 0 .. Len(s) - 1 /\ k \in 0 .. Len(t) - 1
      BY <1>1, <1>3
    <2>2. At(s, k) = s[k + 1] /\ At(t, k) = t[k + 1] /\ At(s, k) \in 1 .. 255 /\ At(t, k) \in 1 .. 255
      BY <2>1, Characters
    <2>3. DOMAIN s = 1 .. Len(s) /\ DOMAIN t = 1 .. Len(t)
      BY Characters
    <2> QED BY <1>1, <1>3, <2>2, <2>3 DEF FirstAt
  <1>4. ASSUME At(s, k) < At(t, k) PROVE Before(s, t)
    <2>1. k < Len(t)
      <3> SUFFICES ASSUME k = Len(t) PROVE FALSE
        BY <1>1
      <3>1. At(t, k) = 0
        BY <1>1, Characters
      <3>2. k \in 0 .. Len(s) - 1
        BY <1>1
      <3>3. PICK x \in 1 .. 255 : x = At(s, k)
        BY <3>2, Characters
      <3>4. x < 0
        BY <1>4, <3>1, <3>3
      <3> QED BY <3>4
    <2>2. CASE k = Len(s)
      <3>1. IsPrefix(s, t)
        BY <1>1, <1>2, <2>2, PrefixCharacters
      <3>2. s # t
        BY <2>1, <2>2
      <3> QED BY <3>1, <3>2 DEF Before, IsStrictPrefix
    <2>3. CASE k < Len(s)
      <3>1. s[k + 1] < t[k + 1] /\ k + 1 \in DOMAIN s \cap DOMAIN t
        BY <1>3, <1>4, <2>1, <2>3
      <3>2. \A j \in 1 .. (k + 1) - 1 : s[j] = t[j]
        BY <1>2
      <3> QED BY <3>1, <3>2 DEF Before
    <2> QED BY <1>1, <2>2, <2>3
  <1>5. ASSUME IsStrictPrefix(s, t) PROVE At(s, k) < At(t, k)
    <2>1. Len(s) <= Len(t) /\ (\A i \in 1 .. Len(s) : s[i] = t[i]) /\ s # t
      BY <1>5, PrefixCharacters DEF IsStrictPrefix
    <2>2. k = Len(s)
      <3> SUFFICES ASSUME k < Len(s) PROVE FALSE
        BY <1>1
      <3>1. k < Len(t) /\ k + 1 \in 1 .. Len(s)
        BY <1>1, <2>1
      <3> QED BY <1>3, <2>1, <3>1
    <2>3. k < Len(t)
      BY <1>1, <2>2
    <2>4. At(s, k) = 0
      BY <2>2, Characters
    <2>5. At(t, k) \in 1 .. 255
      <3>1. k \in 0 .. Len(t) - 1
        BY <1>1, <2>3
      <3> QED BY <3>1, Characters
    <2> QED BY <2>4, <2>5
  <1>6. ASSUME NEW i \in DOMAIN s \cap DOMAIN t, s[i] < t[i], \A j \in 1 .. i - 1 : s[j] = t[j]
        PROVE  At(s, k) < At(t, k)
    <2>1. i \in 1 .. Len(s) /\ i \in 1 .. Len(t) /\ s[i] \in 1 .. 255 /\ t[i] \in 1 .. 255
      BY Characters DEF Text
    <2>2. ~ (i <= k)
      <3>1. PICK x, y \in 1 .. 255 : x = s[i] /\ y = t[i]
        BY <2>1
      <3>2. x < y
        BY <1>6, <3>1
      <3>3. s[i] # t[i]
        BY <3>1, <3>2
      <3> QED BY <1>1, <1>2, <2>1, <3>3
    <2>3. k < Len(s) /\ k < Len(t)
      BY <1>1, <2>1, <2>2
    <2>4. i = k + 1
      <3>1. ~ (k + 1 \in 1 .. i - 1)
        BY <1>3, <1>6, <2>3
      <3> QED BY <2>1, <2>2, <3>1
    <2> QED BY <1>3, <1>6, <2>3, <2>4
  <1>7. Before(s, t) => At(s, k) < At(t, k)
    BY <1>5, <1>6 DEF Before
  <1> QED BY <1>4, <1>7

(* strcmp orders texts as a dictionary does.                               *)
LEMMA StrcmpOrders ==
  ASSUME NEW s \in Text, NEW t \in Text
  PROVE  /\ strcmp(s, t) = -1 <=> Before(s, t)
         /\ strcmp(s, t) = 1 <=> Before(t, s)
         /\ strcmp(s, t) = 0 <=> s = t
  <1>1. Len(s) \in Nat /\ Len(t) \in Nat
    BY Characters
  <1>2. PICK k \in 0 .. Len(s) + 1 :
          /\ k = Differ(s, t, Len(s))
          /\ \A j \in 0 .. k - 1 : At(s, j) = At(t, j)
          /\ k <= Len(s) => At(s, k) # At(t, k)
    <2>1. Len(s) \in Int /\ Len(s) >= -1
      BY <1>1
    <2> QED BY <2>1, FirstDifference
  <1>3. strcmp(s, t) = IF k > Len(s) THEN 0 ELSE IF At(s, k) < At(t, k) THEN -1 ELSE 1
    BY <1>2 DEF strcmp
  <1>4. CASE k > Len(s)
    <2>1. \A j \in 0 .. Len(s) : At(s, j) = At(t, j)
      BY <1>1, <1>2, <1>4
    <2>2. Len(t) <= Len(s)
      <3> SUFFICES ASSUME Len(s) < Len(t) PROVE FALSE
        BY <1>1
      <3>1. At(s, Len(s)) = 0 /\ At(t, Len(s)) = At(s, Len(s))
        BY <1>1, <2>1, Characters
      <3>2. Len(s) \in 0 .. Len(t) - 1
        BY <1>1
      <3>3. PICK x \in 1 .. 255 : x = At(t, Len(s))
        BY <3>2, Characters
      <3>4. x = 0
        BY <3>1, <3>3
      <3> QED BY <3>4
    <2>3. Len(s) <= Len(t)
      <3> SUFFICES ASSUME Len(t) < Len(s) PROVE FALSE
        BY <1>1
      <3>1. At(t, Len(t)) = 0 /\ At(t, Len(t)) = At(s, Len(t))
        BY <1>1, <2>1, Characters
      <3>2. Len(t) \in 0 .. Len(s) - 1
        BY <1>1
      <3>3. PICK x \in 1 .. 255 : x = At(s, Len(t))
        BY <3>2, Characters
      <3>4. x = 0
        BY <3>1, <3>3
      <3> QED BY <3>4
    <2>4. ASSUME NEW i \in 1 .. Len(s) PROVE s[i] = t[i]
      <3>1. i - 1 \in 0 .. Len(s) - 1 /\ i - 1 \in 0 .. Len(t) - 1 /\ i - 1 \in 0 .. Len(s) /\ (i - 1) + 1 = i
        BY <1>1, <2>2, <2>3
      <3>2. At(s, i - 1) = s[(i - 1) + 1] /\ At(t, i - 1) = t[(i - 1) + 1]
        BY <3>1, Characters
      <3> QED BY <2>1, <3>1, <3>2
    <2>5. s = t
      BY <1>1, <2>2, <2>3, <2>4, TextsAreEqual
    <2>6. ~ Before(s, s)
      <3>1. ASSUME NEW i \in DOMAIN s, s[i] < s[i] PROVE FALSE
        <4>1. PICK x \in 1 .. 255 : x = s[i]
          BY TextIs
        <4>2. x < x
          BY <3>1, <4>1
        <4> QED BY <4>2
      <3> QED BY <3>1 DEF Before, IsStrictPrefix
    <2>7. strcmp(s, t) = 0
      BY <1>3, <1>4
    <2> QED BY <2>5, <2>6, <2>7
  <1>5. CASE ~ (k > Len(s))
    <2>1. k \in Nat /\ FirstAt(s, t, k) /\ FirstAt(t, s, k)
      BY <1>1, <1>2, <1>5 DEF FirstAt
    <2>2. At(s, k) \in Nat /\ At(t, k) \in Nat /\ At(s, k) # At(t, k)
      <3>1. ASSUME NEW u \in Text PROVE At(u, k) \in Nat
        <4>1. k \in 0 .. Len(u) - 1 \/ k >= Len(u)
          BY <2>1, Characters
        <4>2. CASE k >= Len(u)
          <5>1. At(u, k) = 0
            BY <2>1, <4>2, Characters
          <5>2. 0 \in Nat
            OBVIOUS
          <5> QED BY <5>1, <5>2, Zenon
        <4>3. CASE k \in 0 .. Len(u) - 1
          <5>1. PICK x \in 1 .. 255 : x = At(u, k)
            BY <4>3, Characters
          <5>2. x \in Nat
            OBVIOUS
          <5> QED BY <5>1, <5>2, Zenon
        <4> QED BY <4>1, <4>2, <4>3
      <3> QED BY <2>1, <3>1 DEF FirstAt
    <2>3. Before(s, t) <=> At(s, k) < At(t, k)
      BY <2>1, DifferenceDecides
    <2>4. Before(t, s) <=> At(t, k) < At(s, k)
      BY <2>1, DifferenceDecides
    <2>5. PICK x, y \in Nat : x = At(s, k) /\ y = At(t, k)
      BY <2>2
    <2>6. strcmp(s, t) = IF x < y THEN -1 ELSE 1
      BY <1>3, <1>5, <2>5
    <2>7. s # t
      BY <2>2
    <2>8. x < y \/ y < x
      BY <2>2, <2>5
    <2>9. /\ strcmp(s, t) = -1 <=> x < y
          /\ strcmp(s, t) = 1 <=> y < x
          /\ strcmp(s, t) # 0
      BY <2>6, <2>8
    <2> QED BY <2>3, <2>4, <2>5, <2>7, <2>9
  <1> QED BY <1>4, <1>5

(* Over the length of a text, memcmp tells whether the other begins with it. *)
LEMMA MemcmpFindsPrefix ==
  ASSUME NEW s \in Text, NEW t \in Text
  PROVE  memcmp(s, t, Len(t)) = 0 <=> IsPrefix(t, s)
  <1>1. Len(s) \in Nat /\ Len(t) \in Nat
    BY Characters
  <1>2. PICK k \in 0 .. Len(t) :
          /\ k = Differ(s, t, Len(t) - 1)
          /\ \A j \in 0 .. k - 1 : At(s, j) = At(t, j)
          /\ k <= Len(t) - 1 => At(s, k) # At(t, k)
    <2>1. PICK last \in Int : last = Len(t) - 1
      BY <1>1
    <2>2. last >= -1 /\ last + 1 = Len(t)
      BY <1>1, <2>1
    <2>3. /\ Differ(s, t, last) \in 0 .. last + 1
          /\ \A k \in 0 .. Differ(s, t, last) - 1 : At(s, k) = At(t, k)
          /\ Differ(s, t, last) <= last =>
               At(s, Differ(s, t, last)) # At(t, Differ(s, t, last))
      BY <2>2, FirstDifference
    <2> QED BY <2>1, <2>2, <2>3
  <1>3. memcmp(s, t, Len(t)) = IF k = Len(t) THEN 0 ELSE IF At(s, k) < At(t, k) THEN -1 ELSE 1
    BY <1>2 DEF memcmp
  <1>4. CASE k = Len(t)
    <2>1. ASSUME NEW i \in 1 .. Len(t) PROVE i <= Len(s) /\ s[i] = t[i]
      <3>1. i - 1 \in 0 .. Len(t) - 1 /\ i - 1 \in 0 .. k - 1 /\ (i - 1) + 1 = i /\ i - 1 \in Nat
        BY <1>1, <1>4
      <3>2. At(s, i - 1) = At(t, i - 1) /\ At(t, i - 1) = t[(i - 1) + 1]
        BY <1>2, <3>1, Characters
      <3>3. PICK x \in 1 .. 255 : x = At(s, i - 1)
        BY <3>1, <3>2, Characters
      <3>4. ~ (i - 1 >= Len(s))
        <4>1. i - 1 >= Len(s) => At(s, i - 1) = 0
          BY <3>1, Characters
        <4>2. x # 0
          OBVIOUS
        <4> QED BY <3>3, <4>1, <4>2
      <3>5. i - 1 \in 0 .. Len(s) - 1
        BY <1>1, <3>1, <3>4
      <3>6. At(s, i - 1) = s[(i - 1) + 1]
        BY <3>5, Characters
      <3> QED BY <1>1, <3>1, <3>2, <3>5, <3>6
    <2>2. Len(t) <= Len(s)
      BY <1>1, <2>1
    <2>3. IsPrefix(t, s)
      BY <2>1, <2>2, PrefixCharacters
    <2> QED BY <1>3, <1>4, <2>3
  <1>5. CASE k # Len(t)
    <2>1. k \in 0 .. Len(t) - 1 /\ At(s, k) # At(t, k)
      BY <1>1, <1>2, <1>5
    <2>2. ASSUME IsPrefix(t, s) PROVE FALSE
      <3>1. Len(t) <= Len(s) /\ \A i \in 1 .. Len(t) : t[i] = s[i]
        BY <2>2, PrefixCharacters
      <3>2. k \in 0 .. Len(s) - 1 /\ k + 1 \in 1 .. Len(t)
        BY <1>1, <2>1, <3>1
      <3>3. At(s, k) = s[k + 1] /\ At(t, k) = t[k + 1]
        BY <2>1, <3>2, Characters
      <3> QED BY <2>1, <3>1, <3>2, <3>3
    <2>3. memcmp(s, t, Len(t)) # 0
      BY <1>3, <1>5
    <2> QED BY <2>2, <2>3
  <1> QED BY <1>4, <1>5

-----------------------------------------------------------------------------
(* Reversing and raising.                                                  *)

\* r is the string after each turn of reverse's loop, and reverse leaves the last
ReverseLoop(r, s, h) ==
  /\ r[0] = s
  /\ \A i \in 1 .. h : r[i] = Swapped(r[i - 1], i, Len(s) + 1 - i)
  /\ reverse(s) = r[h]

LEMMA ReverseTurns ==
  ASSUME NEW X, NEW s \in Seq(X), NEW h \in Nat, h = Len(s) \div 2
  PROVE  \E r : ReverseLoop(r, s, h)
  <1> DEFINE n  == Len(s)
             V  == [1 .. n -> X]
             op == [i \in 1 .. h |-> [v \in V |-> Swapped(v, i, n + 1 - i)]]
             c  == CHOOSE g : g = [i \in 0 .. h |->
                                     IF i = 0 THEN s ELSE Swapped(g[i - 1], i, n + 1 - i)]
  <1>1. n \in Nat /\ s \in V /\ 2 * h <= n
    <2>1. n \in Nat /\ s \in V
      BY LenProperties
    <2>2. 2 * h <= n
      BY <2>1
    <2> QED BY <2>1, <2>2
  <1>2. op \in [1 .. h -> [V -> V]]
    <2>1. ASSUME NEW i \in 1 .. h, NEW v \in V PROVE Swapped(v, i, n + 1 - i) \in V
      <3>1. i \in 1 .. n /\ n + 1 - i \in 1 .. n
        BY <1>1
      <3> HIDE DEF n
      <3> QED BY <3>1 DEF Swapped
    <2> HIDE DEF V, n
    <2> QED BY <2>1
  <1>3. PICK f \in [0 .. h -> V] : Turning(f, s, op, h)
    <2> HIDE DEF op, V, n
    <2> QED BY <1>1, <1>2, Turns
  <1>4. ASSUME NEW i \in 1 .. h PROVE f[i] = Swapped(f[i - 1], i, n + 1 - i)
    <2>1. f[i - 1] \in V
      BY i - 1 \in 0 .. h
    <2> QED BY <1>3, <2>1 DEF Turning
  <1>5. f = [i \in 0 .. h |-> IF i = 0 THEN s ELSE Swapped(f[i - 1], i, n + 1 - i)]
    <2>1. ASSUME NEW i \in 0 .. h
          PROVE  f[i] = IF i = 0 THEN s ELSE Swapped(f[i - 1], i, n + 1 - i)
      <3>1. i = 0 \/ i \in 1 .. h
        OBVIOUS
      <3> QED BY <1>3, <1>4, <3>1 DEF Turning
    <2> QED BY <2>1
  <1>6. c = [i \in 0 .. h |-> IF i = 0 THEN s ELSE Swapped(c[i - 1], i, n + 1 - i)]
    BY <1>5
  <1>7. c[h] = reverse(s)
    BY DEF reverse
  <1> HIDE DEF c, n
  <1>8. ASSUME NEW i \in 1 .. h PROVE c[i] = Swapped(c[i - 1], i, n + 1 - i)
    <2>1. i \in 0 .. h /\ i # 0
      OBVIOUS
    <2> QED BY <1>6, <2>1
  <1>9. c[0] = s
    BY <1>6
  <1> QED BY <1>7, <1>8, <1>9 DEF ReverseLoop, n

\* after i turns the outermost i characters on both sides are reversed
Outer(s, n, i) == [k \in 1 .. n |-> IF k <= i \/ k > n - i THEN s[n + 1 - k] ELSE s[k]]

LEMMA SwapsOneMore ==
  ASSUME NEW s, NEW n \in Nat, NEW i \in Nat, 2 * (i + 1) <= n
  PROVE  Swapped(Outer(s, n, i), i + 1, n - i) = Outer(s, n, i + 1)
  <1> DEFINE old == Outer(s, n, i)
             new == Swapped(old, i + 1, n - i)
  <1>1. i + 1 \in 1 .. n /\ n - i \in 1 .. n /\ i + 1 # n - i
    OBVIOUS
  <1>2. old[i + 1] = s[i + 1] /\ old[n - i] = s[n - i]
    BY <1>1 DEF Outer
  <1>3. new = [k \in 1 .. n |-> IF k = n - i THEN old[i + 1] ELSE IF k = i + 1 THEN old[n - i] ELSE old[k]]
    BY <1>1 DEF Swapped, Outer
  <1>4. ASSUME NEW k \in 1 .. n PROVE new[k] = Outer(s, n, i + 1)[k]
    <2>1. CASE k = n - i
      <3>1. new[k] = s[i + 1] /\ n + 1 - k = i + 1 /\ k > n - (i + 1)
        BY <1>2, <1>3, <2>1
      <3> HIDE DEF new
      <3> QED BY <3>1 DEF Outer
    <2>2. CASE k = i + 1
      <3>1. new[k] = s[n - i] /\ n + 1 - k = n - i /\ k <= i + 1
        BY <1>1, <1>2, <1>3, <2>2
      <3> HIDE DEF new
      <3> QED BY <3>1 DEF Outer
    <2>3. CASE k # n - i /\ k # i + 1
      <3>1. new[k] = old[k]
        BY <1>3, <2>3
      <3>2. (k <= i \/ k > n - i) <=> (k <= i + 1 \/ k > n - (i + 1))
        BY <2>3
      <3> HIDE DEF new
      <3> QED BY <3>1, <3>2 DEF Outer
    <2> QED BY <2>1, <2>2, <2>3
  <1> HIDE DEF old
  <1>5. DOMAIN new = 1 .. n /\ new = [k \in 1 .. n |-> new[k]]
    BY <1>3
  <1> HIDE DEF new
  <1>6. new = Outer(s, n, i + 1)
    BY <1>4, <1>5 DEF Outer
  <1> QED BY <1>6 DEF new, old

LEMMA ReverseReverses ==
  ASSUME NEW X, NEW s \in Seq(X)
  PROVE  reverse(s) = Reverse(s)
  <1>1. PICK n \in Nat : n = Len(s)
    BY LenProperties
  <1>2. PICK h \in Nat : h = n \div 2
    OBVIOUS
  <1>3. 2 * h <= n /\ n <= 2 * h + 1
    BY <1>2
  <1>4. PICK r : ReverseLoop(r, s, h)
    BY <1>1, <1>2, ReverseTurns
  <1> DEFINE S == {i \in Nat : i <= h => r[i] = Outer(s, n, i)}
  <1>5. 0 \in S
    <2>1. ASSUME NEW k \in 1 .. n PROVE ~ (k <= 0 \/ k > n - 0)
      OBVIOUS
    <2>2. Outer(s, n, 0) = [k \in 1 .. n |-> s[k]]
      BY <2>1 DEF Outer
    <2>3. s = [k \in 1 .. n |-> s[k]]
      BY <1>1, LenProperties
    <2> QED BY <1>4, <2>2, <2>3 DEF ReverseLoop
  <1>6. ASSUME NEW i \in Nat, i \in S PROVE i + 1 \in S
    <2> SUFFICES ASSUME i + 1 <= h PROVE r[i + 1] = Outer(s, n, i + 1)
      OBVIOUS
    <2>1. r[i] = Outer(s, n, i)
      BY <1>6
    <2>2. i + 1 \in 1 .. h /\ (i + 1) - 1 = i /\ n + 1 - (i + 1) = n - i /\ 2 * (i + 1) <= n
      BY <1>3
    <2>3. r[i + 1] = Swapped(r[i], i + 1, n - i)
      BY <1>1, <1>4, <2>2 DEF ReverseLoop
    <2> QED BY <2>1, <2>2, <2>3, SwapsOneMore
  <1> HIDE DEF S
  <1>7. h \in S
    BY <1>5, <1>6, Induction
  <1>8. ASSUME NEW k \in 1 .. n
        PROVE  (IF k <= h \/ k > n - h THEN s[n + 1 - k] ELSE s[k]) = s[(n - k) + 1]
    <2>1. n + 1 - k = (n - k) + 1
      OBVIOUS
    <2>2. ~ (k <= h \/ k > n - h) => k = (n - k) + 1
      BY <1>3
    <2> QED BY <2>1, <2>2
  <1>9. Outer(s, n, h) = [k \in 1 .. n |-> s[(n - k) + 1]]
    BY <1>8 DEF Outer
  <1>10. reverse(s) = Outer(s, n, h)
    BY <1>4, <1>7 DEF S, ReverseLoop
  <1>11. Reverse(s) = [k \in 1 .. n |-> s[(n - k) + 1]]
    BY <1>1 DEF Reverse
  <1> QED BY <1>9, <1>10, <1>11

LEMMA ToupperRaises ==
  ASSUME NEW s \in Text
  PROVE  LET r == toupper(s)
         IN  /\ Len(r) = Len(s) /\ ToSet(r) \cap 97 .. 122 = {}
             /\ \A k \in DOMAIN r : r[k] # s[k] => s[k] \in 97 .. 122 /\ r[k] = s[k] - 32
  <1> DEFINE n == Len(s)
             r == toupper(s)
  <1>1. n \in Nat /\ DOMAIN s = 1 .. n /\ \A k \in 1 .. n : s[k] \in 1 .. 255
    BY TextIs
  <1>2. r = [k \in 1 .. n |-> toupper_single(s[k])]
    BY <1>1 DEF toupper
  <1>3. ASSUME NEW k \in 1 .. n
        PROVE  /\ r[k] \in Int /\ r[k] \notin 97 .. 122
               /\ r[k] # s[k] => s[k] \in 97 .. 122 /\ r[k] = s[k] - 32
    <2>1. PICK x \in 1 .. 255 : x = s[k]
      BY <1>1
    <2>2. r[k] = IF x \in 97 .. 122 THEN x - 32 ELSE x
      BY <1>2, <2>1 DEF toupper_single
    <2>3. PICK y \in Int : y = IF x \in 97 .. 122 THEN x - 32 ELSE x
      OBVIOUS
    <2>4. y \notin 97 .. 122 /\ (y # x => x \in 97 .. 122 /\ y = x - 32)
      BY <2>3
    <2>5. r[k] = y
      BY <2>2, <2>3
    <2> HIDE DEF r
    <2> QED BY <2>1, <2>4, <2>5, Zenon
  <1>4. DOMAIN r = 1 .. n
    BY <1>2
  <1> HIDE DEF r
  <1>5. r \in Seq(Int) /\ Len(r) = n
    <2>1. r \in [1 .. n -> Int]
      BY <1>2, <1>3, <1>4
    <2> QED BY <1>1, <2>1
  <1>6. ToSet(r) \cap 97 .. 122 = {}
    BY <1>3, <1>4 DEF ToSet
  <1> QED BY <1>3, <1>4, <1>5, <1>6 DEF r

-----------------------------------------------------------------------------
(* The calls.                                                              *)

LEMMA CopyCall ==
  ASSUME call \in Calls, call.kind = "copy"
  PROVE  /\ call.m \in [Addresses -> Bytes] /\ DOMAIN call.m = Addresses
         /\ call.dst \in 0 .. Size /\ call.src \in 0 .. Size /\ call.size \in 0 .. Size
         /\ call.dst + call.size <= Size /\ call.src + call.size <= Size
  <1>1. call \in Copies
    BY DEF Calls
  <1>2. PICK m \in Memories,
             x \in {y \in (0 .. Size) \X (0 .. Size) \X (0 .. Size) : y[1] + y[3] <= Size /\ y[2] + y[3] <= Size} :
             call = [kind |-> "copy", m |-> m, dst |-> x[1], src |-> x[2], size |-> x[3]]
    BY <1>1 DEF Copies
  <1>3. call.m = m /\ call.dst = x[1] /\ call.src = x[2] /\ call.size = x[3]
    BY <1>2
  <1>4. m \in [Addresses -> Bytes]
    BY DEF Memories
  <1>5. x[1] \in 0 .. Size /\ x[2] \in 0 .. Size /\ x[3] \in 0 .. Size
    OBVIOUS
  <1>6. x[1] + x[3] <= Size /\ x[2] + x[3] <= Size
    OBVIOUS
  <1> QED BY <1>3, <1>4, <1>5, <1>6

LEMMA SizeIsNatural == Size \in Nat
  BY LibcAssumption

LEMMA ConstantsAre ==
  /\ \A b \in Bases : b \in 2 .. 36
  /\ \A f \in Formats : f \in Seq(STRING)
  BY LibcAssumption

LEMMA OtherCalls ==
  ASSUME call \in Calls
  PROVE  /\ call.kind = "pair" => call.s \in Text /\ call.t \in Text
         /\ call.kind = "int" => call.n \in Ints \ {IntMin} /\ call.base \in Bases
         /\ call.kind = "uint" => call.n \in UInts /\ call.base \in Bases
         /\ call.kind = "numeral" => call.s \in Text
         /\ call.kind = "format" => call.f \in Formats
  <1>1. call.kind = "pair" => call \in [kind : {"pair"}, s : Strings, t : Strings]
    BY DEF Calls, Copies
  <1>2. call.kind = "int" => call \in [kind : {"int"}, n : Ints \ {IntMin}, base : Bases]
    BY DEF Calls, Copies
  <1>3. call.kind = "uint" => call \in [kind : {"uint"}, n : UInts, base : Bases]
    BY DEF Calls, Copies
  <1>4. call.kind = "numeral" => call \in [kind : {"numeral"}, s : Numerals]
    BY DEF Calls, Copies
  <1>5. call.kind = "format" => call \in [kind : {"format"}, f : Formats]
    BY DEF Calls, Copies
  <1>6. Strings \subseteq Text /\ Numerals \subseteq Text
    BY LibcAssumption DEF Text
  <1> QED BY <1>1, <1>2, <1>3, <1>4, <1>5, <1>6

LEMMA CopiesAreRight ==
  ASSUME call \in Calls, call.kind = "copy"
  PROVE  /\ memmove(call.m, call.dst, call.src, call.size) = Copied
         /\ ~ Within(call.dst, call.src + 1, call.size - 1) =>
              memcpy(call.m, call.dst, call.src, call.size) = Copied
         /\ memset(call.m, call.dst, call.src, call.size) =
              [a \in DOMAIN call.m |->
                 IF Within(a, call.dst, call.size) THEN call.src % 256 ELSE call.m[a]]
  <1>1. PICK m \in [Addresses -> Bytes], dst \in 0 .. Size, src \in 0 .. Size, size \in 0 .. Size :
          /\ m = call.m /\ dst = call.dst /\ src = call.src /\ size = call.size
          /\ dst + size <= Size /\ src + size <= Size
    BY CopyCall
  <1>2. Size \in Nat /\ Addresses \in SUBSET Int /\ dst \in Int /\ src \in Int /\ size \in Nat
    <2>1. Addresses \in SUBSET Int
      BY SizeIsNatural DEF Addresses
    <2>2. dst \in Int /\ src \in Int /\ size \in Nat
      BY SizeIsNatural
    <2> QED BY <2>1, <2>2, SizeIsNatural
  <1>3. Holds(Addresses, src, size)
    <2>1. src + size <= Size
      BY <1>1
    <2>2. ASSUME NEW i \in 0 .. size - 1 PROVE src + i \in 0 .. Size - 1
      BY <1>2, <2>1
    <2> QED BY <2>2 DEF Addresses, Holds
  <1>4. Copied = Partly(m, dst, src, Target(dst, size))
    BY <1>1 DEF Copied, Overwritten, Within, Partly, Target
  <1>5. ~ Overtakes(dst, src, size) =>
          CopiedUp(m, dst, src, size) = Partly(m, dst, src, Target(dst, size))
    BY <1>2, <1>3, CopyUpwards
  <1>6. src <= dst => CopiedDown(m, dst, src, size) = Partly(m, dst, src, Target(dst, size))
    BY <1>2, <1>3, CopyDownwards
  <1>7. memmove(m, dst, src, size) = Copied
    <2>1. CASE dst < src
      <3>1. ~ Overtakes(dst, src, size)
        BY <1>2, <2>1 DEF Overtakes
      <3> QED BY <1>4, <1>5, <2>1, <3>1 DEF memmove
    <2>2. CASE ~ (dst < src)
      <3>1. src <= dst
        BY <1>2, <2>2
      <3> QED BY <1>4, <1>6, <2>2, <3>1 DEF memmove
    <2> QED BY <2>1, <2>2
  <1>8. ~ Within(dst, src + 1, size - 1) => memcpy(m, dst, src, size) = Copied
    <2>1. src + 1 + (size - 1) - 1 = src + size - 1
      BY <1>2
    <2>2. Within(dst, src + 1, size - 1) <=> Overtakes(dst, src, size)
      BY <2>1 DEF Within, Overtakes
    <2> QED BY <1>4, <1>5, <2>2 DEF memcpy
  <1>9. memset(m, dst, src, size) =
          [a \in Addresses |-> IF a \in dst .. dst + size - 1 THEN src % 256 ELSE m[a]]
    BY <1>2, FillsItsBytes
  <1>10. memset(m, dst, src, size) =
           [a \in DOMAIN m |-> IF Within(a, dst, size) THEN src % 256 ELSE m[a]]
    BY <1>9 DEF Within
  <1> QED BY <1>1, <1>7, <1>8, <1>10

LEMMA StringStep ==
  ASSUME call \in Calls, LibcNext
  PROVE  StringsAreRight'
  <1>1. CASE Memcpy
    <2>1. call.kind = "copy" /\ call' = call /\ function' = "memcpy"
          /\ result' = memcpy(call.m, call.dst, call.src, call.size)
      BY <1>1 DEF Memcpy, Called
    <2>2. Copied' = Copied
      BY <2>1 DEF Copied, Overwritten, Within
    <2>3. ~ Within(call.dst, call.src + 1, call.size - 1) => result' = Copied
      BY <2>1, CopiesAreRight
    <2> QED BY <2>1, <2>2, <2>3 DEF StringsAreRight, Within
  <1>2. CASE Memmove
    <2>1. call.kind = "copy" /\ call' = call /\ function' = "memmove"
          /\ result' = memmove(call.m, call.dst, call.src, call.size)
      BY <1>2 DEF Memmove, Called
    <2>2. Copied' = Copied
      BY <2>1 DEF Copied, Overwritten, Within
    <2>3. result' = Copied
      BY <2>1, CopiesAreRight
    <2> QED BY <2>1, <2>2, <2>3 DEF StringsAreRight
  <1>3. CASE Memset \/ Stosb
    <2>1. call.kind = "copy" /\ call' = call /\ function' \in {"memset", "stosb"}
          /\ result' = memset(call.m, call.dst, call.src, call.size)
      BY <1>3 DEF Memset, Stosb, stosb, Called
    <2>2. result' = [a \in DOMAIN call.m |->
                       IF Within(a, call.dst, call.size) THEN call.src % 256 ELSE call.m[a]]
      BY <2>1, CopiesAreRight
    <2> QED BY <2>1, <2>2 DEF StringsAreRight, Overwritten, Within
  <1>4. CASE Strcpy
    <2>1. call.kind = "copy" /\ call' = call /\ function' = "strcpy"
          /\ call.size = Stored(call.m, call.src)
          /\ result' = memcpy(call.m, call.dst, call.src, call.size)
      BY <1>4 DEF Strcpy, Called, strcpy, memcpy
    <2>2. Copied' = Copied
      BY <2>1 DEF Copied, Overwritten, Within
    <2>3. ~ Within(call.dst, call.src + 1, call.size - 1) => result' = Copied
      BY <2>1, CopiesAreRight
    <2> QED BY <2>1, <2>2, <2>3 DEF StringsAreRight, Within
  <1>5. CASE Memcmp
    <2>1. call.kind = "pair" /\ call' = call /\ function' = "memcmp"
          /\ result' = memcmp(call.s, call.t, Len(call.t))
      BY <1>5 DEF Memcmp, Called
    <2>2. call.s \in Text /\ call.t \in Text
      BY <2>1, OtherCalls
    <2>3. result' = 0 <=> IsPrefix(call.t, call.s)
      BY <2>1, <2>2, MemcmpFindsPrefix
    <2> QED BY <2>1, <2>3 DEF StringsAreRight
  <1>6. CASE Strcmp
    <2>1. call.kind = "pair" /\ call' = call /\ function' = "strcmp"
          /\ result' = strcmp(call.s, call.t)
      BY <1>6 DEF Strcmp, Called
    <2>2. call.s \in Text /\ call.t \in Text
      BY <2>1, OtherCalls
    <2>3. /\ result' = -1 <=> Before(call.s, call.t)
          /\ result' = 1 <=> Before(call.t, call.s)
          /\ result' = 0 <=> call.s = call.t
      BY <2>1, <2>2, StrcmpOrders
    <2> QED BY <2>1, <2>3 DEF StringsAreRight
  <1>7. CASE ReverseString
    <2>1. call.kind = "pair" /\ call' = call /\ function' = "reverse"
          /\ result' = reverse(call.s)
      BY <1>7 DEF ReverseString, Called
    <2>2. call.s \in Text
      BY <2>1, OtherCalls
    <2>3. result' = Reverse(call.s)
      BY <2>1, <2>2, ReverseReverses DEF Text
    <2> QED BY <2>1, <2>3 DEF StringsAreRight
  <1>8. CASE Toupper
    <2>1. call.kind = "pair" /\ call' = call /\ function' = "toupper"
          /\ result' = toupper(call.s)
      BY <1>8 DEF Toupper, Called
    <2>2. call.s \in Text
      BY <2>1, OtherCalls
    <2>3. /\ Len(result') = Len(call.s) /\ ToSet(result') \cap 97 .. 122 = {}
          /\ \A k \in DOMAIN result' :
               result'[k] # call.s[k] => call.s[k] \in 97 .. 122 /\ result'[k] = call.s[k] - 32
      BY <2>1, <2>2, ToupperRaises
    <2> QED BY <2>1, <2>3 DEF StringsAreRight
  <1>9. CASE Itoa \/ Atoi \/ KprintBase \/ Printf
    <2>1. function' \in {"itoa", "atoi", "kprint_base", "printf"}
      BY <1>9 DEF Itoa, Atoi, KprintBase, Printf, Called
    <2> QED BY <2>1 DEF StringsAreRight
  <1> QED BY <1>1, <1>2, <1>3, <1>4, <1>5, <1>6, <1>7, <1>8, <1>9 DEF LibcNext

-----------------------------------------------------------------------------
(* Numbers and the texts that denote them.                                 *)

\* n divided by b gives q and leaves r
Divides(n, b, q, r) ==
  /\ q \in Nat /\ q = n \div b /\ r \in 0 .. b - 1 /\ r = n % b
  /\ n = b * q + r
  /\ n < b => q = 0 /\ r = n
  /\ n >= b => q >= 1
  /\ n # 0 => q < n

LEMMA Division ==
  ASSUME NEW n \in Nat, NEW b \in Nat, b >= 2
  PROVE  \E q, r : Divides(n, b, q, r)
  <1>1. PICK q \in Int : q = n \div b
    OBVIOUS
  <1>2. n % b = n - b * q /\ n - b * q \in 0 .. b - 1
    BY <1>1
  <1>3. PICK p \in Int : p = b * q
    OBVIOUS
  <1>4. PICK r \in 0 .. b - 1 : r = n - p /\ r = n % b
    BY <1>2, <1>3
  <1>5. q >= 0
    <2> SUFFICES ASSUME q <= -1 PROVE FALSE
      OBVIOUS
    <2>1. p <= -b
      BY <1>3
    <2> QED BY <2>1, <1>4
  <1>6. n < b => q = 0
    <2> SUFFICES ASSUME q >= 1, n < b PROVE FALSE
      BY <1>5
    <2>1. p >= b
      BY <1>3
    <2> QED BY <2>1, <1>4
  <1>7. n >= b => q >= 1
    <2> SUFFICES ASSUME q = 0, n >= b PROVE FALSE
      BY <1>5
    <2>1. p = 0
      BY <1>3
    <2> QED BY <2>1, <1>4
  <1>8. n # 0 => q < n
    <2> SUFFICES ASSUME n # 0, n <= q PROVE FALSE
      OBVIOUS
    <2>1. p >= 2 * q
      BY <1>3, <1>5
    <2> QED BY <2>1, <1>4
  <1>9. n = b * q + r
    BY <1>3, <1>4
  <1>10. n < b => r = n
    BY <1>3, <1>4, <1>6
  <1>11. q \in Nat
    BY <1>5
  <1>12. Divides(n, b, q, r)
    BY <1>1, <1>4, <1>6, <1>7, <1>8, <1>9, <1>10, <1>11, Zenon DEF Divides
  <1> QED BY <1>12, Zenon

\* v is the number the first characters denote, up to each of them
ValueLoop(v, text, base) ==
  /\ v \in [0 .. Len(text) -> Int]
  /\ v[0] = 0
  /\ \A k \in 1 .. Len(text) : v[k] = v[k - 1] * base + DigitOf(text[k], base)

LEMMA DigitOfIsInt ==
  ASSUME NEW c \in Int, NEW base \in Nat
  PROVE  DigitOf(c, base) \in Int
  BY DEF DigitOf

LEMMA ValueTurns ==
  ASSUME NEW text \in Seq(Int), NEW base \in Nat
  PROVE  \E v : ValueLoop(v, text, base) /\ Denoted(text, base) = v[Len(text)]
  <1> DEFINE n  == Len(text)
             op == [k \in 1 .. n |-> [x \in Int |-> x * base + DigitOf(text[k], base)]]
             c  == CHOOSE g : g = [k \in 0 .. n |->
                                     IF k = 0 THEN 0 ELSE g[k - 1] * base + DigitOf(text[k], base)]
             V  == Int
  <1>1. n \in Nat /\ \A k \in 1 .. n : DigitOf(text[k], base) \in Int
    <2>1. n \in Nat /\ \A k \in 1 .. n : text[k] \in Int
      BY LenProperties
    <2> QED BY <2>1, DigitOfIsInt
  <1>2. op \in [1 .. n -> [V -> V]] /\ 0 \in V
    BY <1>1
  <1>3. PICK f \in [0 .. n -> Int] : Turning(f, 0, op, n)
    <2>1. \E f \in [0 .. n -> V] : Turning(f, 0, op, n)
      <3> HIDE DEF op, n, V
      <3> QED BY <1>1, <1>2, Turns
    <2> QED BY <2>1
  <1> HIDE DEF n
  <1>4. ASSUME NEW k \in 1 .. n PROVE f[k] = f[k - 1] * base + DigitOf(text[k], base)
    <2>1. k - 1 \in 0 .. n /\ f[k - 1] \in Int
      BY <1>1
    <2> QED BY <1>3, <2>1 DEF Turning
  <1>5. f = [k \in 0 .. n |-> IF k = 0 THEN 0 ELSE f[k - 1] * base + DigitOf(text[k], base)]
    <2>1. ASSUME NEW k \in 0 .. n
          PROVE  f[k] = IF k = 0 THEN 0 ELSE f[k - 1] * base + DigitOf(text[k], base)
      <3>1. k = 0 \/ k \in 1 .. n
        BY <1>1
      <3> QED BY <1>3, <1>4, <3>1 DEF Turning
    <2> QED BY <2>1
  <1>6. c = [k \in 0 .. n |-> IF k = 0 THEN 0 ELSE c[k - 1] * base + DigitOf(text[k], base)]
    BY <1>5
  <1>7. c[n] = Denoted(text, base)
    BY DEF Denoted, n
  <1> HIDE DEF c, op
  <1>8. Alike(c, f, n)
    <2>1. ASSUME NEW k \in 1 .. n PROVE c[k] = c[k - 1] * base + DigitOf(text[k], base)
      <3>1. k \in 0 .. n /\ k # 0
        BY <1>1
      <3> QED BY <1>6, <3>1
    <2>2. c[0] = 0 /\ f[0] = 0
      BY <1>1, <1>3, <1>6 DEF Turning
    <2>3. ASSUME NEW k \in 1 .. n, c[k - 1] = f[k - 1] PROVE c[k] = f[k]
      BY <1>4, <2>1, <2>3
    <2> QED BY <2>2, <2>3 DEF Alike
  <1>9. \A k \in 0 .. n : c[k] = f[k]
    BY <1>1, <1>8, SameTurns
  <1>10. c[n] = f[n]
    BY <1>1, <1>9
  <1>11. f[0] = 0
    BY <1>3 DEF Turning
  <1>12. ValueLoop(f, text, base)
    BY <1>4, <1>11 DEF ValueLoop, n
  <1> QED BY <1>7, <1>10, <1>12 DEF n

LEMMA AppendIs ==
  ASSUME NEW X, NEW s \in Seq(X), NEW c \in X, NEW n, n = Len(s)
  PROVE  /\ Append(s, c) \in Seq(X) /\ Len(Append(s, c)) = n + 1 /\ n \in Nat
         /\ \A k \in 1 .. n : Append(s, c)[k] = s[k]
         /\ Append(s, c)[n + 1] = c
         /\ s \o <<c>> = Append(s, c)
  <1>1. Append(s, c) \in Seq(X) /\ Len(Append(s, c)) = n + 1 /\ n \in Nat
    OBVIOUS
  <1>2. (\A k \in 1 .. n : Append(s, c)[k] = s[k]) /\ Append(s, c)[n + 1] = c
    OBVIOUS
  <1>3. s \o <<c>> = Append(s, c)
    OBVIOUS
  <1> QED BY <1>1, <1>2, <1>3

(* One more digit multiplies by the base and adds.                         *)
LEMMA DenotedAppend ==
  ASSUME NEW t \in Seq(Int), NEW c \in Int, NEW base \in Nat
  PROVE  /\ Denoted(t, base) \in Int
         /\ Denoted(Append(t, c), base) = Denoted(t, base) * base + DigitOf(c, base)
  <1> DEFINE u == Append(t, c)
  <1>1. PICK n \in Nat : n = Len(t)
    BY LenProperties
  <1>2. u \in Seq(Int) /\ Len(u) = n + 1 /\ (\A k \in 1 .. n : u[k] = t[k]) /\ u[n + 1] = c
    BY <1>1, AppendIs
  <1> HIDE DEF u
  <1>3. PICK v : ValueLoop(v, t, base) /\ Denoted(t, base) = v[n]
    BY <1>1, ValueTurns
  <1>4. PICK w : ValueLoop(w, u, base) /\ Denoted(u, base) = w[n + 1]
    BY <1>2, ValueTurns
  <1>5. Alike(v, w, n)
    <2>1. ASSUME NEW k \in 1 .. n, v[k - 1] = w[k - 1] PROVE v[k] = w[k]
      <3>1. k \in 1 .. n + 1 /\ u[k] = t[k]
        BY <1>2
      <3>2. v[k] = v[k - 1] * base + DigitOf(t[k], base)
        BY <1>1, <1>3 DEF ValueLoop
      <3>3. w[k] = w[k - 1] * base + DigitOf(u[k], base)
        BY <1>2, <1>4, <3>1 DEF ValueLoop
      <3> QED BY <2>1, <3>1, <3>2, <3>3
    <2>2. v[0] = w[0]
      BY <1>3, <1>4 DEF ValueLoop
    <2> QED BY <2>1, <2>2 DEF Alike
  <1>6. v[n] = w[n]
    BY <1>5, SameTurns
  <1>7. n + 1 \in 1 .. n + 1 /\ (n + 1) - 1 = n
    OBVIOUS
  <1>8. w[n + 1] = w[n] * base + DigitOf(c, base)
    BY <1>2, <1>4, <1>7 DEF ValueLoop
  <1>9. v[n] \in Int
    BY <1>1, <1>3 DEF ValueLoop
  <1> QED BY <1>3, <1>4, <1>6, <1>8, <1>9 DEF u

LEMMA DenotedIsInt ==
  ASSUME NEW t \in Seq(Int), NEW base \in Nat
  PROVE  Denoted(t, base) \in Int
  <1>1. PICK n \in Nat : n = Len(t)
    BY LenProperties
  <1>2. PICK v : ValueLoop(v, t, base) /\ Denoted(t, base) = v[n]
    BY <1>1, ValueTurns
  <1>3. v \in [0 .. n -> Int]
    BY <1>1, <1>2 DEF ValueLoop
  <1> QED BY <1>2, <1>3

LEMMA DenotedNothing ==
  ASSUME NEW base \in Nat
  PROVE  Denoted(<<>>, base) = 0
  <1>1. <<>> \in Seq(Int) /\ Len(<<>>) = 0
    OBVIOUS
  <1>2. PICK v : ValueLoop(v, <<>>, base) /\ Denoted(<<>>, base) = v[0]
    BY <1>1, ValueTurns
  <1> QED BY <1>2 DEF ValueLoop

LEMMA DenotedDigit ==
  ASSUME NEW c \in Int, NEW base \in Nat
  PROVE  Denoted(<<c>>, base) = DigitOf(c, base)
  <1>1. <<>> \in Seq(Int) /\ Append(<<>>, c) = <<c>>
    OBVIOUS
  <1>2. Denoted(<<c>>, base) = Denoted(<<>>, base) * base + DigitOf(c, base)
    BY <1>1, DenotedAppend
  <1>3. PICK d \in Int : d = DigitOf(c, base)
    BY DigitOfIsInt
  <1>4. 0 * base + d = d
    OBVIOUS
  <1> QED BY <1>2, <1>3, <1>4, DenotedNothing

\* t is a text for n, without leading zeros
Prints(t, n, base) ==
  /\ t \in Seq(Int) /\ IsText(t, base) /\ Denoted(t, base) = n
  /\ n # 0 => t[1] # Zero

Digits(base) == 48 .. 57 \cup 65 .. 65 + base - 11 \cup 97 .. 97 + base - 11

\* what a digit above 9 is counted from: "A" or "a"
Letters == {65, 97}

LEMMA DigitIsRight ==
  ASSUME NEW base \in 2 .. 36, NEW r \in 0 .. base - 1, NEW letter \in Letters
  PROVE  /\ Digit(r, letter) \in Digits(base) /\ Digit(r, letter) \in Int
         /\ DigitOf(Digit(r, letter), base) = r
         /\ Digit(r, letter) = Zero => r = 0
  <1>1. Digit(r, letter) = IF r > 9 THEN r - 10 + letter ELSE r + 48
    BY DEF Digit, Zero
  <1>2. CASE r > 9
    <2>1. PICK d \in Int : d = r - 10 + letter /\ d = Digit(r, letter)
      BY <1>1, <1>2 DEF Letters
    <2>2. d \in Digits(base) /\ d # 48
      BY <1>2, <2>1 DEF Digits, Letters
    <2>3. DigitOf(d, base) = r
      <3>1. CASE letter = 65
        <4>1. d \notin 48 .. 57 /\ d \in 65 .. 90 /\ d - 55 = r
          BY <1>2, <2>1, <3>1
        <4> QED BY <4>1 DEF DigitOf
      <3>2. CASE letter = 97
        <4>1. d \notin 48 .. 57 /\ d \notin 65 .. 90 /\ d \in 97 .. 122 /\ d - 87 = r
          BY <1>2, <2>1, <3>2
        <4> QED BY <4>1 DEF DigitOf
      <3> QED BY <3>1, <3>2 DEF Letters
    <2> QED BY <2>1, <2>2, <2>3 DEF Zero
  <1>3. CASE ~ (r > 9)
    <2>1. PICK d \in Int : d = r + 48 /\ d = Digit(r, letter)
      BY <1>1, <1>3
    <2>2. d \in 48 .. 57 /\ d - 48 = r
      BY <1>3, <2>1
    <2>3. DigitOf(d, base) = r
      BY <2>2 DEF DigitOf
    <2> QED BY <2>1, <2>2, <2>3 DEF Zero, Digits
  <1> QED BY <1>2, <1>3

LEMMA OneDigit ==
  ASSUME NEW base \in 2 .. 36, NEW r \in 0 .. base - 1, NEW letter \in Letters
  PROVE  Prints(<<Digit(r, letter)>>, r, base)
  <1>1. PICK d \in Int : d = Digit(r, letter)
    BY DigitIsRight
  <1>2. d \in Digits(base) /\ DigitOf(d, base) = r /\ (d = Zero => r = 0)
    BY <1>1, DigitIsRight
  <1>3. Denoted(<<d>>, base) = r
    BY <1>2, DenotedDigit
  <1>4. <<d>> \in Seq(Int) /\ <<d>> # <<>> /\ <<d>>[1] = d /\ Len(<<d>>) = 1
    OBVIOUS
  <1>5. ToSet(<<d>>) \subseteq Digits(base)
    BY <1>2 DEF ToSet
  <1>6. IsText(<<d>>, base)
    BY <1>4, <1>5 DEF IsText, Digits
  <1> QED BY <1>1, <1>2, <1>3, <1>4, <1>6 DEF Prints

LEMMA MoreDigits ==
  ASSUME NEW base \in 2 .. 36, NEW n \in Nat, NEW q, NEW r, Divides(n, base, q, r), q # 0,
         NEW letter \in Letters, NEW t, Prints(t, q, base)
  PROVE  Prints(Append(t, Digit(r, letter)), n, base)
  <1>1. r \in 0 .. base - 1 /\ q \in Nat /\ n = base * q + r /\ n # 0
    BY DEF Divides
  <1>2. PICK d \in Int : d = Digit(r, letter)
    BY <1>1, DigitIsRight
  <1>3. d \in Digits(base) /\ DigitOf(d, base) = r
    BY <1>1, <1>2, DigitIsRight
  <1> DEFINE u == Append(t, d)
  <1>4. PICK l \in Nat : l = Len(t)
    BY LenProperties DEF Prints
  <1>5. t \in Seq(Int) /\ t # <<>> /\ l # 0
    BY <1>4 DEF Prints, IsText
  <1>6. u \in Seq(Int) /\ Len(u) = l + 1 /\ (\A k \in 1 .. l : u[k] = t[k]) /\ u[l + 1] = d
    BY <1>4, <1>5, AppendIs
  <1>7. Denoted(u, base) = Denoted(t, base) * base + DigitOf(d, base)
    <2>1. base \in Nat
      OBVIOUS
    <2> QED BY <1>5, <2>1, DenotedAppend
  <1>8. Denoted(u, base) = n
    <2>1. Denoted(u, base) = q * base + r
      BY <1>3, <1>7 DEF Prints
    <2>2. q * base + r = n
      BY <1>1
    <2> QED BY <2>1, <2>2
  <1> HIDE DEF u
  <1>9. u[1] = t[1] /\ u[1] # Zero /\ u # <<>>
    BY <1>1, <1>4, <1>5, <1>6 DEF Prints
  <1>10. ToSet(u) \subseteq Digits(base)
    <2>1. ASSUME NEW k \in 1 .. l + 1 PROVE u[k] \in Digits(base)
      <3>1. CASE k = l + 1
        BY <1>3, <1>6, <3>1
      <3>2. CASE k \in 1 .. l
        <4>1. t[k] \in ToSet(t)
          BY <1>4, <1>5, <3>2, LenProperties DEF ToSet
        <4> QED BY <1>6, <3>2, <4>1 DEF Prints, IsText, Digits
      <3> QED BY <3>1, <3>2
    <2>2. DOMAIN u = 1 .. l + 1
      BY <1>6, LenProperties
    <2> QED BY <2>1, <2>2 DEF ToSet
  <1>11. IsText(u, base)
    BY <1>9, <1>10 DEF IsText, Digits
  <1>12. Prints(u, n, base)
    BY <1>6, <1>8, <1>9, <1>11 DEF Prints
  <1> QED BY <1>2, <1>12 DEF u

LEMMA TwoLetters == 65 \in Letters /\ 97 \in Letters
  BY DEF Letters

\* what kprint_base prints for each number
PrintLoop(p, b) ==
  \A n \in UInts :
    p[n] = (IF n > b - 1 THEN p[n \div b] ELSE <<>>) \o <<Digit(n % b, 65)>>

LEMMA PrintTurns ==
  ASSUME NEW b \in 2 .. 36
  PROVE  \E p : PrintLoop(p, b) /\ \A n \in UInts : kprint_base(n, b) = p[n]
  <1> DEFINE V     == Seq(Int)
             D     == UInts
             start == [n \in D |-> <<Digit(n % b, 65)>>]
             step  == [n \in D |-> [v \in V |-> v \o <<Digit(n % b, 65)>>]]
             back  == [n \in D |-> IF n > b - 1 THEN n \div b ELSE n]
             rank  == [n \in D |-> n]
             c     == CHOOSE g : g = [n \in UInts |->
                        (IF n > b - 1 THEN g[n \div b] ELSE <<>>) \o <<Digit(n % b, 65)>>]
  <1>1. UIntMax \in Nat /\ D = 0 .. UIntMax
    BY NumbersAssumption DEF UInts, UIntMax
  <1>2. ASSUME NEW n \in D
        PROVE  /\ n \in Nat /\ n \div b \in D /\ Digit(n % b, 65) \in Int
               /\ n > b - 1 => n \div b < n
    <2>1. PICK q, r : Divides(n, b, q, r)
      BY <1>1, Division
    <2>2. q \in Nat /\ q = n \div b /\ r \in 0 .. b - 1 /\ r = n % b /\ (n # 0 => q < n) /\ (n < b => q = 0)
      BY <2>1 DEF Divides
    <2>3. q \in D
      BY <1>1, <2>2
    <2>4. Digit(r, 65) \in Int
      BY <2>2, DigitIsRight, TwoLetters
    <2>5. n > b - 1 => q < n
      BY <1>1, <2>2
    <2> QED BY <1>1, <2>2, <2>3, <2>4, <2>5
  <1>3. start \in [D -> V] /\ step \in [D -> [V -> V]]
    BY <1>2
  <1>4. back \in [D -> D] /\ rank \in [D -> Nat]
    BY <1>2
  <1>5. Descends(D, back, rank, UIntMax)
    <2>1. ASSUME NEW n \in D PROVE rank[n] <= UIntMax /\ (back[n] # n => rank[back[n]] < rank[n])
      BY <1>1, <1>2
    <2> HIDE DEF back, rank, D
    <2> QED BY <2>1 DEF Descends
  <1>6. PICK f \in [D -> V] : Solves(f, D, start, step, back)
    <2> HIDE DEF D, V, start, step, back, rank
    <2> QED BY <1>1, <1>3, <1>4, <1>5, Recursion
  <1>7. ASSUME NEW n \in D
        PROVE  f[n] = (IF n > b - 1 THEN f[n \div b] ELSE <<>>) \o <<Digit(n % b, 65)>>
    <2>1. f[n] = IF back[n] = n THEN start[n] ELSE step[n][f[back[n]]]
      BY <1>6 DEF Solves
    <2>2. CASE n > b - 1
      <3>1. back[n] = n \div b /\ n \div b # n /\ f[n \div b] \in V
        BY <1>2, <2>2
      <3> QED BY <2>1, <2>2, <3>1
    <2>3. CASE ~ (n > b - 1)
      <3>1. f[n] = <<Digit(n % b, 65)>>
        BY <2>1, <2>3
      <3>2. <<>> \o <<Digit(n % b, 65)>> = <<Digit(n % b, 65)>>
        BY <1>2
      <3> QED BY <2>3, <3>1, <3>2
    <2> QED BY <2>2, <2>3
  <1>8. f = [n \in UInts |-> (IF n > b - 1 THEN f[n \div b] ELSE <<>>) \o <<Digit(n % b, 65)>>]
    BY <1>7
  <1>9. c = [n \in UInts |-> (IF n > b - 1 THEN c[n \div b] ELSE <<>>) \o <<Digit(n % b, 65)>>]
    BY <1>8
  <1>10. \A n \in UInts : kprint_base(n, b) = c[n]
    BY DEF kprint_base
  <1> HIDE DEF c
  <1> QED BY <1>9, <1>10 DEF PrintLoop

(* kprint_base prints a text for the number: by induction on its size.     *)
LEMMA KprintPrints ==
  ASSUME NEW b \in 2 .. 36, NEW num \in UInts
  PROVE  Prints(kprint_base(num, b), num, b)
  <1>1. PICK p : PrintLoop(p, b) /\ \A n \in UInts : kprint_base(n, b) = p[n]
    BY PrintTurns
  <1>2. UIntMax \in Nat /\ UInts = 0 .. UIntMax
    BY NumbersAssumption DEF UInts, UIntMax
  <1> DEFINE S == {k \in Nat : \A n \in UInts : n < k => Prints(p[n], n, b)}
  <1>3. 0 \in S
    BY <1>2
  <1>4. ASSUME NEW k \in S PROVE k + 1 \in S
    <2> SUFFICES ASSUME NEW n \in UInts, n = k PROVE Prints(p[n], n, b)
      BY <1>2
    <2>1. n \in Nat /\ b \in Nat /\ b >= 2
      BY <1>2
    <2>2. PICK q, r : Divides(n, b, q, r)
      BY <2>1, Division
    <2>3. q \in Nat /\ q = n \div b /\ r \in 0 .. b - 1 /\ r = n % b
          /\ (n # 0 => q < n) /\ (n < b => q = 0 /\ r = n) /\ (n >= b => q >= 1)
      BY <2>2 DEF Divides
    <2>4. p[n] = (IF n > b - 1 THEN p[q] ELSE <<>>) \o <<Digit(r, 65)>>
      BY <1>1, <2>3 DEF PrintLoop
    <2>5. CASE n > b - 1
      <3>1. q # 0 /\ q \in UInts /\ q < k
        BY <1>2, <2>1, <2>3, <2>5
      <3>2. Prints(p[q], q, b)
        BY <3>1
      <3>3. Prints(Append(p[q], Digit(r, 65)), n, b)
        BY <2>1, <2>2, <3>1, <3>2, MoreDigits, TwoLetters
      <3>4. p[q] \in Seq(Int) /\ Digit(r, 65) \in Int
        BY <2>3, <3>2, DigitIsRight, TwoLetters DEF Prints
      <3>5. p[q] \o <<Digit(r, 65)>> = Append(p[q], Digit(r, 65))
        BY <3>4, AppendIs
      <3> QED BY <2>4, <2>5, <3>3, <3>5
    <2>6. CASE ~ (n > b - 1)
      <3>1. r = n
        BY <2>1, <2>3, <2>6
      <3>2. Digit(r, 65) \in Int
        BY <2>3, DigitIsRight, TwoLetters
      <3>3. <<>> \o <<Digit(r, 65)>> = <<Digit(r, 65)>>
        BY <3>2
      <3>4. Prints(<<Digit(r, 65)>>, r, b)
        BY <2>3, OneDigit, TwoLetters
      <3> QED BY <2>4, <2>6, <3>1, <3>3, <3>4
    <2> QED BY <2>5, <2>6
  <1>5. num + 1 \in S
    <2> HIDE DEF S
    <2>1. num + 1 \in Nat
      BY <1>2
    <2> QED BY <1>3, <1>4, <2>1, Induction
  <1>6. Prints(p[num], num, b)
    <2>1. num < num + 1
      BY <1>2
    <2> QED BY <1>5, <2>1
  <1> QED BY <1>1, <1>6

\* num divided by base, rounded towards 0
LEMMA Halving ==
  ASSUME NEW n \in Ints, NEW base \in 2 .. 36
  PROVE  /\ Quotient(n, base) \in Ints /\ Digit(Remainder(n, base), 97) \in Int
         /\ n > 0 => Quotient(n, base) \in 0 .. n - 1
         /\ n < 0 => Quotient(n, base) \in n + 1 .. 0
         /\ n >= 0 => Divides(n, base, Quotient(n, base), Remainder(n, base))
  <1>1. IntMax \in Nat /\ Ints = -IntMax - 1 .. IntMax
    BY NumbersAssumption DEF Ints, IntMin
  <1>2. base \in Nat /\ base >= 2 /\ n \in Int
    BY <1>1
  <1>3. CASE n >= 0
    <2>1. n \in Nat
      BY <1>2, <1>3
    <2>2. PICK q, r : Divides(n, base, q, r)
      BY <1>2, <2>1, Division
    <2>3. q \in Nat /\ q = n \div base /\ r \in 0 .. base - 1 /\ n = base * q + r /\ (n # 0 => q < n)
          /\ (n < base => q = 0)
      BY <2>2 DEF Divides
    <2>4. Quotient(n, base) = q
      BY <1>3, <2>3 DEF Quotient
    <2>5. Remainder(n, base) = r
      <3>1. PICK p \in Int : p = base * q
        BY <1>2, <2>3
      <3>2. n - p = r
        BY <2>3, <3>1
      <3> QED BY <2>4, <3>1, <3>2 DEF Remainder
    <2>6. Digit(r, 97) \in Int
      BY <2>3, DigitIsRight, TwoLetters
    <2>7. q \in Ints /\ (n > 0 => q \in 0 .. n - 1)
      BY <1>1, <1>2, <1>3, <2>3
    <2> QED BY <1>3, <2>1, <2>2, <2>4, <2>5, <2>6, <2>7
  <1>4. CASE n < 0
    <2>1. -n \in Nat /\ -n # 0
      BY <1>2, <1>4
    <2>2. PICK q, r : Divides(-n, base, q, r)
      BY <1>2, <2>1, Division
    <2>3. q \in Nat /\ q = (-n) \div base /\ q < -n
      BY <2>1, <2>2 DEF Divides
    <2>4. PICK m \in Int : m = -q /\ m = Quotient(n, base)
      BY <1>4, <2>3 DEF Quotient
    <2>5. m \in n + 1 .. 0 /\ m \in Ints
      BY <1>1, <1>2, <1>4, <2>3, <2>4
    <2>6. PICK p \in Int : p = base * m
      BY <1>2, <2>4
    <2>7. PICK r2 \in Int : r2 = Remainder(n, base)
      BY <1>2, <2>4, <2>6 DEF Remainder
    <2>8. Digit(r2, 97) \in Int
      BY DEF Digit, Zero
    <2> QED BY <1>4, <2>4, <2>5, <2>7, <2>8
  <1> QED BY <1>2, <1>3, <1>4

\* what LowFirst is for each number
LowLoop(g, base) ==
  \A n \in Ints :
    g[n] = IF n = 0 THEN <<>> ELSE <<Digit(Remainder(n, base), 97)>> \o g[Quotient(n, base)]

LEMMA LowTurns ==
  ASSUME NEW base \in 2 .. 36
  PROVE  \E g : LowLoop(g, base) /\ \A n \in Ints : LowFirst(n, base) = g[n]
  <1> DEFINE V     == Seq(Int)
             D     == Ints
             start == [n \in D |-> <<>>]
             step  == [n \in D |-> [v \in V |-> <<Digit(Remainder(n, base), 97)>> \o v]]
             back  == [n \in D |-> IF n = 0 THEN 0 ELSE Quotient(n, base)]
             rank  == [n \in D |-> IF n < 0 THEN -n ELSE n]
             c     == CHOOSE g : g = [n \in Ints |->
                        IF n = 0 THEN <<>> ELSE <<Digit(Remainder(n, base), 97)>> \o g[Quotient(n, base)]]
  <1>1. IntMax \in Nat /\ D = -IntMax - 1 .. IntMax
    BY NumbersAssumption DEF Ints, IntMin
  <1>2. ASSUME NEW n \in D
        PROVE  /\ Quotient(n, base) \in D /\ Digit(Remainder(n, base), 97) \in Int
               /\ n > 0 => Quotient(n, base) \in 0 .. n - 1
               /\ n < 0 => Quotient(n, base) \in n + 1 .. 0
    BY Halving
  <1>3. start \in [D -> V] /\ step \in [D -> [V -> V]]
    BY <1>2
  <1>4. back \in [D -> D] /\ rank \in [D -> Nat]
    <2>1. 0 \in D
      BY <1>1
    <2>2. rank \in [D -> Nat]
      BY <1>1
    <2> HIDE DEF D
    <2>3. \A n \in D : Quotient(n, base) \in D
      BY <1>2
    <2> QED BY <2>1, <2>2, <2>3
  <1>5. Descends(D, back, rank, IntMax + 1)
    <2>1. ASSUME NEW n \in D
          PROVE  rank[n] <= IntMax + 1 /\ (back[n] # n => rank[back[n]] < rank[n])
      <3>1. CASE n = 0
        BY <1>1, <3>1
      <3>2. CASE n # 0
        <4>1. PICK q \in D : q = Quotient(n, base) /\ back[n] = q
          BY <1>2, <3>2
        <4>2. (n > 0 => q \in 0 .. n - 1) /\ (n < 0 => q \in n + 1 .. 0)
          BY <1>2, <4>1
        <4>3. rank[q] = (IF q < 0 THEN -q ELSE q) /\ rank[n] = (IF n < 0 THEN -n ELSE n)
          OBVIOUS
        <4> HIDE DEF rank, back
        <4>4. rank[q] < rank[n] /\ rank[n] <= IntMax + 1
          BY <1>1, <3>2, <4>2, <4>3
        <4> QED BY <4>1, <4>4
      <3> QED BY <3>1, <3>2
    <2> HIDE DEF back, rank, D
    <2> QED BY <2>1 DEF Descends
  <1>6. PICK f \in [D -> V] : Solves(f, D, start, step, back)
    <2>1. IntMax + 1 \in Nat
      BY <1>1
    <2> HIDE DEF D, V, start, step, back, rank
    <2> QED BY <2>1, <1>3, <1>4, <1>5, Recursion
  <1>7. ASSUME NEW n \in D
        PROVE  f[n] = IF n = 0 THEN <<>> ELSE <<Digit(Remainder(n, base), 97)>> \o f[Quotient(n, base)]
    <2>1. f[n] = IF back[n] = n THEN start[n] ELSE step[n][f[back[n]]]
      BY <1>6 DEF Solves
    <2>2. CASE n # 0
      <3>1. PICK q \in D : q = Quotient(n, base)
        BY <1>2
      <3>2. back[n] = q /\ f[q] \in V
        BY <2>2, <3>1
      <3>3. (n > 0 => q \in 0 .. n - 1) /\ (n < 0 => q \in n + 1 .. 0)
        BY <1>2, <3>1
      <3>4. q # n
        BY <1>1, <2>2, <3>3
      <3> QED BY <2>1, <2>2, <3>1, <3>2, <3>4
    <2>3. CASE n = 0
      BY <2>1, <2>3
    <2> QED BY <2>2, <2>3
  <1>8. f = [n \in Ints |->
               IF n = 0 THEN <<>> ELSE <<Digit(Remainder(n, base), 97)>> \o f[Quotient(n, base)]]
    BY <1>7
  <1>9. c = [n \in Ints |->
               IF n = 0 THEN <<>> ELSE <<Digit(Remainder(n, base), 97)>> \o c[Quotient(n, base)]]
    BY <1>8
  <1>10. \A n \in Ints : LowFirst(n, base) = c[n]
    BY DEF LowFirst
  <1> HIDE DEF c
  <1> QED BY <1>9, <1>10 DEF LowLoop

LEMMA ReverseIs ==
  ASSUME NEW X, NEW s \in Seq(X), NEW n \in Nat, n = Len(s)
  PROVE  /\ Reverse(s) \in Seq(X) /\ Len(Reverse(s)) = n
         /\ \A k \in 1 .. n : Reverse(s)[k] = s[(n - k) + 1]
  <1>1. Reverse(s) = [i \in 1 .. n |-> s[(n - i) + 1]]
    BY DEF Reverse
  <1>2. \A k \in 1 .. n : s[k] \in X
    BY LenProperties
  <1>3. \A k \in 1 .. n : (n - k) + 1 \in 1 .. n
    OBVIOUS
  <1>4. \A k \in 1 .. n : s[(n - k) + 1] \in X
    BY <1>2, <1>3
  <1>5. [i \in 1 .. n |-> s[(n - i) + 1]] \in Seq(X)
    BY <1>4
  <1>6. Len(Reverse(s)) = n
    BY <1>1
  <1> QED BY <1>1, <1>5, <1>6

LEMMA FrontIs ==
  ASSUME NEW X, NEW s \in Seq(X), NEW d \in X, NEW n \in Nat, n = Len(s)
  PROVE  /\ <<d>> \o s \in Seq(X) /\ Len(<<d>> \o s) = n + 1
         /\ (<<d>> \o s)[1] = d
         /\ \A k \in 1 .. n : (<<d>> \o s)[k + 1] = s[k]
  OBVIOUS

LEMMA ReverseFront ==
  ASSUME NEW X, NEW s \in Seq(X), NEW d \in X
  PROVE  Reverse(<<d>> \o s) = Append(Reverse(s), d)
  <1> DEFINE u == <<d>> \o s
             r == Reverse(s)
             v == Append(r, d)
             w == Reverse(u)
  <1>1. PICK n \in Nat : n = Len(s)
    BY LenProperties
  <1>2. u \in Seq(X) /\ Len(u) = n + 1 /\ u[1] = d /\ \A k \in 1 .. n : u[k + 1] = s[k]
    BY <1>1, FrontIs
  <1>3. r \in Seq(X) /\ Len(r) = n /\ \A k \in 1 .. n : r[k] = s[(n - k) + 1]
    BY <1>1, ReverseIs
  <1>4. v \in Seq(X) /\ Len(v) = n + 1 /\ (\A k \in 1 .. n : v[k] = r[k]) /\ v[n + 1] = d
    <2> HIDE DEF r
    <2> QED BY <1>3, AppendIs
  <1>5. w \in Seq(X) /\ Len(w) = n + 1 /\ \A k \in 1 .. n + 1 : w[k] = u[(n + 1 - k) + 1]
    <2> HIDE DEF u
    <2>1. n + 1 \in Nat
      OBVIOUS
    <2> QED BY <1>2, <2>1, ReverseIs
  <1> HIDE DEF u, r, v, w
  <1>6. ASSUME NEW k \in 1 .. n + 1 PROVE w[k] = v[k]
    <2>1. CASE k = n + 1
      BY <1>2, <1>4, <1>5, <2>1
    <2>2. CASE k \in 1 .. n
      <3>1. PICK j \in 1 .. n : j = (n - k) + 1
        BY <2>2
      <3>2. w[k] = u[j + 1]
        BY <1>5, <3>1
      <3> QED BY <1>2, <1>3, <1>4, <2>2, <3>1, <3>2
    <2> QED BY <2>1, <2>2
  <1>7. w = v
    BY <1>4, <1>5, <1>6, SeqEqual
  <1> QED BY <1>7 DEF u, r, v, w

LEMMA ReverseBack ==
  ASSUME NEW X, NEW s \in Seq(X), NEW d \in X
  PROVE  Reverse(Append(s, d)) = <<d>> \o Reverse(s)
  <1> DEFINE u == Append(s, d)
             r == Reverse(s)
             v == <<d>> \o r
             w == Reverse(u)
  <1>1. PICK n \in Nat : n = Len(s)
    BY LenProperties
  <1>2. u \in Seq(X) /\ Len(u) = n + 1 /\ u[n + 1] = d /\ \A k \in 1 .. n : u[k] = s[k]
    BY <1>1, AppendIs
  <1>3. r \in Seq(X) /\ Len(r) = n /\ \A k \in 1 .. n : r[k] = s[(n - k) + 1]
    BY <1>1, ReverseIs
  <1>4. v \in Seq(X) /\ Len(v) = n + 1 /\ (\A k \in 1 .. n : v[k + 1] = r[k]) /\ v[1] = d
    <2> HIDE DEF r
    <2> QED BY <1>3, FrontIs
  <1>5. w \in Seq(X) /\ Len(w) = n + 1 /\ \A k \in 1 .. n + 1 : w[k] = u[(n + 1 - k) + 1]
    <2> HIDE DEF u
    <2>1. n + 1 \in Nat
      OBVIOUS
    <2> QED BY <1>2, <2>1, ReverseIs
  <1> HIDE DEF u, r, v, w
  <1>6. ASSUME NEW k \in 1 .. n + 1 PROVE w[k] = v[k]
    <2>1. CASE k = 1
      BY <1>2, <1>4, <1>5, <2>1
    <2>2. CASE k # 1
      <3>1. PICK i \in 1 .. n, j \in 1 .. n : k = i + 1 /\ j = (n - i) + 1
        <4>1. k - 1 \in 1 .. n /\ k = (k - 1) + 1 /\ (n - (k - 1)) + 1 \in 1 .. n
          BY <2>2
        <4> QED BY <4>1
      <3>2. w[k] = u[j]
        BY <1>5, <3>1
      <3> QED BY <1>2, <1>3, <1>4, <3>1, <3>2
    <2> QED BY <2>1, <2>2
  <1>7. w = v
    BY <1>4, <1>5, <1>6, SeqEqual
  <1> QED BY <1>7 DEF u, r, v, w

LEMMA TailOfFront ==
  ASSUME NEW X, NEW s \in Seq(X), NEW d \in X
  PROVE  /\ <<d>> \o s \in Seq(X) /\ (<<d>> \o s)[1] = d /\ <<d>> \o s # <<>>
         /\ Tail(<<d>> \o s) = s /\ Len(s) \in Nat /\ Len(<<d>> \o s) = Len(s) + 1
  <1> DEFINE u == <<d>> \o s
             t == Tail(u)
  <1>1. PICK n \in Nat : n = Len(s)
    BY LenProperties
  <1>2. u \in Seq(X) /\ Len(u) = n + 1 /\ u[1] = d /\ \A k \in 1 .. n : u[k + 1] = s[k]
    BY <1>1, FrontIs
  <1> HIDE DEF u
  <1>3. u # <<>>
    BY <1>2
  <1>4. t \in Seq(X) /\ Len(t) = Len(u) - 1 /\ \A i \in 1 .. Len(t) : t[i] = u[i + 1]
    BY <1>2, <1>3, HeadTailProperties
  <1> HIDE DEF t
  <1>5. Len(t) = n /\ \A i \in 1 .. n : t[i] = s[i]
    BY <1>2, <1>4
  <1>6. t = s
    BY <1>1, <1>4, <1>5, SeqEqual
  <1> QED BY <1>1, <1>2, <1>3, <1>6 DEF u, t

(* The digits of a number, the lowest first, read backwards.               *)
LEMMA LowPrints ==
  ASSUME NEW b \in 2 .. 36, NEW num \in Ints, num > 0
  PROVE  LowFirst(num, b) \in Seq(Int) /\ Prints(Reverse(LowFirst(num, b)), num, b)
  <1>1. PICK g : LowLoop(g, b) /\ \A n \in Ints : LowFirst(n, b) = g[n]
    BY LowTurns
  <1>2. IntMax \in Nat /\ Ints = -IntMax - 1 .. IntMax
    BY NumbersAssumption DEF Ints, IntMin
  <1> DEFINE Right(n) == g[n] \in Seq(Int) /\ Prints(Reverse(g[n]), n, b)
             S == {k \in Nat : \A n \in Ints : n > 0 /\ n < k => Right(n)}
  <1>3. 0 \in S
    BY <1>2
  <1>4. ASSUME NEW k \in S PROVE k + 1 \in S
    <2> SUFFICES ASSUME NEW n \in Ints, n = k, n > 0 PROVE Right(n)
      BY <1>2
    <2>1. n \in Nat /\ b \in Nat /\ b >= 2
      BY <1>2
    <2>0. PICK r : r = Remainder(n, b)
      OBVIOUS
    <2>2. PICK q \in Ints : q = Quotient(n, b)
      BY Halving
    <2>3. Divides(n, b, q, r) /\ q \in 0 .. n - 1 /\ Digit(r, 97) \in Int
      <3>1. n > 0 /\ n >= 0
        BY <2>1
      <3>2. /\ Divides(n, b, Quotient(n, b), Remainder(n, b)) /\ Quotient(n, b) \in 0 .. n - 1
            /\ Digit(Remainder(n, b), 97) \in Int
        BY <3>1, Halving
      <3> QED BY <2>0, <2>2, <3>2
    <2>4. r \in 0 .. b - 1 /\ n = b * q + r
      BY <2>3 DEF Divides
    <2>5. PICK d \in Int : d = Digit(r, 97)
      BY <2>3
    <2>6. g[n] = <<d>> \o g[q]
      <3>1. g[n] = IF n = 0 THEN <<>> ELSE <<Digit(Remainder(n, b), 97)>> \o g[Quotient(n, b)]
        BY <1>1 DEF LowLoop
      <3>2. n # 0
        BY <2>1
      <3> QED BY <2>0, <2>2, <2>5, <3>1, <3>2
    <2>7. CASE q = 0
      <3>1. g[q] = <<>>
        BY <1>1, <2>7 DEF LowLoop
      <3>2. <<>> \in Seq(Int) /\ <<d>> \o <<>> = <<d>> /\ <<d>> \in Seq(Int) /\ Append(<<>>, d) = <<d>>
        OBVIOUS
      <3>3. Reverse(<<>>) = <<>>
        BY DEF Reverse
      <3>4. Reverse(g[n]) = <<d>>
        BY <2>6, <3>1, <3>2, <3>3, ReverseFront
      <3>5. r = n
        BY <2>1, <2>4, <2>7
      <3>6. Prints(<<d>>, r, b)
        BY <2>4, <2>5, OneDigit, TwoLetters
      <3> QED BY <2>6, <3>1, <3>2, <3>4, <3>5, <3>6
    <2>8. CASE q # 0
      <3>1. q > 0 /\ q < k
        BY <2>3, <2>8
      <3>2. Right(q)
        BY <3>1
      <3>3. Prints(Append(Reverse(g[q]), d), n, b)
        BY <2>1, <2>3, <2>5, <2>8, <3>2, MoreDigits, TwoLetters
      <3>4. Reverse(g[n]) = Append(Reverse(g[q]), d)
        BY <2>6, <3>2, ReverseFront
      <3>5. g[n] \in Seq(Int)
        BY <2>6, <3>2
      <3> QED BY <3>3, <3>4, <3>5
    <2> QED BY <2>7, <2>8
  <1>5. num + 1 \in S
    <2> HIDE DEF S
    <2>1. num + 1 \in Nat
      BY <1>2
    <2> QED BY <1>3, <1>4, <2>1, Induction
  <1>6. Right(num)
    <2>1. num < num + 1
      BY <1>2
    <2> HIDE DEF Right
    <2> QED BY <1>5, <2>1
  <1> QED BY <1>1, <1>6

(* itoa writes a text for a number that is not negative, and in base 10    *)
(* the sign before a text for one that is.                                 *)
LEMMA ItoaPrints ==
  ASSUME NEW b \in 2 .. 36, NEW n \in Ints \ {IntMin}
  PROVE  /\ n >= 0 => Prints(itoa(n, b), n, b)
         /\ n < 0 /\ b = 10 => \E t : Prints(t, -n, 10) /\ itoa(n, b) = <<Minus>> \o t
  <1>1. IntMax \in Nat /\ Ints = -IntMax - 1 .. IntMax /\ IntMin = -IntMax - 1
    BY NumbersAssumption DEF Ints, IntMin
  <1>2. CASE n = 0
    <2>1. 0 \in 0 .. b - 1 /\ Digit(0, 97) = 48
      BY DEF Digit, Zero
    <2>2. Prints(<<Digit(0, 97)>>, 0, b)
      <3>1. PICK r \in 0 .. b - 1 : r = 0
        OBVIOUS
      <3>2. Prints(<<Digit(r, 97)>>, r, b)
        BY OneDigit, TwoLetters
      <3> QED BY <3>1, <3>2
    <2> QED BY <1>2, <2>1, <2>2 DEF itoa, Zero
  <1>3. CASE n > 0
    <2>1. LowFirst(n, b) \in Seq(Int) /\ Prints(Reverse(LowFirst(n, b)), n, b)
      BY <1>3, LowPrints
    <2>2. reverse(LowFirst(n, b)) = Reverse(LowFirst(n, b))
      BY <2>1, ReverseReverses
    <2>3. itoa(n, b) = reverse(LowFirst(n, b))
      BY <1>1, <1>3 DEF itoa
    <2> QED BY <1>1, <1>3, <2>1, <2>2, <2>3
  <1>4. CASE n < 0 /\ b = 10
    <2>1. PICK m \in Ints : m = -n /\ m > 0
      BY <1>1, <1>4
    <2>2. PICK s \in Seq(Int) : s = LowFirst(m, 10) /\ Prints(Reverse(s), m, 10)
      BY <2>1, LowPrints
    <2>3. Minus \in Int
      BY DEF Minus
    <2>4. Append(s, Minus) \in Seq(Int)
      BY <2>3
    <2>5. reverse(Append(s, Minus)) = Reverse(Append(s, Minus))
      BY <2>4, ReverseReverses
    <2>6. Reverse(Append(s, Minus)) = <<Minus>> \o Reverse(s)
      BY <2>3, ReverseBack
    <2>7. itoa(n, b) = reverse(Append(s, Minus))
      BY <1>1, <1>4, <2>1, <2>2 DEF itoa
    <2>8. itoa(n, b) = <<Minus>> \o Reverse(s) /\ Prints(Reverse(s), -n, 10)
      BY <2>1, <2>2, <2>5, <2>6, <2>7
    <2>9. ~ (n >= 0)
      BY <1>1, <1>4
    <2> QED BY <2>8, <2>9
  <1>5. CASE n < 0 /\ b # 10
    BY <1>1, <1>5
  <1> QED BY <1>1, <1>2, <1>3, <1>4, <1>5

\* what atoi makes of the digits of a numeral
Read(digits) ==
  LET res[i \in 0 .. Len(digits)] == IF i = 0 THEN 0 ELSE res[i - 1] * 10 + digits[i] - Zero
  IN  res[Len(digits)]

Numeral(digits) == digits \in Seq(Int) /\ ToSet(digits) \subseteq 48 .. 57

LEMMA ReadIsDenoted ==
  ASSUME NEW d, Numeral(d)
  PROVE  Read(d) = Denoted(d, 10)
  <1> DEFINE c == CHOOSE g : g = [i \in 0 .. Len(d) |-> IF i = 0 THEN 0 ELSE g[i - 1] * 10 + d[i] - Zero]
  <1>1. d \in Seq(Int) /\ 10 \in Nat
    BY DEF Numeral
  <1>2. PICK n \in Nat : n = Len(d)
    BY <1>1, LenProperties
  <1>3. PICK v : ValueLoop(v, d, 10) /\ Denoted(d, 10) = v[n]
    BY <1>1, <1>2, ValueTurns
  <1>4. v \in [0 .. n -> Int] /\ v[0] = 0
    BY <1>2, <1>3 DEF ValueLoop
  <1>5. ASSUME NEW k \in 1 .. n PROVE v[k] = v[k - 1] * 10 + d[k] - Zero
    <2>1. DOMAIN d = 1 .. n
      BY <1>1, <1>2, LenProperties
    <2>2. d[k] \in 48 .. 57
      BY <2>1 DEF Numeral, ToSet
    <2>3. DigitOf(d[k], 10) = d[k] - 48
      BY <2>2 DEF DigitOf
    <2>4. v[k] = v[k - 1] * 10 + DigitOf(d[k], 10)
      BY <1>2, <1>3 DEF ValueLoop
    <2>5. k - 1 \in 0 .. n
      OBVIOUS
    <2>6. v[k - 1] \in Int
      BY <1>4, <2>5
    <2>7. v[k - 1] * 10 + (d[k] - 48) = v[k - 1] * 10 + d[k] - 48
      BY <2>2, <2>6
    <2> QED BY <2>3, <2>4, <2>7 DEF Zero
  <1>6. v = [i \in 0 .. Len(d) |-> IF i = 0 THEN 0 ELSE v[i - 1] * 10 + d[i] - Zero]
    <2>1. ASSUME NEW i \in 0 .. n PROVE v[i] = IF i = 0 THEN 0 ELSE v[i - 1] * 10 + d[i] - Zero
      <3>1. i = 0 \/ i \in 1 .. n
        OBVIOUS
      <3> QED BY <1>4, <1>5, <3>1
    <2> QED BY <1>2, <1>4, <2>1
  <1>7. c = [i \in 0 .. Len(d) |-> IF i = 0 THEN 0 ELSE c[i - 1] * 10 + d[i] - Zero]
    BY <1>6
  <1>8. c[n] = Read(d)
    BY <1>2 DEF Read
  <1> HIDE DEF c
  <1>9. Alike(c, v, n)
    <2>1. ASSUME NEW k \in 1 .. n, c[k - 1] = v[k - 1] PROVE c[k] = v[k]
      <3>1. k \in 0 .. Len(d) /\ k # 0
        BY <1>2
      <3>2. c[k] = c[k - 1] * 10 + d[k] - Zero
        BY <1>7, <3>1
      <3> QED BY <1>5, <2>1, <3>2
    <2>2. c[0] = 0
      BY <1>2, <1>7
    <2> QED BY <1>4, <2>1, <2>2 DEF Alike
  <1>10. c[n] = v[n]
    BY <1>9, SameTurns
  <1> QED BY <1>3, <1>8, <1>10

\* atoi looks at the rest of a string that begins with a minus
Signed(str) == str # <<>> /\ str[1] = Minus
Rest(str)   == IF Signed(str) THEN Tail(str) ELSE str

LEMMA AtoiIs ==
  ASSUME NEW str \in Seq(Int)
  PROVE  /\ Rest(str) \in Seq(Int)
         /\ Numeral(Rest(str)) => atoi(str) = IF Signed(str) THEN -Denoted(Rest(str), 10)
                                                             ELSE Denoted(Rest(str), 10)
         /\ ~ Numeral(Rest(str)) => atoi(str) = 0
  <1> DEFINE d == Rest(str)
  <1>1. d \in Seq(Int)
    BY HeadTailProperties DEF Rest, Signed
  <1>2. atoi(str) = IF \E k \in DOMAIN d : ~ isNumericChar(d[k]) THEN 0
                    ELSE IF Signed(str) THEN -Read(d) ELSE Read(d)
    BY Zenon DEF atoi, Read, Rest, Signed
  <1> HIDE DEF d
  <1>3. (\E k \in DOMAIN d : ~ isNumericChar(d[k])) <=> ~ Numeral(d)
    <2>1. \A k \in DOMAIN d : isNumericChar(d[k]) <=> d[k] \in 48 .. 57
      BY DEF isNumericChar, Zero
    <2> HIDE DEF isNumericChar
    <2> QED BY <1>1, <2>1, Zenon DEF Numeral, ToSet
  <1>4. Numeral(d) => Read(d) = Denoted(d, 10)
    BY ReadIsDenoted
  <1> QED BY <1>1, <1>2, <1>3, <1>4, Zenon DEF d

LEMMA PrintsNumeral ==
  ASSUME NEW t, NEW n, Prints(t, n, 10)
  PROVE  Numeral(t) /\ ~ Signed(t)
  <1>1. t \in Seq(Int) /\ ToSet(t) \subseteq Digits(10) /\ t # <<>>
    BY DEF Prints, IsText, Digits
  <1>2. Digits(10) = 48 .. 57
    BY DEF Digits
  <1>3. t[1] \in ToSet(t)
    BY <1>1, LenProperties DEF ToSet
  <1>4. t[1] # 45
    BY <1>1, <1>2, <1>3
  <1> QED BY <1>1, <1>2, <1>4 DEF Numeral, Signed, Minus

(* atoi reads back what itoa has written in base 10.                       *)
LEMMA AtoiOfItoa ==
  ASSUME NEW n \in Ints \ {IntMin}
  PROVE  atoi(itoa(n, 10)) = n
  <1>1. n \in Int /\ 10 \in 2 .. 36
    BY NumbersAssumption DEF Ints, IntMin
  <1>2. CASE n >= 0
    <2>1. PICK t : t = itoa(n, 10) /\ Prints(t, n, 10)
      BY <1>1, <1>2, ItoaPrints
    <2>2. Numeral(t) /\ ~ Signed(t) /\ Rest(t) = t
      BY <2>1, PrintsNumeral DEF Rest
    <2>3. t \in Seq(Int) /\ Denoted(t, 10) = n
      BY <2>1 DEF Prints
    <2>4. atoi(t) = Denoted(t, 10)
      BY <2>2, <2>3, AtoiIs
    <2> QED BY <2>1, <2>3, <2>4
  <1>3. CASE n < 0
    <2>1. PICK t : Prints(t, -n, 10) /\ itoa(n, 10) = <<Minus>> \o t
      BY <1>1, <1>3, ItoaPrints
    <2>2. Numeral(t) /\ t \in Seq(Int) /\ Denoted(t, 10) = -n
      BY <2>1, PrintsNumeral DEF Prints
    <2>3. Minus \in Int
      BY DEF Minus
    <2> DEFINE u == <<Minus>> \o t
    <2>4. u \in Seq(Int) /\ u[1] = Minus /\ u # <<>> /\ Tail(u) = t
      BY <2>2, <2>3, TailOfFront
    <2> HIDE DEF u
    <2>5. Signed(u) /\ Rest(u) = t
      BY <2>4 DEF Signed, Rest
    <2>6. atoi(u) = -Denoted(t, 10)
      BY <2>2, <2>4, <2>5, AtoiIs
    <2>7. -(-n) = n
      BY <1>1
    <2> QED BY <2>1, <2>2, <2>6, <2>7 DEF u
  <1> QED BY <1>1, <1>2, <1>3

-----------------------------------------------------------------------------
(* What printf prints and what a reader of its format expects.             *)

Char    == STRING \cup {"%"}
Format  == Seq(Char)
Token   == {"literal", "argument"} \X Char
Lit(x)  == <<"literal", x>>

LEMMA TokenIs ==
  ASSUME NEW x \in Char
  PROVE  Lit(x) \in Token /\ Argument(x) \in Token
  BY DEF Token, Lit, Argument

LEMMA LiteralIs ==
  ASSUME NEW s \in Format
  PROVE  Literal(s) \in Seq(Token)
  <1>1. PICK n \in Nat : n = Len(s)
    BY LenProperties DEF Format
  <1>2. DOMAIN s = 1 .. n /\ \A k \in 1 .. n : s[k] \in Char
    BY <1>1, LenProperties DEF Format
  <1>3. \A k \in 1 .. n : <<"literal", s[k]>> \in Token
    BY <1>2, TokenIs DEF Lit
  <1>4. [k \in 1 .. n |-> <<"literal", s[k]>>] \in Seq(Token)
    BY <1>3
  <1> QED BY <1>2, <1>4 DEF Literal

LEMMA LiteralAppend ==
  ASSUME NEW s \in Format, NEW x \in Char
  PROVE  Literal(Append(s, x)) = Append(Literal(s), Lit(x))
  <1> DEFINE u == Append(s, x)
             l == Literal(s)
             v == Append(l, Lit(x))
             w == Literal(u)
  <1>1. PICK n \in Nat : n = Len(s)
    BY LenProperties DEF Format
  <1>2. u \in Format /\ Len(u) = n + 1 /\ (\A k \in 1 .. n : u[k] = s[k]) /\ u[n + 1] = x
    <2>1. s \in Seq(Char)
      BY DEF Format
    <2> QED BY <1>1, <2>1, AppendIs DEF Format
  <1>3. DOMAIN s = 1 .. n
    BY <1>1, LenProperties DEF Format
  <1>4. l \in Seq(Token) /\ Len(l) = n /\ \A k \in 1 .. n : l[k] = Lit(s[k])
    <2>1. l = [k \in 1 .. n |-> Lit(s[k])]
      BY <1>3 DEF Literal, Lit
    <2>2. l \in Seq(Token)
      BY LiteralIs
    <2> HIDE DEF l
    <2> QED BY <2>1, <2>2
  <1>5. v \in Seq(Token) /\ Len(v) = n + 1 /\ (\A k \in 1 .. n : v[k] = l[k]) /\ v[n + 1] = Lit(x)
    <2>1. Lit(x) \in Token
      BY TokenIs
    <2> HIDE DEF l
    <2> QED BY <1>4, <2>1, AppendIs
  <1> HIDE DEF u, l
  <1>6. DOMAIN u = 1 .. n + 1
    BY <1>2, LenProperties DEF Format
  <1>7. w = [k \in 1 .. n + 1 |-> Lit(u[k])] /\ w \in Seq(Token)
    BY <1>2, <1>6, LiteralIs DEF Literal, Lit
  <1> HIDE DEF v, w
  <1>8. Len(w) = n + 1 /\ \A k \in 1 .. n + 1 : w[k] = Lit(u[k])
    BY <1>7
  <1>9. ASSUME NEW k \in 1 .. n + 1 PROVE w[k] = v[k]
    <2>1. k \in 1 .. n \/ k = n + 1
      OBVIOUS
    <2> QED BY <1>2, <1>4, <1>5, <1>8, <2>1
  <1>10. w = v
    BY <1>5, <1>7, <1>8, <1>9, SeqEqual
  <1> QED BY <1>10 DEF u, v, w, l

LEMMA SliceGrows ==
  ASSUME NEW f \in Format, NEW n \in Nat, n = Len(f), NEW p \in 1 .. n, NEW m \in p .. n
  PROVE  /\ SubSeq(f, p, m - 1) \in Format /\ f[m] \in Char
         /\ SubSeq(f, p, m) = Append(SubSeq(f, p, m - 1), f[m])
  <1>1. \A k \in 1 .. n : f[k] \in Char
    BY LenProperties DEF Format
  <1>2. p \in 1 .. n /\ m \in 1 .. n /\ p \in Int /\ m - 1 \in Int
    OBVIOUS
  <1>3. \A i \in p .. m - 1 : f[i] \in Char
    BY <1>1, <1>2
  <1>4. SubSeq(f, p, m - 1) \in Format /\ f[m] \in Char
    BY <1>1, <1>2, <1>3, SubSeqProperties DEF Format
  <1>5. SubSeq(f, p, m) = SubSeq(f, p, m - 1) \o <<f[m]>>
    BY SubSeqRecursiveSecond DEF Format
  <1>6. SubSeq(f, p, m - 1) \o <<f[m]>> = Append(SubSeq(f, p, m - 1), f[m])
    BY <1>4, AppendIs DEF Format
  <1> QED BY <1>4, <1>5, <1>6

LEMMA ConcatAppend ==
  ASSUME NEW X, NEW o \in Seq(X), NEW l \in Seq(X), NEW c \in X
  PROVE  o \o Append(l, c) = Append(o \o l, c)
  <1>1. <<c>> \in Seq(X) /\ o \o l \in Seq(X)
    OBVIOUS
  <1>2. Append(l, c) = l \o <<c>> /\ Append(o \o l, c) = (o \o l) \o <<c>>
    BY <1>1, AppendIsConcat
  <1> QED BY <1>1, <1>2, ConcatAssociative

LEMMA OutputGrows ==
  ASSUME NEW f \in Format, NEW n \in Nat, n = Len(f), NEW o \in Seq(Token),
         NEW p \in 1 .. n, NEW i \in p .. n
  PROVE  o \o Literal(SubSeq(f, p, i)) = Append(o \o Literal(SubSeq(f, p, i - 1)), Lit(f[i]))
  <1>1. /\ SubSeq(f, p, i - 1) \in Format /\ f[i] \in Char
        /\ SubSeq(f, p, i) = Append(SubSeq(f, p, i - 1), f[i])
    BY SliceGrows
  <1>2. Literal(SubSeq(f, p, i)) = Append(Literal(SubSeq(f, p, i - 1)), Lit(f[i]))
    BY <1>1, LiteralAppend
  <1>3. PICK a \in Seq(Token), c \in Token : a = Literal(SubSeq(f, p, i - 1)) /\ c = Lit(f[i])
    BY <1>1, LiteralIs, TokenIs
  <1>4. o \o Append(a, c) = Append(o \o a, c)
    BY ConcatAppend
  <1> QED BY <1>2, <1>3, <1>4

\* what the reader knows when its last character was no "%" of a conversion, and when it was
Seen(bad, out)    == [percent |-> FALSE, bad |-> bad, out |-> out]
Pending(bad, out) == [percent |-> TRUE, bad |-> bad, out |-> out]

LEMMA ReadsAre ==
  ASSUME NEW bad \in BOOLEAN, NEW out, NEW x
  PROVE  /\ x # "%" => Reads(Seen(bad, out), x) = Seen(bad, Append(out, Lit(x)))
         /\ x = "%" => Reads(Seen(bad, out), x) = Pending(bad, out)
         /\ x = "%" => Reads(Pending(bad, out), x) = Seen(bad, Append(out, Lit(x)))
  BY DEF Reads, Lit, Seen, Pending

\* a conversion that printf knows, before it has met one that it does not
Known(x, bad) == x \in {"c", "s"} /\ ~ bad

LEMMA ReadsConversion ==
  ASSUME NEW bad \in BOOLEAN, NEW out, NEW x, Known(x, bad)
  PROVE  Reads(Pending(bad, out), x) = Seen(bad, Append(out, Argument(x)))
  BY DEF Reads, Seen, Pending, Known

LEMMA ReadsRejected ==
  ASSUME NEW bad \in BOOLEAN, NEW out, NEW x, x # "%", ~ Known(x, bad)
  PROVE  Reads(Pending(bad, out), x) = Seen(TRUE, out \o Literal(<<"%", x>>))
  BY DEF Reads, Seen, Pending, Known

LEMMA RunEndIs ==
  ASSUME NEW f \in Format, NEW n \in Nat, n = Len(f), NEW p \in 1 .. n
  PROVE  /\ RunEnd(f, p) \in p + 1 .. n + 1 /\ \A i \in p + 1 .. RunEnd(f, p) - 1 : f[i] # "%"
         /\ RunEnd(f, p) <= n => f[RunEnd(f, p)] = "%"
  <1> DEFINE s == SubSeq(f, p + 1, n)
             I == {i \in 1 .. Len(s) : s[i] = "%"}
  <1>1. \A i \in 1 .. n : f[i] \in Char
    BY LenProperties DEF Format
  <1>2. \A i \in p + 1 .. n : f[i] \in Char
    BY <1>1
  <1>3. Len(s) = (IF p + 1 <= n THEN n - (p + 1) + 1 ELSE 0)
        /\ \A i \in 1 .. n - (p + 1) + 1 : s[i] = f[p + 1 + i - 1]
    <2>1. p + 1 \in Int /\ n \in Int
      OBVIOUS
    <2> QED BY <1>2, <2>1, SubSeqProperties
  <1>4. RunEnd(f, p) = IF (IF I # {} THEN Min(I) ELSE 0) = 0 THEN n + 1
                       ELSE p + (IF I # {} THEN Min(I) ELSE 0)
    BY DEF RunEnd, SelectInSeq
  <1> HIDE DEF s
  <1>5. Len(s) = n - p /\ \A i \in 1 .. n - p : s[i] = f[p + i]
    <2>1. Len(s) = n - p
      BY <1>3
    <2>2. \A i \in 1 .. n - p : p + 1 + i - 1 = p + i /\ i \in 1 .. n - (p + 1) + 1
      OBVIOUS
    <2> QED BY <1>3, <2>1, <2>2
  <1>6. CASE I = {}
    <2>1. ASSUME NEW i \in p + 1 .. n PROVE f[i] # "%"
      <3>1. i - p \in 1 .. n - p /\ p + (i - p) = i
        OBVIOUS
      <3>2. s[i - p] # "%"
        BY <1>5, <1>6, <3>1
      <3> QED BY <1>5, <3>1, <3>2
    <2>2. RunEnd(f, p) = n + 1
      BY <1>4, <1>6
    <2>3. ~ (RunEnd(f, p) <= n)
      BY <2>2
    <2> QED BY <2>1, <2>2, <2>3
  <1>7. CASE I # {}
    <2>1. I \in SUBSET Nat
      BY <1>5
    <2>2. PICK m \in I : m = Min(I) /\ \A y \in I : m <= y
      <3> HIDE DEF I
      <3> QED BY <1>7, <2>1, MinIsLeast
    <2>3. m \in 1 .. n - p
      BY <1>5, <2>2
    <2>4. RunEnd(f, p) = p + m
      <3> HIDE DEF I
      <3> QED BY <1>4, <1>7, <2>2, <2>3
    <2>5. ASSUME NEW i \in p + 1 .. p + m - 1 PROVE f[i] # "%"
      <3>1. i - p \in 1 .. n - p /\ p + (i - p) = i /\ ~ (m <= i - p)
        BY <2>3
      <3>2. s[i - p] # "%"
        BY <1>5, <2>2, <3>1
      <3> QED BY <1>5, <3>1, <3>2
    <2>6. f[p + m] = "%"
      BY <1>5, <2>2, <2>3
    <2> QED BY <2>3, <2>4, <2>5, <2>6
  <1> QED BY <1>6, <1>7

\* what the reader knows after each character
ReadLoop(e, f, n) ==
  /\ e[0] = Seen(FALSE, <<>>)
  /\ \A k \in 1 .. n : e[k] = Reads(e[k - 1], f[k])
Plain(e, k, bad, out) == e[k] = Seen(bad, out)
NoPercent(f, from, to) == \A i \in from .. to : f[i] # "%"

(* Characters that are no "%" are printed as they are.                     *)
LEMMA RunIsRead ==
  ASSUME NEW f \in Format, NEW n \in Nat, n = Len(f), NEW e, ReadLoop(e, f, n),
         NEW o \in Seq(Token), NEW bad \in BOOLEAN,
         NEW p \in 1 .. n, NEW m \in p - 1 .. n, NEW last \in m .. n,
         Plain(e, m, bad, o \o Literal(SubSeq(f, p, m))), NoPercent(f, m + 1, last)
  PROVE  Plain(e, last, bad, o \o Literal(SubSeq(f, p, last)))
  <1> DEFINE S == {k \in Nat : m + k <= last =>
                     Plain(e, m + k, bad, o \o Literal(SubSeq(f, p, m + k)))}
  <1>1. 0 \in S
    <2>1. m + 0 = m
      OBVIOUS
    <2> QED BY <2>1
  <1>2. ASSUME NEW k \in Nat, k \in S PROVE k + 1 \in S
    <2> SUFFICES ASSUME m + (k + 1) <= last
                 PROVE  Plain(e, m + (k + 1), bad, o \o Literal(SubSeq(f, p, m + (k + 1))))
      OBVIOUS
    <2>1. PICK i \in p .. n : i = m + (k + 1) /\ i - 1 = m + k /\ i \in m + 1 .. last /\ i \in 1 .. n
      OBVIOUS
    <2>2. Plain(e, i - 1, bad, o \o Literal(SubSeq(f, p, i - 1)))
      BY <1>2, <2>1
    <2>3. f[i] # "%"
      BY <2>1 DEF NoPercent
    <2>4. e[i] = Reads(e[i - 1], f[i])
      BY <2>1 DEF ReadLoop
    <2>5. e[i] = Seen(bad, Append(o \o Literal(SubSeq(f, p, i - 1)), Lit(f[i])))
      <3>1. PICK a, x : a = o \o Literal(SubSeq(f, p, i - 1)) /\ x = f[i]
        OBVIOUS
      <3>2. Reads(Seen(bad, a), x) = Seen(bad, Append(a, Lit(x)))
        BY <2>3, <3>1, ReadsAre
      <3>3. e[i - 1] = Seen(bad, a)
        BY <2>2, <3>1 DEF Plain
      <3> QED BY <2>4, <3>1, <3>2, <3>3
    <2>6. o \o Literal(SubSeq(f, p, i)) = Append(o \o Literal(SubSeq(f, p, i - 1)), Lit(f[i]))
      BY <2>1, OutputGrows
    <2> QED BY <2>1, <2>5, <2>6 DEF Plain
  <1>3. last - m \in S
    <2> HIDE DEF S
    <2>1. last - m \in Nat
      OBVIOUS
    <2> QED BY <1>1, <1>2, <2>1, Induction
  <1>4. m + (last - m) = last
    OBVIOUS
  <1> QED BY <1>3, <1>4

\* printf's loop at format[p]
LoopAt(p, rejected, out) == [p |-> p, rejected |-> rejected, out |-> out]

\* what is printed when a run of characters that starts at q is
RunFrom(f, q, out) == out \o Literal(SubSeq(f, q, RunEnd(f, q) - 1))

LEMMA TurnAtEnd ==
  ASSUME NEW f, NEW n \in Nat, n = Len(f), NEW p \in 1 .. n + 1, NEW rejected \in BOOLEAN, NEW out,
         p = n + 1
  PROVE  PrintfTurn(f, LoopAt(p, rejected, out)) = LoopAt(p, rejected, out)
  <1>1. PICK st : st = LoopAt(p, rejected, out)
    OBVIOUS
  <1>2. st.p = p /\ st.rejected = rejected /\ st.out = out
    BY <1>1 DEF LoopAt
  <1>3. PrintfTurn(f, st) = LoopAt(p, rejected, out)
    BY <1>1, <1>2 DEF PrintfTurn
  <1> QED BY <1>1, <1>3

LEMMA TurnRuns ==
  ASSUME NEW f, NEW n \in Nat, n = Len(f), NEW p \in 1 .. n + 1, NEW rejected \in BOOLEAN, NEW out,
         p # n + 1, f[p] # "%"
  PROVE  PrintfTurn(f, LoopAt(p, rejected, out)) = LoopAt(RunEnd(f, p), rejected, RunFrom(f, p, out))
  <1>1. PICK st : st = LoopAt(p, rejected, out)
    OBVIOUS
  <1>2. st.p = p /\ st.rejected = rejected /\ st.out = out
    BY <1>1 DEF LoopAt
  <1>3. PrintfTurn(f, st) = LoopAt(RunEnd(f, p), rejected, RunFrom(f, p, out))
    BY <1>1, <1>2 DEF PrintfTurn, LoopAt, RunFrom
  <1> QED BY <1>1, <1>3

LEMMA TurnPercent ==
  ASSUME NEW f, NEW n \in Nat, n = Len(f), NEW p \in 1 .. n + 1, NEW rejected \in BOOLEAN, NEW out,
         p < n, f[p] = "%", f[p + 1] = "%"
  PROVE  PrintfTurn(f, LoopAt(p, rejected, out)) = LoopAt(RunEnd(f, p + 1), rejected, RunFrom(f, p + 1, out))
  <1>1. PICK st : st = LoopAt(p, rejected, out)
    OBVIOUS
  <1>2. st.p = p /\ st.rejected = rejected /\ st.out = out
    BY <1>1 DEF LoopAt
  <1>3. PrintfTurn(f, st) = LoopAt(RunEnd(f, p + 1), rejected, RunFrom(f, p + 1, out))
    BY <1>1, <1>2 DEF PrintfTurn, LoopAt, RunFrom
  <1> QED BY <1>1, <1>3

LEMMA TurnConverts ==
  ASSUME NEW f, NEW n \in Nat, n = Len(f), NEW p \in 1 .. n + 1, NEW rejected \in BOOLEAN, NEW out,
         p < n, f[p] = "%", Known(f[p + 1], rejected)
  PROVE  PrintfTurn(f, LoopAt(p, rejected, out)) = LoopAt(p + 2, rejected, Append(out, Argument(f[p + 1])))
  <1>1. PICK st : st = LoopAt(p, rejected, out)
    OBVIOUS
  <1>2. st.p = p /\ st.rejected = rejected /\ st.out = out
    BY <1>1 DEF LoopAt
  <1>3. PrintfTurn(f, st) = LoopAt(p + 2, rejected, Append(out, Argument(f[p + 1])))
    BY <1>1, <1>2 DEF PrintfTurn, LoopAt, Known
  <1> QED BY <1>1, <1>3

\* at the end of the format, or before a character that makes it no conversion
Rejects(f, n, p, rejected) == p < n => f[p + 1] # "%" /\ ~ Known(f[p + 1], rejected)

\* what is printed when the format ends
Finish(e) == IF e.percent THEN Append(e.out, Lit("%")) ELSE e.out

LEMMA FinishIs ==
  ASSUME NEW bad, NEW out
  PROVE  Finish(Seen(bad, out)) = out /\ Finish(Pending(bad, out)) = Append(out, Lit("%"))
  BY DEF Finish, Seen, Pending

\* the loop is at format[p] and has printed what the reader of the characters before expects
Here(e, n, p, rejected, out) ==
  /\ p \in 1 .. n + 1 /\ rejected \in BOOLEAN /\ out \in Seq(Token)
  /\ p <= n => Plain(e, p - 1, rejected, out)
  /\ p = n + 1 => Finish(e[n]) = out

LEMMA SliceIs ==
  ASSUME NEW f \in Format, NEW n \in Nat, n = Len(f), NEW p \in 1 .. n + 1, NEW m \in p - 1 .. n
  PROVE  /\ SubSeq(f, p, m) \in Format /\ Literal(SubSeq(f, p, m)) \in Seq(Token)
         /\ m = p - 1 => Literal(SubSeq(f, p, m)) = <<>>
  <1>1. \A i \in 1 .. n : f[i] \in Char
    BY LenProperties DEF Format
  <1>2. \A i \in p .. m : f[i] \in Char
    BY <1>1
  <1>3. SubSeq(f, p, m) \in Format
    <2>1. p \in Int /\ m \in Int
      OBVIOUS
    <2> QED BY <1>2, <2>1, SubSeqProperties DEF Format
  <1>4. ASSUME m = p - 1 PROVE SubSeq(f, p, m) = <<>>
    <2>1. p \in Int /\ m \in Int /\ m < p
      BY <1>4
    <2> QED BY <2>1, SubSeqEmpty
  <1>5. Literal(<<>>) = <<>>
    BY DEF Literal
  <1> QED BY <1>3, <1>4, <1>5, LiteralIs

LEMMA AfterRun ==
  ASSUME NEW f \in Format, NEW n \in Nat, n = Len(f), NEW e, ReadLoop(e, f, n),
         NEW o \in Seq(Token), NEW bad \in BOOLEAN,
         NEW p \in 1 .. n, NEW m \in p - 1 .. n, NEW q \in m + 1 .. n + 1,
         Plain(e, m, bad, o \o Literal(SubSeq(f, p, m))), NoPercent(f, m + 1, q - 1)
  PROVE  Here(e, n, q, bad, o \o Literal(SubSeq(f, p, q - 1)))
  <1> DEFINE l == Literal(SubSeq(f, p, q - 1))
  <1>1. q - 1 \in m .. n /\ q - 1 \in p - 1 .. n /\ q \in 1 .. n + 1 /\ (q = n + 1 => q - 1 = n)
    OBVIOUS
  <1>2. Plain(e, q - 1, bad, o \o l)
    BY <1>1, RunIsRead
  <1>3. l \in Seq(Token)
    BY <1>1, SliceIs
  <1> HIDE DEF l
  <1>4. o \o l \in Seq(Token)
    BY <1>3
  <1>5. ASSUME q = n + 1 PROVE Finish(e[n]) = o \o l
    <2>1. e[n] = Seen(bad, o \o l)
      BY <1>1, <1>2, <1>5 DEF Plain
    <2>2. Finish(Seen(bad, o \o l)) = o \o l
      BY FinishIs
    <2> QED BY <2>1, <2>2
  <1> QED BY <1>1, <1>2, <1>4, <1>5, Zenon DEF Here, l

\* the loop gets from p to q and has printed what the reader expects there too
Advances(e, f, n, p, rejected, out) ==
  \E q, rj, o :
    /\ PrintfTurn(f, LoopAt(p, rejected, out)) = LoopAt(q, rj, o)
    /\ Here(e, n, q, rj, o) /\ q >= p + 1

LEMMA RunAdvances ==
  ASSUME NEW f \in Format, NEW n \in Nat, n = Len(f), NEW e, ReadLoop(e, f, n),
         NEW rejected \in BOOLEAN, NEW out \in Seq(Token), NEW p \in 1 .. n,
         Plain(e, p - 1, rejected, out), f[p] # "%"
  PROVE  Advances(e, f, n, p, rejected, out)
  <1>1. PICK q \in p + 1 .. n + 1 : q = RunEnd(f, p) /\ \A i \in p + 1 .. q - 1 : f[i] # "%"
    BY RunEndIs
  <1>2. NoPercent(f, (p - 1) + 1, q - 1)
    <2>1. ASSUME NEW i \in (p - 1) + 1 .. q - 1 PROVE f[i] # "%"
      <3>1. i = p \/ i \in p + 1 .. q - 1
        OBVIOUS
      <3> QED BY <1>1, <3>1
    <2> QED BY <2>1 DEF NoPercent
  <1>3. p - 1 \in p - 1 .. n /\ p \in 1 .. n + 1 /\ q \in (p - 1) + 1 .. n + 1 /\ q >= p + 1 /\ p # n + 1
    BY <1>1
  <1>4. Literal(SubSeq(f, p, p - 1)) = <<>>
    BY <1>3, SliceIs
  <1>5. Plain(e, p - 1, rejected, out \o Literal(SubSeq(f, p, p - 1)))
    <2>1. out \o <<>> = out
      BY ConcatEmptySeq
    <2> QED BY <1>4, <2>1
  <1>6. Here(e, n, q, rejected, out \o Literal(SubSeq(f, p, q - 1)))
    BY <1>2, <1>3, <1>5, AfterRun
  <1>7. PrintfTurn(f, LoopAt(p, rejected, out))
          = LoopAt(q, rejected, out \o Literal(SubSeq(f, p, q - 1)))
    BY <1>1, <1>3, TurnRuns DEF RunFrom
  <1> QED BY <1>3, <1>6, <1>7, Zenon DEF Advances

LEMMA PercentAdvances ==
  ASSUME NEW f \in Format, NEW n \in Nat, n = Len(f), NEW e, ReadLoop(e, f, n),
         NEW rejected \in BOOLEAN, NEW out \in Seq(Token), NEW p \in 1 .. n,
         Plain(e, p - 1, rejected, out), f[p] = "%", p < n, f[p + 1] = "%"
  PROVE  Advances(e, f, n, p, rejected, out)
  <1>1. p + 1 \in 1 .. n /\ p \in 1 .. n + 1 /\ p # n + 1 /\ (p + 1) - 1 = p
    OBVIOUS
  <1>2. PICK q \in p + 2 .. n + 1 : q = RunEnd(f, p + 1) /\ \A i \in p + 2 .. q - 1 : f[i] # "%"
    <2>1. RunEnd(f, p + 1) \in (p + 1) + 1 .. n + 1
          /\ \A i \in (p + 1) + 1 .. RunEnd(f, p + 1) - 1 : f[i] # "%"
      BY <1>1, RunEndIs
    <2>2. (p + 1) + 1 = p + 2
      OBVIOUS
    <2> QED BY <2>1, <2>2
  <1>3. e[p] = Pending(rejected, out)
    <2>1. e[p] = Reads(e[p - 1], f[p])
      BY DEF ReadLoop
    <2>2. e[p - 1] = Seen(rejected, out)
      BY DEF Plain
    <2>3. Reads(Seen(rejected, out), f[p]) = Pending(rejected, out)
      BY ReadsAre
    <2> QED BY <2>1, <2>2, <2>3
  <1>4. e[p + 1] = Seen(rejected, Append(out, Lit(f[p + 1])))
    <2>1. e[p + 1] = Reads(e[p], f[p + 1])
      BY <1>1 DEF ReadLoop
    <2>2. Reads(Pending(rejected, out), f[p + 1]) = Seen(rejected, Append(out, Lit(f[p + 1])))
      BY ReadsAre
    <2> QED BY <1>3, <2>1, <2>2
  <1>5. out \o Literal(SubSeq(f, p + 1, p + 1)) = Append(out, Lit(f[p + 1]))
    <2>1. p + 1 \in p + 1 .. n
      BY <1>1
    <2>2. /\ SubSeq(f, p + 1, p) \in Format /\ f[p + 1] \in Char
          /\ SubSeq(f, p + 1, p + 1) = Append(SubSeq(f, p + 1, p), f[p + 1])
      BY <1>1, <2>1, SliceGrows
    <2>3. Literal(SubSeq(f, p + 1, p + 1)) = Append(Literal(SubSeq(f, p + 1, p)), Lit(f[p + 1]))
      BY <2>2, LiteralAppend
    <2>4. Literal(SubSeq(f, p + 1, p)) = <<>>
      <3>1. p \in (p + 1) - 1 .. n /\ p + 1 \in 1 .. n + 1 /\ p = (p + 1) - 1
        OBVIOUS
      <3> QED BY <3>1, SliceIs
    <2>5. Append(<<>>, Lit(f[p + 1])) = <<Lit(f[p + 1])>> /\ Lit(f[p + 1]) \in Token
      BY <2>2, TokenIs
    <2> QED BY <2>3, <2>4, <2>5, AppendIsConcat
  <1>6. Plain(e, p + 1, rejected, out \o Literal(SubSeq(f, p + 1, p + 1)))
    BY <1>4, <1>5 DEF Plain
  <1>7. NoPercent(f, (p + 1) + 1, q - 1)
    <2>1. (p + 1) + 1 = p + 2
      OBVIOUS
    <2> QED BY <1>2, <2>1 DEF NoPercent
  <1>8. p + 1 \in (p + 1) - 1 .. n /\ q \in (p + 1) + 1 .. n + 1 /\ q >= p + 1
    BY <1>1, <1>2
  <1>9. Here(e, n, q, rejected, out \o Literal(SubSeq(f, p + 1, q - 1)))
    BY <1>1, <1>6, <1>7, <1>8, AfterRun
  <1>10. PrintfTurn(f, LoopAt(p, rejected, out))
           = LoopAt(q, rejected, out \o Literal(SubSeq(f, p + 1, q - 1)))
    BY <1>1, <1>2, TurnPercent DEF RunFrom
  <1> QED BY <1>8, <1>9, <1>10, Zenon DEF Advances

LEMMA ConversionAdvances ==
  ASSUME NEW f \in Format, NEW n \in Nat, n = Len(f), NEW e, ReadLoop(e, f, n),
         NEW rejected \in BOOLEAN, NEW out \in Seq(Token), NEW p \in 1 .. n,
         Plain(e, p - 1, rejected, out), f[p] = "%", p < n, Known(f[p + 1], rejected)
  PROVE  Advances(e, f, n, p, rejected, out)
  <1>1. p + 1 \in 1 .. n /\ p \in 1 .. n + 1 /\ p # n + 1 /\ (p + 1) - 1 = p /\ (p + 2) - 1 = p + 1
        /\ p + 2 \in 1 .. n + 1 /\ p + 2 >= p + 1
    OBVIOUS
  <1>2. e[p] = Pending(rejected, out)
    <2>1. e[p] = Reads(e[p - 1], f[p])
      BY DEF ReadLoop
    <2>2. e[p - 1] = Seen(rejected, out)
      BY DEF Plain
    <2>3. Reads(Seen(rejected, out), f[p]) = Pending(rejected, out)
      BY ReadsAre
    <2> QED BY <2>1, <2>2, <2>3
  <1> DEFINE o == Append(out, Argument(f[p + 1]))
  <1>4. e[p + 1] = Seen(rejected, o)
    <2>1. e[p + 1] = Reads(e[p], f[p + 1])
      BY <1>1 DEF ReadLoop
    <2>2. Reads(Pending(rejected, out), f[p + 1]) = Seen(rejected, o)
      BY ReadsConversion
    <2> QED BY <1>2, <2>1, <2>2
  <1>5. o \in Seq(Token)
    <2>1. f[p + 1] \in Char
      BY <1>1, LenProperties DEF Format
    <2>2. Argument(f[p + 1]) \in Token
      BY <2>1, TokenIs
    <2> QED BY <2>2
  <1>6. PrintfTurn(f, LoopAt(p, rejected, out)) = LoopAt(p + 2, rejected, o)
    BY <1>1, TurnConverts
  <1> HIDE DEF o
  <1>7. Here(e, n, p + 2, rejected, o)
    <2>1. Plain(e, p + 1, rejected, o)
      BY <1>4 DEF Plain
    <2>2. ASSUME p + 2 = n + 1 PROVE Finish(e[n]) = o
      <3>1. e[n] = Seen(rejected, o)
        <4>1. n = p + 1
          BY <2>2
        <4> QED BY <1>4, <4>1
      <3> QED BY <3>1, FinishIs
    <2> QED BY <1>1, <1>5, <2>1, <2>2, Zenon DEF Here
  <1> QED BY <1>1, <1>6, <1>7, Zenon DEF Advances

LEMMA RejectedAdvances ==
  ASSUME NEW f \in Format, NEW n \in Nat, n = Len(f), NEW e, ReadLoop(e, f, n),
         NEW rejected \in BOOLEAN, NEW out \in Seq(Token), NEW p \in 1 .. n,
         Plain(e, p - 1, rejected, out), f[p] = "%",
         Rejects(f, n, p, rejected)
  PROVE  Advances(e, f, n, p, rejected, out)
  <1> DEFINE o(m) == out \o Literal(SubSeq(f, p, m))
  <1>1. p \in 1 .. n + 1 /\ p # n + 1
    OBVIOUS
  <1>2. PICK q \in p + 1 .. n + 1 : q = RunEnd(f, p) /\ (\A i \in p + 1 .. q - 1 : f[i] # "%")
                                     /\ (q <= n => f[q] = "%")
    BY RunEndIs
  <1>3. PrintfTurn(f, LoopAt(p, rejected, out)) = LoopAt(q, TRUE, o(q - 1))
    <2>1. PICK st : st = LoopAt(p, rejected, out)
      OBVIOUS
    <2>2. st.p = p /\ st.rejected = rejected /\ st.out = out
      BY <2>1 DEF LoopAt
    <2>3. PrintfTurn(f, st) = LoopAt(RunEnd(f, p), TRUE, RunFrom(f, p, out))
      BY <1>1, <2>2 DEF PrintfTurn, LoopAt, RunFrom, Known, Rejects
    <2> QED BY <1>2, <2>1, <2>3 DEF RunFrom
  <1>4. e[p] = Pending(rejected, out)
    <2>1. e[p] = Reads(e[p - 1], f[p])
      BY DEF ReadLoop
    <2>2. e[p - 1] = Seen(rejected, out)
      BY DEF Plain
    <2>3. Reads(Seen(rejected, out), f[p]) = Pending(rejected, out)
      BY ReadsAre
    <2> QED BY <2>1, <2>2, <2>3
  <1>5. SubSeq(f, p, p) = <<f[p]>> /\ f[p] \in Char
    <2>1. SubSeq(f, p, p - 1) \in Format /\ f[p] \in Char /\ SubSeq(f, p, p) = Append(SubSeq(f, p, p - 1), f[p])
      BY SliceGrows
    <2>2. SubSeq(f, p, p - 1) = <<>>
      <3>1. p \in Int /\ p - 1 \in Int /\ p - 1 < p
        OBVIOUS
      <3> QED BY <3>1, SubSeqEmpty
    <2>3. Append(<<>>, f[p]) = <<f[p]>>
      OBVIOUS
    <2> QED BY <2>1, <2>2, <2>3
  <1>6. CASE p = n
    <2>1. q = n + 1 /\ q - 1 = p
      BY <1>2, <1>6
    <2>2. Literal(<<f[p]>>) = <<Lit(f[p])>> /\ Lit(f[p]) \in Token
      <3>1. Append(<<>>, f[p]) = <<f[p]>> /\ <<>> \in Format
        BY DEF Format
      <3>2. Literal(<<f[p]>>) = Append(Literal(<<>>), Lit(f[p]))
        BY <1>5, <3>1, LiteralAppend
      <3>3. Literal(<<>>) = <<>>
        BY DEF Literal
      <3> QED BY <1>5, <3>2, <3>3, TokenIs
    <2>3. o(p) = Append(out, Lit("%"))
      BY <1>5, <2>2, AppendIsConcat
    <2>4. o(p) \in Seq(Token)
      BY <1>5, <2>2, <2>3
    <2>5. Finish(e[n]) = o(p)
      BY <1>4, <1>6, <2>3, FinishIs
    <2> HIDE DEF o
    <2>6. Here(e, n, q, TRUE, o(p))
      <3>1. ~ (q <= n) /\ q \in 1 .. n + 1
        BY <2>1
      <3> QED BY <2>4, <2>5, <3>1, Zenon DEF Here
    <2>7. q >= p + 1
      BY <1>2
    <2> QED BY <1>3, <2>1, <2>6, <2>7, Zenon DEF Advances
  <1>7. CASE p < n
    <2>1. p + 1 \in 1 .. n /\ p + 1 \in p .. n /\ (p + 1) - 1 = p /\ q >= p + 1
      BY <1>2, <1>7
    <2>2. e[p + 1] = Seen(TRUE, out \o Literal(<<"%", f[p + 1]>>))
      <3>1. e[p + 1] = Reads(e[p], f[p + 1])
        BY <2>1 DEF ReadLoop
      <3>2. f[p + 1] # "%" /\ ~ Known(f[p + 1], rejected)
        BY <1>7 DEF Rejects
      <3>3. Reads(Pending(rejected, out), f[p + 1]) = Seen(TRUE, out \o Literal(<<"%", f[p + 1]>>))
        BY <3>2, ReadsRejected
      <3> QED BY <1>4, <3>1, <3>3
    <2>3. SubSeq(f, p, p + 1) = <<"%", f[p + 1]>>
      <3>1. SubSeq(f, p, p + 1) = Append(SubSeq(f, p, p), f[p + 1])
        BY <2>1, SliceGrows
      <3>2. PICK c \in Char, x \in Char : c = f[p] /\ x = f[p + 1]
        <4>1. f[p + 1] \in Char
          BY <2>1, SliceGrows
        <4> QED BY <1>5, <4>1
      <3>3. Append(<<c>>, x) = <<c, x>>
        <4>1. PICK u, v : u = Append(<<c>>, x) /\ v = <<c, x>>
          OBVIOUS
        <4>2. u \in Seq(Char) /\ Len(u) = 2 /\ u[1] = c /\ u[2] = x
          BY <4>1
        <4>3. v \in Seq(Char) /\ Len(v) = 2 /\ v[1] = c /\ v[2] = x
          BY <4>1
        <4>4. \A k \in 1 .. Len(u) : u[k] = v[k]
          BY <4>2, <4>3
        <4> QED BY <4>1, <4>2, <4>3, <4>4, SeqEqual
      <3> QED BY <1>5, <3>1, <3>2, <3>3
    <2>4. Plain(e, p + 1, TRUE, o(p + 1))
      BY <2>2, <2>3 DEF Plain
    <2>5. q # p + 1
      <3> SUFFICES ASSUME q = p + 1 PROVE FALSE
        OBVIOUS
      <3>1. f[p + 1] # "%"
        BY <1>7 DEF Rejects
      <3>2. q <= n
        BY <2>1
      <3> QED BY <1>2, <3>1, <3>2
    <2>6. q \in (p + 1) + 1 .. n + 1 /\ p + 1 \in p - 1 .. n
      BY <1>2, <2>1, <2>5
    <2>7. NoPercent(f, (p + 1) + 1, q - 1)
      <3>1. ASSUME NEW i \in (p + 1) + 1 .. q - 1 PROVE f[i] # "%"
        <4>1. p \in Nat /\ q \in Nat
          BY <1>2
        <4>2. i \in p + 1 .. q - 1
          BY <4>1
        <4> QED BY <1>2, <4>2
      <3> QED BY <3>1 DEF NoPercent
    <2>8. Here(e, n, q, TRUE, o(q - 1))
      BY <2>4, <2>6, <2>7, AfterRun
    <2> QED BY <1>3, <2>1, <2>8, Zenon DEF Advances
  <1> QED BY <1>6, <1>7

LEMMA TurnAdvances ==
  ASSUME NEW f \in Format, NEW n \in Nat, n = Len(f), NEW e, ReadLoop(e, f, n),
         NEW rejected, NEW out, NEW p, Here(e, n, p, rejected, out), p # n + 1
  PROVE  Advances(e, f, n, p, rejected, out)
  <1>1. rejected \in BOOLEAN /\ out \in Seq(Token) /\ p \in 1 .. n
    BY DEF Here
  <1>2. Plain(e, p - 1, rejected, out)
    <2>1. p <= n
      BY <1>1
    <2> QED BY <2>1 DEF Here
  <1>3. CASE f[p] # "%"
    BY <1>1, <1>2, <1>3, RunAdvances
  <1>4. CASE f[p] = "%" /\ p < n /\ f[p + 1] = "%"
    BY <1>1, <1>2, <1>4, PercentAdvances
  <1>5. CASE f[p] = "%" /\ p < n /\ Known(f[p + 1], rejected)
    BY <1>1, <1>2, <1>5, ConversionAdvances
  <1>6. CASE f[p] = "%" /\ Rejects(f, n, p, rejected)
    BY <1>1, <1>2, <1>6, RejectedAdvances
  <1> QED BY <1>3, <1>4, <1>5, <1>6 DEF Rejects

\* states of the loop of printf, and of the reader
LoopStates(n) == [p : 1 .. n + 1, rejected : BOOLEAN, out : Seq(Token)]
Readers       == [percent : BOOLEAN, bad : BOOLEAN, out : Seq(Token)]

LEMMA StatesAre ==
  ASSUME NEW bool \in BOOLEAN, NEW out \in Seq(Token)
  PROVE  /\ Seen(bool, out) \in Readers /\ Pending(bool, out) \in Readers
         /\ \A n \in Nat : \A p \in 1 .. n + 1 : LoopAt(p, bool, out) \in LoopStates(n)
  <1>1. Seen(bool, out) \in Readers /\ Pending(bool, out) \in Readers
    BY DEF Readers, Seen, Pending
  <1>2. ASSUME NEW n \in Nat, NEW p \in 1 .. n + 1 PROVE LoopAt(p, bool, out) \in LoopStates(n)
    BY DEF LoopStates, LoopAt
  <1> QED BY <1>1, <1>2

LEMMA LoopStays ==
  ASSUME NEW f \in Format, NEW n \in Nat, n = Len(f), NEW st \in LoopStates(n)
  PROVE  PrintfTurn(f, st) \in LoopStates(n)
  <1>1. PICK p \in 1 .. n + 1, rejected \in BOOLEAN, out \in Seq(Token) : st = LoopAt(p, rejected, out)
    <2>1. st.p \in 1 .. n + 1 /\ st.rejected \in BOOLEAN /\ st.out \in Seq(Token)
      BY DEF LoopStates
    <2>2. st = LoopAt(st.p, st.rejected, st.out)
      BY DEF LoopStates, LoopAt
    <2> QED BY <2>1, <2>2, Zenon
  <1>2. ASSUME NEW q \in 1 .. n
        PROVE  RunEnd(f, q) \in 1 .. n + 1 /\ RunFrom(f, q, out) \in Seq(Token)
    <2>1. PICK r \in q + 1 .. n + 1 : r = RunEnd(f, q)
      BY RunEndIs
    <2>2. r - 1 \in q - 1 .. n /\ q \in 1 .. n + 1
      BY <2>1
    <2>3. Literal(SubSeq(f, q, r - 1)) \in Seq(Token)
      BY <2>2, SliceIs
    <2>4. out \o Literal(SubSeq(f, q, r - 1)) \in Seq(Token)
      BY <2>3
    <2> QED BY <2>1, <2>4 DEF RunFrom
  <1>3. CASE p = n + 1
    BY <1>1, <1>3, TurnAtEnd
  <1>4. CASE p # n + 1 /\ f[p] # "%"
    <2>1. p \in 1 .. n
      BY <1>4
    <2>2. PrintfTurn(f, st) = LoopAt(RunEnd(f, p), rejected, RunFrom(f, p, out))
      BY <1>1, <1>4, TurnRuns
    <2> QED BY <1>2, <2>1, <2>2, StatesAre
  <1>5. CASE p < n /\ f[p] = "%" /\ f[p + 1] = "%"
    <2>1. p + 1 \in 1 .. n
      BY <1>5
    <2>2. PrintfTurn(f, st) = LoopAt(RunEnd(f, p + 1), rejected, RunFrom(f, p + 1, out))
      BY <1>1, <1>5, TurnPercent
    <2> QED BY <1>2, <2>1, <2>2, StatesAre
  <1>6. CASE p < n /\ f[p] = "%" /\ Known(f[p + 1], rejected)
    <2>1. p + 2 \in 1 .. n + 1 /\ p + 1 \in 1 .. n
      BY <1>6
    <2>2. PrintfTurn(f, st) = LoopAt(p + 2, rejected, Append(out, Argument(f[p + 1])))
      BY <1>1, <1>6, TurnConverts
    <2>3. f[p + 1] \in Char
      BY <2>1, LenProperties DEF Format
    <2>4. Append(out, Argument(f[p + 1])) \in Seq(Token)
      <3>1. Argument(f[p + 1]) \in Token
        BY <2>3, TokenIs
      <3> QED BY <3>1
    <2> QED BY <2>1, <2>2, <2>4, StatesAre
  <1>7. CASE p # n + 1 /\ f[p] = "%" /\ Rejects(f, n, p, rejected)
    <2>1. p \in 1 .. n
      BY <1>7
    <2>2. st.p = p /\ st.rejected = rejected /\ st.out = out
      BY <1>1 DEF LoopAt
    <2>3. PrintfTurn(f, st) = LoopAt(RunEnd(f, p), TRUE, RunFrom(f, p, out))
      BY <1>7, <2>1, <2>2 DEF PrintfTurn, LoopAt, RunFrom, Known, Rejects
    <2>4. PICK yes \in BOOLEAN : yes = TRUE
      OBVIOUS
    <2>5. LoopAt(RunEnd(f, p), yes, RunFrom(f, p, out)) \in LoopStates(n)
      BY <1>2, <2>1, StatesAre
    <2> QED BY <2>3, <2>4, <2>5
  <1> QED BY <1>3, <1>4, <1>5, <1>6, <1>7 DEF Rejects

LEMMA ReaderStays ==
  ASSUME NEW st \in Readers, NEW x \in Char
  PROVE  Reads(st, x) \in Readers
  <1>1. PICK bad \in BOOLEAN, out \in Seq(Token) : st = Seen(bad, out) \/ st = Pending(bad, out)
    <2>1. st.percent \in BOOLEAN /\ st.bad \in BOOLEAN /\ st.out \in Seq(Token)
      BY DEF Readers
    <2>2. st = [percent |-> st.percent, bad |-> st.bad, out |-> st.out]
      BY DEF Readers
    <2>3. st = Seen(st.bad, st.out) \/ st = Pending(st.bad, st.out)
      BY <2>1, <2>2 DEF Seen, Pending
    <2> QED BY <2>1, <2>3, Zenon
  <1>2. Append(out, Lit(x)) \in Seq(Token) /\ Append(out, Argument(x)) \in Seq(Token)
        /\ out \o Literal(<<"%", x>>) \in Seq(Token)
    <2>1. Lit(x) \in Token /\ Argument(x) \in Token
      BY TokenIs
    <2>2. <<"%", x>> \in Format
      <3>1. "%" \in Char
        BY DEF Char
      <3>2. PICK c \in Char : c = "%"
        BY <3>1
      <3> QED BY <3>2 DEF Format
    <2>3. Literal(<<"%", x>>) \in Seq(Token)
      BY <2>2, LiteralIs
    <2> QED BY <2>1, <2>3
  <1>3. CASE st = Seen(bad, out)
    <2>1. Reads(st, x) = Seen(bad, Append(out, Lit(x))) \/ Reads(st, x) = Pending(bad, out)
      BY <1>3, ReadsAre
    <2> QED BY <1>2, <2>1, StatesAre
  <1>4. CASE st = Pending(bad, out)
    <2>1. CASE x = "%"
      <3>1. Reads(st, x) = Seen(bad, Append(out, Lit(x)))
        BY <1>4, <2>1, ReadsAre
      <3> QED BY <1>2, <3>1, StatesAre
    <2>2. CASE Known(x, bad)
      <3>1. Reads(st, x) = Seen(bad, Append(out, Argument(x)))
        BY <1>4, <2>2, ReadsConversion
      <3> QED BY <1>2, <3>1, StatesAre
    <2>3. CASE x # "%" /\ ~ Known(x, bad)
      <3>1. Reads(st, x) = Seen(TRUE, out \o Literal(<<"%", x>>))
        BY <1>4, <2>3, ReadsRejected
      <3>2. PICK yes \in BOOLEAN : yes = TRUE
        OBVIOUS
      <3>3. Seen(yes, out \o Literal(<<"%", x>>)) \in Readers
        BY <1>2, StatesAre
      <3> QED BY <3>1, <3>2, <3>3
    <2> QED BY <2>1, <2>2, <2>3
  <1> QED BY <1>1, <1>3, <1>4

\* the turns of printf's loop
PrintfLoop(t, f, n) ==
  /\ t[0] = LoopAt(1, FALSE, <<>>)
  /\ \A k \in 1 .. n : t[k] = PrintfTurn(f, t[k - 1])

LEMMA PrintfTurns ==
  ASSUME NEW f \in Format, NEW n \in Nat, n = Len(f)
  PROVE  \E t : PrintfLoop(t, f, n) /\ printf(f) = t[n].out
  <1> DEFINE V  == LoopStates(n)
             first == LoopAt(1, FALSE, <<>>)
             op == [k \in 1 .. n |-> [st \in V |-> PrintfTurn(f, st)]]
             c  == CHOOSE g : g = [k \in 0 .. n |->
                     IF k = 0 THEN [p |-> 1, rejected |-> FALSE, out |-> <<>>] ELSE PrintfTurn(f, g[k - 1])]
  <1>1. op \in [1 .. n -> [V -> V]] /\ first \in V
    <2>1. \A st \in V : PrintfTurn(f, st) \in V
      BY LoopStays
    <2>2. PICK no \in BOOLEAN : no = FALSE
      OBVIOUS
    <2>3. 1 \in 1 .. n + 1 /\ <<>> \in Seq(Token)
      OBVIOUS
    <2>4. LoopAt(1, no, <<>>) \in V
      BY <2>3, StatesAre
    <2> HIDE DEF V
    <2> QED BY <2>1, <2>2, <2>4
  <1>2. PICK t \in [0 .. n -> V] : Turning(t, first, op, n)
    <2>1. \E t \in [0 .. n -> V] : Turning(t, first, op, n)
      <3> HIDE DEF op, first, V
      <3> QED BY <1>1, Turns
    <2> QED BY <2>1
  <1>3. ASSUME NEW k \in 1 .. n PROVE t[k] = PrintfTurn(f, t[k - 1])
    <2>1. k - 1 \in 0 .. n
      OBVIOUS
    <2>2. t[k - 1] \in V /\ t[k] = op[k][t[k - 1]]
      BY <1>2, <2>1 DEF Turning
    <2> HIDE DEF V
    <2> QED BY <2>2
  <1>4. t[0] = first
    BY <1>2 DEF Turning
  <1>5. t = [k \in 0 .. n |->
               IF k = 0 THEN [p |-> 1, rejected |-> FALSE, out |-> <<>>] ELSE PrintfTurn(f, t[k - 1])]
    <2>1. ASSUME NEW k \in 0 .. n
          PROVE  t[k] = IF k = 0 THEN first ELSE PrintfTurn(f, t[k - 1])
      <3>1. k = 0 \/ k \in 1 .. n
        OBVIOUS
      <3> QED BY <1>3, <1>4, <3>1
    <2>2. first = [p |-> 1, rejected |-> FALSE, out |-> <<>>]
      BY DEF LoopAt
    <2> HIDE DEF V, op, first
    <2>3. t = [k \in 0 .. n |-> IF k = 0 THEN first ELSE PrintfTurn(f, t[k - 1])]
      BY <1>2, <2>1
    <2> QED BY <2>2, <2>3
  <1>6. c = [k \in 0 .. n |->
               IF k = 0 THEN [p |-> 1, rejected |-> FALSE, out |-> <<>>] ELSE PrintfTurn(f, c[k - 1])]
    BY <1>5
  <1>7. c[n].out = printf(f)
    BY DEF printf
  <1> HIDE DEF c, op, V
  <1>8. c[0] = first
    BY <1>6 DEF LoopAt
  <1>9. ASSUME NEW k \in 1 .. n PROVE c[k] = PrintfTurn(f, c[k - 1])
    <2>1. k \in 0 .. n /\ k # 0
      OBVIOUS
    <2> HIDE DEF first
    <2> QED BY <1>6, <2>1
  <1>10. PrintfLoop(c, f, n)
    BY <1>8, <1>9 DEF PrintfLoop
  <1> QED BY <1>7, <1>10

LEMMA ReadTurns ==
  ASSUME NEW f \in Format, NEW n \in Nat, n = Len(f)
  PROVE  \E e : ReadLoop(e, f, n) /\ Expected(f) = Finish(e[n])
  <1> DEFINE V  == Readers
             first == Seen(FALSE, <<>>)
             op == [k \in 1 .. n |-> [st \in V |-> Reads(st, f[k])]]
             c  == CHOOSE g : g = [k \in 0 .. n |->
                     IF k = 0 THEN [percent |-> FALSE, bad |-> FALSE, out |-> <<>>] ELSE Reads(g[k - 1], f[k])]
  <1>1. op \in [1 .. n -> [V -> V]] /\ first \in V
    <2>1. \A k \in 1 .. n : f[k] \in Char
      BY LenProperties DEF Format
    <2>2. \A k \in 1 .. n : \A st \in V : Reads(st, f[k]) \in V
      BY <2>1, ReaderStays
    <2>3. PICK no \in BOOLEAN : no = FALSE
      OBVIOUS
    <2>4. <<>> \in Seq(Token)
      OBVIOUS
    <2>5. Seen(no, <<>>) \in V
      BY <2>4, StatesAre
    <2> HIDE DEF V
    <2> QED BY <2>2, <2>3, <2>5
  <1>2. PICK e \in [0 .. n -> V] : Turning(e, first, op, n)
    <2>1. \E e \in [0 .. n -> V] : Turning(e, first, op, n)
      <3> HIDE DEF op, first, V
      <3> QED BY <1>1, Turns
    <2> QED BY <2>1
  <1>3. ASSUME NEW k \in 1 .. n PROVE e[k] = Reads(e[k - 1], f[k])
    <2>1. k - 1 \in 0 .. n
      OBVIOUS
    <2>2. e[k - 1] \in V /\ e[k] = op[k][e[k - 1]]
      BY <1>2, <2>1 DEF Turning
    <2> HIDE DEF V
    <2> QED BY <2>2
  <1>4. e[0] = first
    BY <1>2 DEF Turning
  <1>5. e = [k \in 0 .. n |->
               IF k = 0 THEN [percent |-> FALSE, bad |-> FALSE, out |-> <<>>] ELSE Reads(e[k - 1], f[k])]
    <2>1. ASSUME NEW k \in 0 .. n
          PROVE  e[k] = IF k = 0 THEN first ELSE Reads(e[k - 1], f[k])
      <3>1. k = 0 \/ k \in 1 .. n
        OBVIOUS
      <3> QED BY <1>3, <1>4, <3>1
    <2>2. first = [percent |-> FALSE, bad |-> FALSE, out |-> <<>>]
      BY DEF Seen
    <2> HIDE DEF V, op, first
    <2>3. e = [k \in 0 .. n |-> IF k = 0 THEN first ELSE Reads(e[k - 1], f[k])]
      BY <1>2, <2>1
    <2> QED BY <2>2, <2>3
  <1>6. c = [k \in 0 .. n |->
               IF k = 0 THEN [percent |-> FALSE, bad |-> FALSE, out |-> <<>>] ELSE Reads(c[k - 1], f[k])]
    BY <1>5
  <1>7. Expected(f) = Finish(c[n])
    BY DEF Expected, Finish, Lit
  <1> HIDE DEF c, op, V
  <1>8. c[0] = first
    BY <1>6 DEF Seen
  <1>9. ASSUME NEW k \in 1 .. n PROVE c[k] = Reads(c[k - 1], f[k])
    <2>1. k \in 0 .. n /\ k # 0
      OBVIOUS
    <2> HIDE DEF first
    <2> QED BY <1>6, <2>1
  <1>10. ReadLoop(c, f, n)
    BY <1>8, <1>9 DEF ReadLoop
  <1> QED BY <1>7, <1>10

(* printf prints what a reader of its format expects.                      *)
LEMMA PrintfIsExpected ==
  ASSUME NEW f \in Format
  PROVE  printf(f) = Expected(f)
  <1>1. PICK n \in Nat : n = Len(f)
    BY LenProperties DEF Format
  <1>2. PICK t : PrintfLoop(t, f, n) /\ printf(f) = t[n].out
    BY <1>1, PrintfTurns
  <1>3. PICK e : ReadLoop(e, f, n) /\ Expected(f) = Finish(e[n])
    BY <1>1, ReadTurns
  <1> DEFINE Got(k) == \E p, rejected, out :
                         t[k] = LoopAt(p, rejected, out) /\ Here(e, n, p, rejected, out) /\ p >= k + 1
             S == {k \in Nat : k <= n => Got(k)}
  <1>4. 0 \in S
    <2>1. t[0] = LoopAt(1, FALSE, <<>>) /\ e[0] = Seen(FALSE, <<>>)
      BY <1>2, <1>3 DEF PrintfLoop, ReadLoop
    <2>2. Here(e, n, 1, FALSE, <<>>)
      <3>1. 1 \in 1 .. n + 1 /\ <<>> \in Seq(Token) /\ FALSE \in BOOLEAN
        OBVIOUS
      <3>2. Plain(e, 1 - 1, FALSE, <<>>)
        <4>1. 1 - 1 = 0
          OBVIOUS
        <4> QED BY <2>1, <4>1 DEF Plain
      <3>3. ASSUME 1 = n + 1 PROVE Finish(e[n]) = <<>>
        <4>1. n = 0
          BY <3>3
        <4> QED BY <2>1, <4>1, FinishIs
      <3> QED BY <3>1, <3>2, <3>3, Zenon DEF Here
    <2>3. 1 >= 0 + 1
      OBVIOUS
    <2>4. Got(0)
      BY <2>1, <2>2, <2>3, Zenon
    <2> QED BY <2>4
  <1>5. ASSUME NEW k \in Nat, k \in S PROVE k + 1 \in S
    <2> SUFFICES ASSUME k + 1 <= n PROVE Got(k + 1)
      OBVIOUS
    <2>1. Got(k)
      BY <1>5
    <2>2. PICK p, rejected, out :
            t[k] = LoopAt(p, rejected, out) /\ Here(e, n, p, rejected, out) /\ p >= k + 1
      BY <2>1
    <2>3. t[k + 1] = PrintfTurn(f, t[k])
      <3>1. k + 1 \in 1 .. n /\ (k + 1) - 1 = k
        OBVIOUS
      <3> QED BY <1>2, <3>1 DEF PrintfLoop
    <2>4. p \in 1 .. n + 1 /\ rejected \in BOOLEAN
      BY <2>2 DEF Here
    <2>5. CASE p = n + 1
      <3>1. PrintfTurn(f, LoopAt(p, rejected, out)) = LoopAt(p, rejected, out)
        BY <1>1, <2>4, <2>5, TurnAtEnd
      <3>2. t[k + 1] = LoopAt(p, rejected, out)
        BY <2>2, <2>3, <3>1
      <3>3. p >= (k + 1) + 1
        BY <2>5
      <3> QED BY <2>2, <3>2, <3>3, Zenon
    <2>6. CASE p # n + 1
      <3>1. Advances(e, f, n, p, rejected, out)
        BY <1>1, <1>3, <2>2, <2>6, TurnAdvances
      <3>2. PICK q, rj, o : PrintfTurn(f, LoopAt(p, rejected, out)) = LoopAt(q, rj, o)
                            /\ Here(e, n, q, rj, o) /\ q >= p + 1
        BY <3>1, Zenon DEF Advances
      <3>3. q \in 1 .. n + 1
        BY <3>2 DEF Here
      <3>4. q >= (k + 1) + 1
        BY <2>2, <2>4, <3>2, <3>3
      <3>5. t[k + 1] = LoopAt(q, rj, o)
        BY <2>2, <2>3, <3>2
      <3> QED BY <3>2, <3>4, <3>5, Zenon
    <2> QED BY <2>5, <2>6
  <1>6. n \in S
    <2> HIDE DEF S
    <2> QED BY <1>4, <1>5, Induction
  <1>7. PICK p, rejected, out :
          t[n] = LoopAt(p, rejected, out) /\ Here(e, n, p, rejected, out) /\ p >= n + 1
    BY <1>6
  <1>8. p = n + 1
    BY <1>7 DEF Here
  <1>9. Finish(e[n]) = out
    BY <1>7, <1>8 DEF Here
  <1>10. t[n].out = out
    BY <1>7 DEF LoopAt
  <1> QED BY <1>2, <1>3, <1>9, <1>10

LEMMA ItoaIsRight ==
  ASSUME NEW b \in 2 .. 36, NEW n \in Ints \ {IntMin}, NEW t, t = itoa(n, b)
  PROVE  /\ n >= 0 => IsText(t, b) /\ Denoted(t, b) = n
         /\ n < 0 /\ b = 10 => t[1] = Minus /\ IsText(Tail(t), 10) /\ Denoted(Tail(t), 10) = -n
         /\ b = 10 => atoi(t) = n
  <1>1. n >= 0 => IsText(t, b) /\ Denoted(t, b) = n
    BY ItoaPrints DEF Prints
  <1>2. ASSUME n < 0, b = 10
        PROVE  t[1] = Minus /\ IsText(Tail(t), 10) /\ Denoted(Tail(t), 10) = -n
    <2>1. PICK d : Prints(d, -n, 10) /\ t = <<Minus>> \o d
      BY <1>2, ItoaPrints
    <2>2. Minus \in Int /\ d \in Seq(Int) /\ IsText(d, 10) /\ Denoted(d, 10) = -n
      BY <2>1 DEF Prints, Minus
    <2>3. t[1] = Minus /\ Tail(t) = d
      BY <2>1, <2>2, TailOfFront
    <2> QED BY <2>2, <2>3
  <1>3. b = 10 => atoi(t) = n
    BY AtoiOfItoa
  <1> QED BY <1>1, <1>2, <1>3

LEMMA AtoiIsRight ==
  ASSUME NEW s \in Text, NEW v \in Int, v = atoi(s)
  PROVE  LET digits == IF IsPrefix(<<Minus>>, s) THEN Tail(s) ELSE s
             numeral == ToSet(digits) \subseteq 48 .. 57
         IN  /\ ~ numeral => v = 0
             /\ numeral => Denoted(digits, 10) = IF digits = s THEN v ELSE -v
  <1>1. s \in Seq(Int) /\ Len(s) \in Nat /\ 10 \in Nat
    <2>1. 1 .. 255 \subseteq Int
      OBVIOUS
    <2>2. s \in Seq(Int)
      BY <2>1, SeqMonotonic DEF Text
    <2> QED BY <2>2, LenProperties
  <1>2. IsPrefix(<<Minus>>, s) <=> Signed(s)
    <2>1. <<Minus>> \in Text /\ Len(<<Minus>>) = 1 /\ <<Minus>>[1] = Minus
      BY DEF Text, Minus
    <2>2. IsPrefix(<<Minus>>, s) <=> 1 <= Len(s) /\ \A i \in 1 .. 1 : <<Minus>>[i] = s[i]
      BY <2>1, PrefixCharacters
    <2>3. s # <<>> <=> 1 <= Len(s)
      BY <1>1
    <2>4. \A i \in 1 .. 1 : i = 1
      OBVIOUS
    <2> QED BY <2>1, <2>2, <2>3, <2>4 DEF Signed
  <1> DEFINE digits == IF IsPrefix(<<Minus>>, s) THEN Tail(s) ELSE s
  <1>3. digits = Rest(s)
    BY <1>2 DEF Rest
  <1>4. digits \in Seq(Int) /\ (Numeral(digits) <=> ToSet(digits) \subseteq 48 .. 57)
    BY <1>1, <1>3, AtoiIs DEF Numeral
  <1>5. digits = s <=> ~ Signed(s)
    <2>1. ASSUME Signed(s) PROVE Tail(s) # s
      <3>1. s # <<>>
        BY <2>1 DEF Signed
      <3>2. Len(Tail(s)) = Len(s) - 1
        BY <1>1, <3>1, HeadTailProperties
      <3> QED BY <1>1, <3>2
    <2> QED BY <1>3, <2>1 DEF Rest
  <1> HIDE DEF digits
  <1>6. Numeral(digits) => v = IF Signed(s) THEN -Denoted(digits, 10) ELSE Denoted(digits, 10)
    BY <1>1, <1>3, AtoiIs
  <1>7. ~ Numeral(digits) => v = 0
    BY <1>1, <1>3, AtoiIs
  <1>8. PICK d \in Int : d = Denoted(digits, 10)
    BY <1>1, <1>4, DenotedIsInt
  <1>9. Numeral(digits) => d = IF digits = s THEN v ELSE -v
    <2>1. -(-d) = d
      OBVIOUS
    <2> QED BY <1>5, <1>6, <1>8, <2>1
  <1> QED BY <1>4, <1>7, <1>8, <1>9 DEF digits

\* a call of a number's function leaves its result right
LEMMA PrintStep ==
  ASSUME call \in Calls, LibcNext
  PROVE  PrintsAreRight'
  <1>1. CASE KprintBase
    <2>1. call.kind = "uint" /\ call' = call /\ function' = "kprint_base"
          /\ result' = kprint_base(call.n, call.base)
      BY <1>1 DEF KprintBase, Called
    <2>2. call.n \in UInts /\ call.base \in 2 .. 36
      BY <2>1, OtherCalls, ConstantsAre
    <2>3. Prints(result', call.n, call.base)
      BY <2>1, <2>2, KprintPrints
    <2>4. IsText(result', call.base) /\ Denoted(result', call.base) = call.n
      BY <2>3 DEF Prints
    <2> QED BY <2>1, <2>4 DEF PrintsAreRight
  <1>2. CASE Itoa
    <2>1. call.kind = "int" /\ call' = call /\ function' = "itoa"
          /\ result' = itoa(call.n, call.base)
      BY <1>2 DEF Itoa, Called
    <2>2. call.n \in Ints \ {IntMin} /\ call.base \in 2 .. 36
      BY <2>1, OtherCalls, ConstantsAre
    <2>3. /\ call.n >= 0 => IsText(result', call.base) /\ Denoted(result', call.base) = call.n
          /\ call.n < 0 /\ call.base = 10 =>
               /\ result'[1] = Minus /\ IsText(Tail(result'), 10)
               /\ Denoted(Tail(result'), 10) = -call.n
          /\ call.base = 10 => atoi(result') = call.n
      BY <2>1, <2>2, ItoaIsRight
    <2> QED BY <2>1, <2>3 DEF PrintsAreRight
  <1>3. CASE Atoi
    <2>1. call.kind = "numeral" /\ call' = call /\ function' = "atoi"
          /\ result' = atoi(call.s) /\ result' \in -IntMax .. IntMax
      BY <1>3 DEF Atoi, Called
    <2>2. call.s \in Text /\ result' \in Int
      BY <2>1, OtherCalls, NumbersAssumption
    <2>3. LET digits == IF IsPrefix(<<Minus>>, call.s) THEN Tail(call.s) ELSE call.s
              numeral == ToSet(digits) \subseteq 48 .. 57
          IN  /\ ~ numeral => result' = 0
              /\ numeral => Denoted(digits, 10) = IF digits = call.s THEN result' ELSE -result'
      BY <2>1, <2>2, AtoiIsRight
    <2> QED BY <2>1, <2>3 DEF PrintsAreRight
  <1>4. CASE Printf
    <2>1. call.kind = "format" /\ call' = call /\ function' = "printf"
          /\ result' = printf(call.f)
      BY <1>4 DEF Printf, Called
    <2>2. call.f \in Seq(STRING)
      BY <2>1, OtherCalls, ConstantsAre
    <2>3. call.f \in Format
      BY <2>2, SeqMonotonic DEF Format, Char
    <2>4. result' = Expected(call.f)
      BY <2>1, <2>3, PrintfIsExpected
    <2> QED BY <2>1, <2>4 DEF PrintsAreRight
  <1>5. CASE Memcpy \/ Memmove \/ Memset \/ Stosb \/ Strcpy
    <2>1. function' \in {"memcpy", "memmove", "memset", "stosb", "strcpy"}
      BY <1>5 DEF Memcpy, Memmove, Memset, Stosb, Strcpy, Called
    <2> QED BY <2>1 DEF PrintsAreRight
  <1>6. CASE Memcmp \/ Strcmp \/ ReverseString \/ Toupper
    <2>1. function' \in {"memcmp", "strcmp", "reverse", "toupper"}
      BY <1>6 DEF Memcmp, Strcmp, ReverseString, Toupper, Called
    <2> QED BY <2>1 DEF PrintsAreRight
  <1> QED BY <1>1, <1>2, <1>3, <1>4, <1>5, <1>6 DEF LibcNext

-----------------------------------------------------------------------------

LEMMA CallStays ==
  ASSUME call \in Calls, [LibcNext]_libcVars
  PROVE  call' \in Calls
  <1>1. call' = call
    BY DEF LibcNext, Memcpy, Memmove, Memset, Stosb, Strcpy, Memcmp, Strcmp, ReverseString, Toupper,
           Itoa, Atoi, KprintBase, Printf, Called, libcVars
  <1> QED BY <1>1

(* For every memory, of any size, and all strings: memmove copies the      *)
(* source as it was, memcpy and strcpy do when they do not overwrite it    *)
(* before they read it, memset and stosb fill their bytes and no other,    *)
(* strcmp orders as a dictionary does, memcmp finds a name at the start    *)
(* of a string, reverse and toupper are what their names say.              *)
THEOREM LibcStringsRight == LibcSpec => []StringsAreRight
  <1>1. LibcInit => call \in Calls /\ StringsAreRight
    BY DEF LibcInit, StringsAreRight
  <1>2. ASSUME call \in Calls, StringsAreRight, [LibcNext]_libcVars PROVE StringsAreRight'
    <2>1. CASE LibcNext
      BY <1>2, <2>1, StringStep
    <2>2. CASE UNCHANGED libcVars
      BY <1>2, <2>2 DEF libcVars, StringsAreRight, Copied, Overwritten, Within, Before
    <2> QED BY <1>2, <2>1, <2>2
  <1>3. (call \in Calls /\ StringsAreRight) /\ [LibcNext]_libcVars => (call \in Calls /\ StringsAreRight)'
    BY <1>2, CallStays
  <1> QED BY <1>1, <1>3, PTL DEF LibcSpec

(* For every size of an int, every base from 2 to 36 and every format:     *)
(* kprint_base and itoa write digits that denote the number, atoi reads    *)
(* back what itoa has written and is 0 of what is no numeral, and printf   *)
(* prints what a reader of its format expects.                             *)
THEOREM LibcPrintsRight == LibcSpec => []PrintsAreRight
  <1>1. LibcInit => call \in Calls /\ PrintsAreRight
    BY DEF LibcInit, PrintsAreRight
  <1>2. ASSUME call \in Calls, PrintsAreRight, [LibcNext]_libcVars PROVE PrintsAreRight'
    <2>1. CASE LibcNext
      BY <1>2, <2>1, PrintStep
    <2>2. CASE UNCHANGED libcVars
      BY <1>2, <2>2 DEF libcVars, PrintsAreRight
    <2> QED BY <1>2, <2>1, <2>2
  <1>3. (call \in Calls /\ PrintsAreRight) /\ [LibcNext]_libcVars => (call \in Calls /\ PrintsAreRight)'
    BY <1>2, CallStays
  <1> QED BY <1>1, <1>3, PTL DEF LibcSpec
=============================================================================
