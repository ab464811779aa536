----------------------------- MODULE LibcString -----------------------------
(***************************************************************************)
(* libc/string: what the functions leave in memory and what they return,   *)
(* loop by loop.  A memory is a function from addresses to bytes; a string *)
(* is the sequence of the characters before its final 0.                   *)
(***************************************************************************)
EXTENDS Integers, Sequences, SequencesExt

Store(m, address, byte) == [m EXCEPT ![address] = byte]

Steps(size) == [k \in 1 .. size |-> k - 1]         \* 0, 1, ... size - 1

\* the turns of a loop that copies one byte in each, at the offsets in this order
CopyByte(mem, dst, src, i) == Store(mem, dst + i, mem[src + i])

CopiedInOrder(m, dst, src, order) ==
  LET mem[k \in 0 .. Len(order)] == IF k = 0 THEN m ELSE CopyByte(mem[k - 1], dst, src, order[k])
  IN  mem[Len(order)]

CopiedUp(m, dst, src, size)   == CopiedInOrder(m, dst, src, Steps(size))
CopiedDown(m, dst, src, size) == CopiedInOrder(m, dst, src, Reverse(Steps(size)))

memcpy(m, dst, src, size) == CopiedUp(m, dst, src, size)

\* mutant: it copies like memcpy
memmove_Up(m, dst, src, size) == CopiedUp(m, dst, src, size)

memmove(m, dst, src, size) ==
  IF dst < src THEN CopiedUp(m, dst, src, size) ELSE CopiedDown(m, dst, src, size)

memset(m, dest, value, count) ==
  LET mem[k \in 0 .. count] ==
        IF k = 0 THEN m ELSE Store(mem[k - 1], dest + k - 1, value % 256)
  IN  mem[count]

\* the same loop, downwards in count and upwards in memory
stosb(m, dest, value, count) == memset(m, dest, value, count)

\* how many bytes the string at src has, its final 0 included
Stored(m, src) ==
  LET ends == {a \in DOMAIN m : a >= src /\ m[a] = 0}
  IN  (CHOOSE a \in ends : \A b \in ends : a <= b) - src + 1

\* where the copy does not overwrite the 0 before it is read
strcpy(m, dst, src) == CopiedUp(m, dst, src, Stored(m, src))

-----------------------------------------------------------------------------
\* character k of a string, counted from 0; the 0 behind it included
At(s, k) == IF k < Len(s) THEN s[k + 1] ELSE 0

\* the first of positions 0 .. last at which two strings differ, or last + 1
Differ(s, t, last) ==
  LET d == SelectInSeq(Steps(last + 1), LAMBDA k : At(s, k) # At(t, k))
  IN  IF d = 0 THEN last + 1 ELSE d - 1

\* memcmp of the first size bytes, none of them behind the end of both strings
memcmp(a, b, size) ==
  LET k == Differ(a, b, size - 1)
  IN  IF k = size THEN 0 ELSE IF At(a, k) < At(b, k) THEN -1 ELSE 1

strcmp(s, t) ==
  LET k == Differ(s, t, Len(s))
  IN  IF k > Len(s) THEN 0 ELSE IF At(s, k) < At(t, k) THEN -1 ELSE 1

Swapped(s, i, j) == [s EXCEPT ![i] = s[j], ![j] = s[i]]

\* i runs up and j down while i < j
reverse(s) ==
  LET r[i \in 0 .. Len(s) \div 2] == IF i = 0 THEN s ELSE Swapped(r[i - 1], i, Len(s) + 1 - i)
  IN  r[Len(s) \div 2]

toupper_single(c) == IF c \in 97 .. 122 THEN c - 32 ELSE c

toupper(s) == [k \in DOMAIN s |-> toupper_single(s[k])]
=============================================================================
