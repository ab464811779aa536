---------------------------- MODULE ConsoleProofs ----------------------------
(***************************************************************************)
(* Theorems about the end of kmain: the disk that is mounted, what is      *)
(* printed of it, what the screen shows of that, and the mouse pointer.    *)
(* They hold for every list of modules, every set of files, every size of  *)
(* screen and history, and every packet of the mouse.                      *)
(***************************************************************************)
EXTENDS Console, FiniteSetTheorems, SequenceTheorems, WellFoundedInduction, TLAPS

-----------------------------------------------------------------------------
(* The pointer.                                                            *)

\* the pointer's part of a frame: 19 lines at most below the last one
PointerOverdraw ==
  frame.mouse \in Nat /\ frame.mouse <= buffer_size + Padding + 18 * bytes_per_line + 63

PointerInv ==
  /\ mouse_pos_x \in Int /\ mouse_pos_y \in Int
  /\ MouseOnScreen
  /\ PointerOverdraw

(* A difference taken modulo 2^32 is a number, so that the two comparisons *)
(* of vesa_mouse_packet keep the pointer between the edges.                *)
LEMMA PacketKeepsOnScreen ==
  ASSUME PointerInv, NEW dx \in Int, NEW dy \in Int, vesa_mouse_packet(dx, dy)
  PROVE  /\ mouse_pos_x' \in Int /\ mouse_pos_y' \in Int
         /\ MouseOnScreen'
  <1>1. \A n \in Int : Unsigned(n) \in Nat
    BY ScreenAssumption DEF Unsigned
  <1>2. /\ mouse_pos_x \in 1 .. screen_width - 1 /\ mouse_pos_y \in 0 .. screen_height - 1
        /\ screen_width \in Nat /\ screen_height \in Nat
    BY ScreenAssumption DEF PointerInv, MouseOnScreen
  <1>3. MovedX(dx) \in 1 .. screen_width - 1
    <2>1. Unsigned(mouse_pos_x + dx) \in Nat
      BY <1>1, <1>2
    <2> QED BY <1>2, <2>1 DEF MovedX
  <1>4. MovedY(dy) \in 0 .. screen_height - 1
    <2>1. Unsigned(mouse_pos_y - dy) \in Nat
      BY <1>1, <1>2
    <2> QED BY <1>2, <2>1 DEF MovedY
  <1> QED BY <1>3, <1>4, <1>2 DEF vesa_mouse_packet, MouseOnScreen

LEMMA MaxOfTwo ==
  ASSUME NEW a \in Int, NEW b \in Int
  PROVE  Max({a, b}) = IF a >= b THEN a ELSE b
  <1>1. \E x \in {a, b} : \A y \in {a, b} : x >= y
    OBVIOUS
  <1>2. Max({a, b}) \in {a, b} /\ \A y \in {a, b} : Max({a, b}) >= y
    BY <1>1 DEF Max
  <1> QED BY <1>2

(* A line is as many pixels as the screen is wide, and a rest.             *)
LEMMA PitchIsPixels ==
  ASSUME NEW p \in Nat, NEW W \in Nat, W >= 1
  PROVE  /\ p \div W \in Nat /\ p % W \in Nat
         /\ p = W * (p \div W) + (p % W)
  OBVIOUS

LEMMA BufferAndPadding ==
  ASSUME NEW W \in Nat, NEW H \in Nat, NEW q \in Nat, NEW r \in Nat, NEW p \in Nat,
         p = W * q + r
  PROVE  /\ W * H * q \in Nat /\ H * r \in Nat
         /\ W * H * q + H * r = H * p
         /\ W * q \in Nat /\ W * q <= p
  <1>1. W * q \in Nat /\ H * r \in Nat /\ W * H \in Nat /\ H * q \in Nat
    OBVIOUS
  <1>2. W * H * q = H * (W * q)
    OBVIOUS
  <1>3. H * p = H * (W * q) + H * r
    BY <1>1
  <1>4. W * H * q \in Nat
    BY <1>1
  <1> QED BY <1>1, <1>2, <1>3, <1>4

\* where the frame ends when a line has its padding, and what may be written behind it
FrameEnd == screen_height * bytes_per_line

TextLimit == buffer_size + Padding + TextOverdraw

LEMMA FrameSizes ==
  /\ pixel_width \in Nat /\ bytes_per_line \in Nat /\ FrameEnd \in Nat /\ TextLimit \in Nat
  /\ screen_width * pixel_width <= bytes_per_line
  /\ buffer_size + Padding = FrameEnd
  /\ TextLimit >= FrameEnd + 7 * pixel_width + 4
  /\ TextLimit >= FrameEnd + screen_width * (4 - pixel_width)
  <1>1. /\ screen_width \in Nat /\ screen_height \in Nat /\ screen_width >= 1
        /\ bytes_per_line \in Nat
    BY ScreenAssumption DEF char_width
  <1>2. /\ pixel_width \in Nat /\ bytes_per_line % screen_width \in Nat
        /\ bytes_per_line = screen_width * pixel_width + (bytes_per_line % screen_width)
    BY <1>1, PitchIsPixels DEF pixel_width
  <1>3. PICK r \in Nat : r = bytes_per_line % screen_width
    BY <1>2
  <1> HIDE DEF pixel_width
  <1>4. bytes_per_line = screen_width * pixel_width + r
    BY <1>2, <1>3
  <1>5. /\ buffer_size + Padding = FrameEnd /\ buffer_size \in Nat /\ Padding \in Nat
        /\ screen_width * pixel_width <= bytes_per_line
    BY <1>1, <1>2, <1>3, <1>4, BufferAndPadding DEF buffer_size, Padding, FrameEnd
  <1>6. FrameEnd \in Nat
    BY <1>5
  <1> DEFINE a == 7 * pixel_width + 4
             b == screen_width * (4 - pixel_width)
  <1>7. a \in Nat /\ b \in Int
    BY <1>1, <1>2
  <1>8. TextOverdraw = Max({a, b})
    BY DEF TextOverdraw, char_width, PixelBytes
  <1> HIDE DEF a, b
  <1>9. TextOverdraw \in Int /\ TextOverdraw >= a /\ TextOverdraw >= b
    BY <1>7, <1>8, MaxOfTwo
  <1>10. TextLimit \in Nat /\ TextLimit >= FrameEnd + a /\ TextLimit >= FrameEnd + b
    BY <1>5, <1>6, <1>7, <1>9 DEF TextLimit
  <1>11. TextLimit >= FrameEnd + 7 * pixel_width + 4
    BY <1>2, <1>6, <1>10 DEF a
  <1> QED BY <1>1, <1>2, <1>5, <1>6, <1>10, <1>11 DEF b

(* Drawn from a place on the screen, the pointer ends less than nineteen   *)
(* lines below it.                                                         *)
LEMMA PointerEnds ==
  ASSUME PointerInv
  PROVE  MouseEnd \in Nat /\ MouseEnd <= buffer_size + Padding + 18 * bytes_per_line + 63
  <1> DEFINE x == mouse_pos_x
             y == mouse_pos_y
             W == screen_width
             H == screen_height
             q == pixel_width
             line == bytes_per_line
  <1>1. /\ x \in 1 .. W - 1 /\ y \in 0 .. H - 1 /\ W \in Nat /\ H \in Nat
    BY ScreenAssumption DEF PointerInv, MouseOnScreen
  <1>2. /\ q \in Nat /\ line \in Nat /\ W * q <= line /\ FrameEnd = H * line
        /\ buffer_size + Padding = FrameEnd
    BY FrameSizes DEF FrameEnd
  <1>3. MouseEnd = x * q + (y + 18) * line + 15 * 4 + 3
    BY <1>1 DEF MouseEnd, PixelBytes
  <1> HIDE DEF x, y, W, H, q, line
  <1>4. x * q \in Nat /\ x * q <= line
    <2>1. PICK d \in Nat : W = x + d
      <3>1. W - x \in Nat /\ W = x + (W - x)
        BY <1>1
      <3> QED BY <3>1
    <2>2. W * q = x * q + d * q /\ x * q \in Nat /\ d * q \in Nat
      BY <1>1, <1>2, <2>1
    <2> QED BY <1>1, <1>2, <2>2
  <1>5. (y + 18) * line \in Nat /\ (y + 18) * line + line <= (H + 18) * line
    <2>1. PICK d \in Nat : H = y + 1 + d
      <3>1. H - (y + 1) \in Nat /\ H = y + 1 + (H - (y + 1))
        BY <1>1
      <3> QED BY <3>1
    <2>2. (H + 18) * line = (y + 18) * line + line + d * line
      BY <1>1, <1>2, <2>1
    <2>3. d * line \in Nat /\ (y + 18) * line \in Nat
      BY <1>1, <1>2, <2>1
    <2> QED BY <1>2, <2>2, <2>3
  <1>6. (H + 18) * line = H * line + 18 * line /\ H * line \in Nat
    BY <1>1, <1>2
  <1>7. buffer_size + Padding + 18 * line + 63 = H * line + 18 * line + 63
    BY <1>2
  <1>8. MouseEnd \in Nat /\ MouseEnd <= H * line + 18 * line + 63
    BY <1>2, <1>3, <1>4, <1>5, <1>6
  <1> QED BY <1>7, <1>8 DEF line

LEMMA PointerInitInv == ConsoleInit => PointerInv
  <1> SUFFICES ASSUME ConsoleInit PROVE PointerInv
    OBVIOUS
  <1>1. MouseOnScreen /\ mouse_pos_x \in Int /\ mouse_pos_y \in Int
    BY ScreenAssumption DEF ConsoleInit, ScreenInit, MouseOnScreen, char_width, char_height
  <1>2. buffer_size + Padding \in Nat /\ bytes_per_line \in Nat
    BY FrameSizes
  <1> QED BY <1>1, <1>2 DEF ConsoleInit, ScreenInit, Blank, PointerInv, PointerOverdraw

LEMMA PointerStepInv == PointerInv /\ [ConsoleNext]_consoleVars => PointerInv'
  <1> SUFFICES ASSUME PointerInv, [ConsoleNext]_consoleVars PROVE PointerInv'
    OBVIOUS
  <1>1. CASE MousePacket
    <2>1. PICK p \in Packets : vesa_mouse_packet(p[1], p[2])
      BY <1>1 DEF MousePacket
    <2>2. p[1] \in Int /\ p[2] \in Int
      BY ConsoleAssumption
    <2>3. frame' = frame
      BY <2>1 DEF vesa_mouse_packet
    <2> QED BY <2>1, <2>2, <2>3, PacketKeepsOnScreen
         DEF PointerInv, PointerOverdraw, buffer_size, pixel_width, Padding
  <1>2. CASE Repaint
    <2>1. frame'.mouse = MouseEnd /\ UNCHANGED <<mouse_pos_x, mouse_pos_y>>
      BY <1>2 DEF Repaint, vesa_update_graphics
    <2> QED BY <2>1, PointerEnds DEF PointerInv, PointerOverdraw, MouseOnScreen,
            buffer_size, pixel_width, Padding
  <1>3. CASE Boot \/ Mount \/ PrintModules \/ PrintEntry \/ PrintEnd \/ WriteChar
             \/ UNCHANGED consoleVars
    <2>1. UNCHANGED <<mouse_pos_x, mouse_pos_y, frame>>
      BY <1>3 DEF Boot, Mount, PrintModules, PrintEntry, PrintEnd, WriteChar, consoleVars,
                  screenVars
    <2> QED BY <2>1 DEF PointerInv, PointerOverdraw, MouseOnScreen, buffer_size, pixel_width, Padding
  <1> QED BY <1>1, <1>2, <1>3 DEF ConsoleNext

LEMMA PointerInvariant == ConsoleSpec => []PointerInv
  BY PointerInitInv, PointerStepInv, PTL DEF ConsoleSpec

(* Whatever packets the mouse driver passes, unfinished ones included, the *)
(* pointer stays on the screen (vesa_graphics.c:45-49).                    *)
THEOREM PointerOnScreen == ConsoleSpec => []MouseOnScreen
  BY PointerInvariant, PTL DEF PointerInv

-----------------------------------------------------------------------------
(* Numbers and concatenations.                                             *)

LEMMA Induction ==
  ASSUME NEW S, 0 \in S, \A n \in Nat : n \in S => n + 1 \in S
  PROVE  Nat \subseteq S
  <1> SUFFICES ASSUME Nat \ S # {} PROVE FALSE
    OBVIOUS
  <1>1. IsWellFoundedOn(OpToRel(<, Nat), Nat)
    BY NatLessThanWellFounded
  <1>2. PICK x \in Nat \ S : \A y \in Nat \ S : ~ (<<y, x>> \in OpToRel(<, Nat))
    BY <1>1, WFMin
  <1>3. \A y \in Nat \ S : ~ (y < x)
    BY <1>2 DEF OpToRel
  <1>4. x # 0 /\ x - 1 \in Nat /\ x - 1 < x /\ x = (x - 1) + 1
    OBVIOUS
  <1>5. x - 1 \in S
    BY <1>3, <1>4
  <1> QED BY <1>4, <1>5

\* f is the concatenation of the first sequences, up to each of them
Concatenates(f, seqs, n) ==
  f = [i \in 1 .. n |-> IF i = 1 THEN seqs[i] ELSE f[i - 1] \o seqs[i]]

LEMMA ConcatenationExists ==
  ASSUME NEW seqs, NEW n \in Nat
  PROVE  \E f : Concatenates(f, seqs, n)
  <1> DEFINE S == {k \in Nat : \E f : Concatenates(f, seqs, k)}
  <1>1. 0 \in S
    <2> DEFINE f == [i \in 1 .. 0 |-> <<>>]
    <2>1. Concatenates(f, seqs, 0)
      BY DEF Concatenates
    <2> QED BY <2>1
  <1>2. ASSUME NEW k \in Nat, k \in S PROVE k + 1 \in S
    <2>1. PICK f : Concatenates(f, seqs, k)
      BY <1>2
    <2> DEFINE new == IF k = 0 THEN seqs[k + 1] ELSE f[k] \o seqs[k + 1]
               g == [i \in 1 .. k + 1 |-> IF i = k + 1 THEN new ELSE f[i]]
    <2>2. ASSUME NEW i \in 1 .. k + 1
          PROVE  g[i] = IF i = 1 THEN seqs[i] ELSE g[i - 1] \o seqs[i]
      <3>1. CASE i = k + 1
        <4>1. g[i] = new /\ (i # 1 => g[i - 1] = f[k]) /\ (i = 1 <=> k = 0)
          BY <3>1
        <4> QED BY <3>1, <4>1
      <3>2. CASE i # k + 1
        <4>1. i \in 1 .. k /\ g[i] = f[i] /\ (i # 1 => g[i - 1] = f[i - 1])
          BY <3>2
        <4>2. f[i] = IF i = 1 THEN seqs[i] ELSE f[i - 1] \o seqs[i]
          BY <2>1, <4>1 DEF Concatenates
        <4> QED BY <4>1, <4>2
      <3> QED BY <3>1, <3>2
    <2>3. Concatenates(g, seqs, k + 1)
      BY <2>2 DEF Concatenates
    <2> QED BY <2>3
  <1> HIDE DEF S
  <1>3. Nat \subseteq S
    BY <1>1, <1>2, Induction
  <1> QED BY <1>3 DEF S

AgreeUpTo(f, g, n) == \A i \in 1 .. n : f[i] = g[i]

LEMMA ConcatenationIsUnique ==
  ASSUME NEW seqs, NEW more, NEW n \in Nat, NEW k \in Nat, n <= k, AgreeUpTo(seqs, more, n),
         NEW f, Concatenates(f, seqs, n), NEW g, Concatenates(g, more, k)
  PROVE  AgreeUpTo(f, g, n)
  <1> DEFINE S == {i \in Nat : i \in 1 .. n => f[i] = g[i]}
  <1>1. 0 \in S
    OBVIOUS
  <1>2. ASSUME NEW i \in Nat, i \in S PROVE i + 1 \in S
    <2> SUFFICES ASSUME i + 1 <= n PROVE f[i + 1] = g[i + 1]
      OBVIOUS
    <2>a. i + 1 \in 1 .. n /\ i + 1 \in 1 .. k /\ (i + 1) - 1 = i /\ (i # 0 => i \in 1 .. n)
      OBVIOUS
    <2>1. (i # 0 => f[i] = g[i]) /\ seqs[i + 1] = more[i + 1]
      BY <1>2, <2>a DEF AgreeUpTo
    <2>2. f[i + 1] = IF i + 1 = 1 THEN seqs[i + 1] ELSE f[i] \o seqs[i + 1]
      BY <2>a DEF Concatenates
    <2>3. g[i + 1] = IF i + 1 = 1 THEN more[i + 1] ELSE g[i] \o more[i + 1]
      BY <2>a DEF Concatenates
    <2> QED BY <2>1, <2>2, <2>3
  <1> HIDE DEF S
  <1>3. Nat \subseteq S
    BY <1>1, <1>2, Induction
  <1> QED BY <1>3 DEF S, AgreeUpTo

LEMMA FlattenConcatenates ==
  ASSUME NEW T, NEW seqs \in Seq(T), seqs # <<>>
  PROVE  \E f : Concatenates(f, seqs, Len(seqs)) /\ FlattenSeq(seqs) = f[Len(seqs)]
  <1> DEFINE f == CHOOSE g : g = [i \in 1 .. Len(seqs) |->
                                    IF i = 1 THEN seqs[i] ELSE g[i - 1] \o seqs[i]]
  <1>0. Len(seqs) \in Nat /\ Len(seqs) # 0
    BY EmptySeq, LenProperties
  <1>1. FlattenSeq(seqs) = f[Len(seqs)]
    BY <1>0 DEF FlattenSeq
  <1>2. \E g : g = [i \in 1 .. Len(seqs) |-> IF i = 1 THEN seqs[i] ELSE g[i - 1] \o seqs[i]]
    <2>1. \E g : Concatenates(g, seqs, Len(seqs))
      BY <1>0, ConcatenationExists
    <2> QED BY <2>1 DEF Concatenates
  <1>3. f = [i \in 1 .. Len(seqs) |-> IF i = 1 THEN seqs[i] ELSE f[i - 1] \o seqs[i]]
    BY <1>2
  <1> QED BY <1>1, <1>3 DEF Concatenates

(* The two equations of FlattenSeq.                                        *)
LEMMA FlattenEquations ==
  ASSUME NEW S
  PROVE  /\ FlattenSeq(<<>>) = <<>>
         /\ \A seqs \in Seq(Seq(S)), t \in Seq(S) :
              FlattenSeq(Append(seqs, t)) =
                IF seqs = <<>> THEN t ELSE FlattenSeq(seqs) \o t
  <1>1. FlattenSeq(<<>>) = <<>>
    BY DEF FlattenSeq
  <1>2. ASSUME NEW seqs \in Seq(Seq(S)), NEW t \in Seq(S)
        PROVE  FlattenSeq(Append(seqs, t)) = IF seqs = <<>> THEN t ELSE FlattenSeq(seqs) \o t
    <2> DEFINE n == Len(seqs)
               more == Append(seqs, t)
    <2>1. /\ more \in Seq(Seq(S)) /\ Len(more) = n + 1 /\ n \in Nat /\ more # <<>>
          /\ \A i \in 1 .. n : seqs[i] = more[i]
          /\ more[n + 1] = t
      BY AppendProperties, LenProperties, EmptySeq
    <2>2. PICK g : Concatenates(g, more, n + 1) /\ FlattenSeq(more) = g[n + 1]
      BY <2>1, FlattenConcatenates
    <2>3. g[n + 1] = IF n = 0 THEN t ELSE g[n] \o t
      <3>1. n + 1 \in 1 .. n + 1 /\ (n + 1 = 1 <=> n = 0) /\ (n + 1) - 1 = n
        BY <2>1
      <3> HIDE DEF n, more
      <3> QED BY <2>1, <2>2, <3>1 DEF Concatenates
    <2>4. CASE seqs = <<>>
      <3>1. n = 0
        BY <2>4, EmptySeq
      <3> QED BY <2>2, <2>3, <2>4, <3>1
    <2>5. CASE seqs # <<>>
      <3>1. PICK f : Concatenates(f, seqs, n) /\ FlattenSeq(seqs) = f[n]
        BY <2>5, FlattenConcatenates
      <3>2. n # 0 /\ n \in 1 .. n /\ n <= n + 1 /\ n + 1 \in Nat
        BY <2>1, <2>5, EmptySeq
      <3> HIDE DEF n, more
      <3>3. AgreeUpTo(seqs, more, n)
        BY <2>1 DEF AgreeUpTo
      <3>5. AgreeUpTo(f, g, n)
        BY <2>1, <2>2, <3>1, <3>2, <3>3, ConcatenationIsUnique
      <3>6. f[n] = g[n]
        BY <3>2, <3>5 DEF AgreeUpTo
      <3>4. FlattenSeq(more) = FlattenSeq(seqs) \o t
        BY <2>2, <2>3, <3>1, <3>2, <3>6
      <3> QED BY <2>5, <3>4 DEF more
    <2> QED BY <2>4, <2>5
  <1> QED BY <1>1, <1>2

\* the first n elements
First(s, n) == SubSeq(s, 1, n)

LEMMA FirstProperties ==
  ASSUME NEW T, NEW s \in Seq(T)
  PROVE  /\ First(s, Len(s)) = s
         /\ First(s, 0) = <<>>
         /\ \A n \in 0 .. Len(s) : First(s, n) \in Seq(T) /\ (First(s, n) = <<>> <=> n = 0)
         /\ \A n \in 0 .. Len(s) - 1 : First(s, n + 1) = Append(First(s, n), s[n + 1])
  <1>1. First(s, Len(s)) = s /\ First(s, 0) = <<>>
    BY DEF First
  <1>2. ASSUME NEW n \in 0 .. Len(s)
        PROVE  First(s, n) \in Seq(T) /\ (First(s, n) = <<>> <=> n = 0)
    BY DEF First
  <1>3. ASSUME NEW n \in 0 .. Len(s) - 1
        PROVE  First(s, n + 1) = Append(First(s, n), s[n + 1])
    BY DEF First
  <1> QED BY <1>1, <1>2, <1>3

\* b begins with a
Begins(S, a, b) == a \in Seq(S) /\ b \in Seq(S) /\ \E rest \in Seq(S) : b = a \o rest

\* s, t and u joined in either order
Regroups(s, t, u) == (s \o t) \o u = s \o (t \o u)

LEMMA BeginsItself ==
  ASSUME NEW S, NEW a \in Seq(S)
  PROVE  Begins(S, a, a)
  BY ConcatEmptySeq, EmptySeq DEF Begins

LEMMA BeginsMore ==
  ASSUME NEW S, NEW a, NEW b, Begins(S, a, b), NEW t \in Seq(S)
  PROVE  Begins(S, a, b \o t)
  <1>1. PICK rest \in Seq(S) : b = a \o rest
    BY DEF Begins
  <1>2. b \o t = a \o (rest \o t)
    <2>1. a \in Seq(S)
      BY DEF Begins
    <2>2. (a \o rest) \o t = a \o (rest \o t)
      BY <2>1, ConcatAssociative
    <2> QED BY <1>1, <2>2
  <1>3. rest \o t \in Seq(S) /\ b \o t \in Seq(S)
    BY ConcatProperties DEF Begins
  <1> QED BY <1>2, <1>3 DEF Begins

(* What the first of some sequences are together begins what all are.      *)
LEMMA FlattenBegins ==
  ASSUME NEW S, NEW seqs \in Seq(Seq(S)), NEW n \in 0 .. Len(seqs)
  PROVE  /\ Begins(S, FlattenSeq(First(seqs, n)), FlattenSeq(seqs))
         /\ n < Len(seqs) =>
              FlattenSeq(First(seqs, n + 1)) = FlattenSeq(First(seqs, n)) \o seqs[n + 1]
  <1> DEFINE F(k) == FlattenSeq(First(seqs, k))
             Typed == {k \in Nat : k <= Len(seqs) => F(k) \in Seq(S)}
             Later == {k \in Nat : n <= k /\ k <= Len(seqs) => Begins(S, F(n), F(k))}
  <1>0. n \in Nat /\ Len(seqs) \in Nat
    BY LenProperties
  <1>1. F(0) = <<>>
    BY FirstProperties, FlattenEquations
  <1>2. ASSUME NEW k \in Nat, k + 1 <= Len(seqs), F(k) \in Seq(S)
        PROVE  F(k + 1) = F(k) \o seqs[k + 1] /\ seqs[k + 1] \in Seq(S)
    <2>1. k \in 0 .. Len(seqs) /\ k \in 0 .. Len(seqs) - 1 /\ k + 1 \in 1 .. Len(seqs)
      BY <1>0, <1>2
    <2>2. seqs[k + 1] \in Seq(S)
      BY <2>1, ElementOfSeq
    <2>3. /\ First(seqs, k) \in Seq(Seq(S)) /\ (First(seqs, k) = <<>> <=> k = 0)
          /\ First(seqs, k + 1) = Append(First(seqs, k), seqs[k + 1])
      BY <2>1, FirstProperties
    <2>4. F(k + 1) = IF k = 0 THEN seqs[k + 1] ELSE F(k) \o seqs[k + 1]
      BY <2>2, <2>3, FlattenEquations
    <2>5. <<>> \o seqs[k + 1] = seqs[k + 1]
      BY <2>2, ConcatEmptySeq
    <2> HIDE DEF F
    <2> QED BY <1>1, <2>2, <2>4, <2>5
  <1>3. Nat \subseteq Typed
    <2>1. 0 \in Typed
      <3>1. <<>> \in Seq(S)
        BY EmptySeq
      <3> HIDE DEF F
      <3> QED BY <1>1, <3>1
    <2>2. ASSUME NEW k \in Nat, k \in Typed PROVE k + 1 \in Typed
      <3> SUFFICES ASSUME k + 1 <= Len(seqs) PROVE F(k + 1) \in Seq(S)
        OBVIOUS
      <3> HIDE DEF F
      <3>1. F(k) \in Seq(S)
        BY <1>0, <2>2
      <3> QED BY <1>2, <3>1, ConcatProperties
    <2> HIDE DEF Typed
    <2> QED BY <2>1, <2>2, Induction
  <1>4. \A k \in 0 .. Len(seqs) : F(k) \in Seq(S)
    <2> HIDE DEF F
    <2> QED BY <1>0, <1>3
  <1>5. Nat \subseteq Later
    <2>1. 0 \in Later
      <3>1. Begins(S, F(n), F(n))
        <4> HIDE DEF F
        <4> QED BY <1>4, BeginsItself
      <3> HIDE DEF F
      <3> QED BY <1>0, <3>1
    <2>2. ASSUME NEW k \in Nat, k \in Later PROVE k + 1 \in Later
      <3> SUFFICES ASSUME n <= k + 1, k + 1 <= Len(seqs) PROVE Begins(S, F(n), F(k + 1))
        OBVIOUS
      <3> HIDE DEF F
      <3>1. CASE n = k + 1
        BY <1>4, <3>1, BeginsItself
      <3>2. CASE n <= k
        <4>1. Begins(S, F(n), F(k)) /\ k \in 0 .. Len(seqs)
          BY <1>0, <2>2, <3>2
        <4> QED BY <1>2, <1>4, <4>1, BeginsMore
      <3> QED BY <1>0, <3>1, <3>2
    <2> HIDE DEF Later
    <2> QED BY <2>1, <2>2, Induction
  <1>6. Begins(S, F(n), F(Len(seqs)))
    <2> HIDE DEF F
    <2> QED BY <1>0, <1>5
  <1>7. First(seqs, Len(seqs)) = seqs
    BY FirstProperties
  <1>8. n < Len(seqs) => F(n + 1) = F(n) \o seqs[n + 1]
    <2> HIDE DEF F
    <2> QED BY <1>0, <1>2, <1>4
  <1>9. F(Len(seqs)) = FlattenSeq(seqs)
    BY <1>7
  <1>10. /\ Begins(S, F(n), FlattenSeq(seqs))
         /\ n < Len(seqs) => F(n + 1) = F(n) \o seqs[n + 1]
    <2> HIDE DEF F
    <2> QED BY <1>6, <1>8, <1>9
  <1> QED BY <1>10

-----------------------------------------------------------------------------
(* The least of some numbers.                                              *)

LEMMA MinIsLeast ==
  ASSUME NEW S, S \subseteq Nat, S # {}
  PROVE  Min(S) \in S /\ \A y \in S : Min(S) <= y
  <1>1. IsWellFoundedOn(OpToRel(<, Nat), Nat)
    BY NatLessThanWellFounded
  <1>2. IsWellFoundedOn(OpToRel(<, Nat), S)
    BY <1>1, IsWellFoundedOnSubset
  <1>3. PICK x \in S : \A y \in S : ~ (<<y, x>> \in OpToRel(<, Nat))
    BY <1>2, WFMin
  <1>4. x \in Nat /\ \A y \in S : y \in Nat
    OBVIOUS
  <1>5. \A y \in S : ~ (y < x)
    BY <1>3, <1>4 DEF OpToRel
  <1>6. \A y \in S : x <= y
    BY <1>4, <1>5
  <1> QED BY <1>6 DEF Min

LEMMA MinOfTwo ==
  ASSUME NEW a \in Nat, NEW b \in Nat
  PROVE  Min({a, b}) = IF a <= b THEN a ELSE b
  <1>1. Min({a, b}) \in {a, b} /\ \A y \in {a, b} : Min({a, b}) <= y
    BY MinIsLeast
  <1> QED BY <1>1

-----------------------------------------------------------------------------
(* The disk as initrd_gen writes it, and what is read of it.               *)

Contents(files) == [i \in DOMAIN files |-> files[i].bytes]

LEMMA FilesAreSequences ==
  ASSUME NEW files \in Seq(Files)
  PROVE  /\ Contents(files) \in Seq(Seq(Bytes)) /\ Len(Contents(files)) = Len(files)
         /\ Len(files) \in Nat /\ DOMAIN files = 1 .. Len(files)
         /\ \A i \in DOMAIN files :
              /\ files[i] \in Files /\ files[i].bytes \in Seq(Bytes) /\ files[i].name \in Names
              /\ Contents(files)[i] = files[i].bytes /\ Len(files[i].bytes) \in Nat
  <1>1. /\ Len(files) \in Nat /\ DOMAIN files = 1 .. Len(files)
        /\ \A i \in DOMAIN files : files[i] \in Files
    OBVIOUS
  <1>2. \A f \in Files : f.bytes \in Seq(Bytes) /\ f.name \in Names
    BY InitrdAssumption
  <1>3. Contents(files) \in [1 .. Len(files) -> Seq(Bytes)]
    BY <1>1, <1>2 DEF Contents
  <1>4. Contents(files) \in Seq(Seq(Bytes)) /\ Len(Contents(files)) = Len(files)
    BY <1>1, <1>3
  <1> QED BY <1>1, <1>2, <1>4, LenProperties DEF Contents

(* The part of the image a file begins at is what the earlier ones take.   *)
LEMMA FileStarts ==
  ASSUME NEW files \in Seq(Files), NEW i \in DOMAIN files
  PROVE  /\ Written(SubSeq(files, 1, i - 1)) = FlattenSeq(First(Contents(files), i - 1))
         /\ Written(files) = FlattenSeq(Contents(files))
  <1>1. i \in 1 .. Len(files) /\ Len(files) \in Nat /\ DOMAIN files = 1 .. Len(files)
    OBVIOUS
  <1>2. /\ SubSeq(files, 1, i - 1) = [k \in 1 .. i - 1 |-> files[k]]
        /\ DOMAIN SubSeq(files, 1, i - 1) = 1 .. i - 1
    BY <1>1
  <1>3. First(Contents(files), i - 1) = [k \in 1 .. i - 1 |-> Contents(files)[k]]
    BY <1>1, FilesAreSequences DEF First
  <1>4. \A k \in 1 .. i - 1 : Contents(files)[k] = SubSeq(files, 1, i - 1)[k].bytes
    BY <1>1, <1>2 DEF Contents
  <1>5. First(Contents(files), i - 1)
          = [k \in DOMAIN SubSeq(files, 1, i - 1) |-> SubSeq(files, 1, i - 1)[k].bytes]
    BY <1>2, <1>3, <1>4
  <1> QED BY <1>5 DEF Written, Contents

LEMMA ImageHoldsFiles ==
  ASSUME NEW files \in Seq(Files), NEW i \in DOMAIN files
  PROVE  LET start == Len(Written(SubSeq(files, 1, i - 1)))
             bytes == files[i].bytes
         IN /\ start \in Nat
            /\ \A k \in 1 .. Len(bytes) :
                 start + k \in DOMAIN Written(files) /\ Written(files)[start + k] = bytes[k]
  <1> DEFINE before == FlattenSeq(First(Contents(files), i - 1))
             bytes  == files[i].bytes
             all    == FlattenSeq(Contents(files))
  <1>1. /\ Contents(files) \in Seq(Seq(Bytes)) /\ Len(Contents(files)) = Len(files)
        /\ i \in 1 .. Len(files) /\ Len(files) \in Nat
        /\ Contents(files)[i] = bytes /\ bytes \in Seq(Bytes)
    BY FilesAreSequences
  <1>2. i - 1 \in 0 .. Len(Contents(files)) /\ i \in 0 .. Len(Contents(files))
        /\ i - 1 < Len(Contents(files)) /\ (i - 1) + 1 = i
    BY <1>1
  <1>3. FlattenSeq(First(Contents(files), i)) = before \o bytes
    BY <1>1, <1>2, FlattenBegins
  <1>4. Begins(Bytes, before, all) /\ Begins(Bytes, FlattenSeq(First(Contents(files), i)), all)
    BY <1>1, <1>2, FlattenBegins
  <1>5. PICK rest \in Seq(Bytes) : all = (before \o bytes) \o rest
    BY <1>3, <1>4 DEF Begins
  <1>6. before \in Seq(Bytes)
    BY <1>4 DEF Begins
  <1>7. Written(SubSeq(files, 1, i - 1)) = before /\ Written(files) = all
    BY FileStarts
  <1> HIDE DEF before, bytes, all
  <1>8. ASSUME NEW k \in 1 .. Len(bytes)
        PROVE  Len(before) + k \in DOMAIN all /\ all[Len(before) + k] = bytes[k]
    <2>1. before \o bytes \in Seq(Bytes)
      BY <1>1, <1>6
    <2>2. /\ Len(before \o bytes) = Len(before) + Len(bytes)
          /\ Len(before) \in Nat /\ Len(bytes) \in Nat
          /\ (before \o bytes)[Len(before) + k] = bytes[k]
      BY <1>1, <1>6
    <2>3. Len(before) + k \in 1 .. Len(before \o bytes)
      BY <2>2
    <2>4. /\ Len(before) + k \in DOMAIN ((before \o bytes) \o rest)
          /\ ((before \o bytes) \o rest)[Len(before) + k] = (before \o bytes)[Len(before) + k]
      BY <2>1, <2>3
    <2> QED BY <1>5, <2>2, <2>4
  <1>9. Len(before) \in Nat
    BY <1>6
  <1> QED BY <1>7, <1>8, <1>9 DEF bytes

\* the disk is mounted
DiskIsThere ==
  /\ image = Written(argv)
  /\ file_headers = [i \in DOMAIN argv |-> [Header(argv, i) EXCEPT !.offset = @ + Location]]
  /\ root_nodes = [i \in DOMAIN argv |-> FileNode(Header(argv, i), i)]

(* Clipping to the file is what SubSeq does.                               *)
LEMMA ReadIsPart ==
  ASSUME argv \in Seq(Files), DiskIsThere, NEW i \in DOMAIN argv,
         NEW offset \in Nat, NEW size \in Nat, offset + size < Word
  PROVE  read_fs(root_nodes[i], offset, size) = Part(argv[i].bytes, offset + 1, offset + size)
  <1> DEFINE bytes == argv[i].bytes
             start == Len(Written(SubSeq(argv, 1, i - 1)))
             n     == IF offset > Len(bytes) THEN 0
                      ELSE IF offset + size > Len(bytes) THEN Len(bytes) - offset ELSE size
             last  == IF offset + size <= Len(bytes) THEN offset + size ELSE Len(bytes)
  <1>1. bytes \in Seq(Bytes) /\ Len(bytes) \in Nat
    BY FilesAreSequences
  <1>2. /\ start \in Nat
        /\ \A k \in 1 .. Len(bytes) :
             start + k \in DOMAIN image /\ image[start + k] = bytes[k]
    BY ImageHoldsFiles DEF DiskIsThere
  <1>3. /\ root_nodes[i].flags = "FILE" /\ root_nodes[i].inode = i
        /\ file_headers[i].offset = DataStart + start + Location
        /\ file_headers[i].length = Len(bytes)
    BY DEF DiskIsThere, FileNode, Header, OffsetOf
  <1>4. (offset + size) % Word = offset + size
    <2>1. Word \in Nat /\ offset + size \in 0 .. Word - 1
      BY InitrdAssumption
    <2> QED BY <2>1
  <1>5. read_fs(root_nodes[i], offset, size) =
          [k \in 1 .. n |-> Memory(DataStart + start + Location + offset + k - 1)]
    BY <1>3, <1>4 DEF read_fs, initrd_read, Clipped
  <1>6. ASSUME NEW k \in 1 .. n
        PROVE  Memory(DataStart + start + Location + offset + k - 1) = bytes[offset + k]
    <2>1. DataStart \in Nat /\ Location \in Nat
      BY InitrdAssumption DEF DataStart, HeaderSize, MaxHeaders
    <2>2. offset + k \in 1 .. Len(bytes)
      BY <1>1
    <2> HIDE DEF start, bytes, n
    <2>3. (DataStart + start + Location + offset + k - 1) - Location - DataStart + 1
            = start + (offset + k)
      BY <1>2, <2>1
    <2> QED BY <1>2, <2>2, <2>3 DEF Memory
  <1>7. Part(bytes, offset + 1, offset + size) = SubSeq(bytes, offset + 1, last)
    <2> HIDE DEF bytes
    <2>1. Min({offset + size, Len(bytes)}) = last
      BY <1>1, MinOfTwo
    <2> QED BY <2>1 DEF Part
  <1>8. SubSeq(bytes, offset + 1, last) = [k \in 1 .. n |-> bytes[offset + k]]
    <2> HIDE DEF bytes
    <2>1. last - (offset + 1) + 1 = last - offset /\ 1 .. last - offset = 1 .. n
      BY <1>1
    <2>2. \A k \in 1 .. n : k + (offset + 1) - 1 = offset + k
      BY <1>1
    <2> QED BY <1>1, <2>1, <2>2
  <1> HIDE DEF n, bytes
  <1> QED BY <1>5, <1>6, <1>7, <1>8 DEF bytes

-----------------------------------------------------------------------------
(* How the disk is found, and that it stays.                               *)

ModsAreCopied ==
  mods = [i \in 1 .. Min({mods_count, MAX_MODULES}) |->
            [mbt[i] EXCEPT !.mod_start = @ + BASE_VIRTUAL]]

DiskInv ==
  /\ doing \in {"boot", "mount", "modules", "initrd", "done", "lost"}
  /\ argv \in Seq(Files)
  /\ \A i, j \in DOMAIN argv : argv[i].name = argv[j].name => argv[i] = argv[j]
  /\ mbt \in ModuleLists
  /\ IF doing = "boot" THEN mods = <<>> ELSE ModsAreCopied
  /\ doing = "lost" => ~Findable
  /\ IF Mounted THEN DiskIsThere ELSE file_headers = <<>> /\ root_nodes = <<>>

LEMMA ModulesAreSequences ==
  ASSUME mbt \in ModuleLists
  PROVE  /\ mods_count \in Nat /\ MAX_MODULES \in Nat
         /\ \A i \in 1 .. mods_count : mbt[i] \in [string : Strings, mod_start : Nat]
         /\ Min({mods_count, MAX_MODULES}) =
              IF mods_count <= MAX_MODULES THEN mods_count ELSE MAX_MODULES
         /\ Min({MAX_MODULES, mods_count}) = Min({mods_count, MAX_MODULES})
  <1>1. mods_count \in Nat /\ MAX_MODULES \in Nat
        /\ \A i \in 1 .. mods_count : mbt[i] \in [string : Strings, mod_start : Nat]
    <2> DEFINE M == [string : Strings, mod_start : Nat]
    <2>1. mbt \in Seq(M) /\ MAX_MODULES \in Nat
      BY MultibootAssumption
    <2> HIDE DEF M
    <2>2. mods_count \in Nat /\ \A i \in 1 .. mods_count : mbt[i] \in M
      BY <2>1 DEF mods_count
    <2> QED BY <2>1, <2>2 DEF M
  <1>2. {MAX_MODULES, mods_count} = {mods_count, MAX_MODULES}
    OBVIOUS
  <1> QED BY <1>1, <1>2, MinOfTwo

(* get_module finds the disk if it is there to be found.                   *)
LEMMA FindableIsFound ==
  ASSUME mbt \in ModuleLists, ModsAreCopied, Findable, NEW m \in get_module(DiskName)
  PROVE  IsTheDisk(m)
  <1> DEFINE kept  == Min({mods_count, MAX_MODULES})
             found == {i \in DOMAIN mods : Matches(mods[i].string, DiskName)}
  <1>1. DOMAIN mods = 1 .. kept /\ kept \in Nat /\ kept <= mods_count
    BY ModulesAreSequences DEF ModsAreCopied
  <1>2. ASSUME NEW i \in 1 .. kept
        PROVE  mods[i].string = mbt[i].string /\ mods[i].mod_start = mbt[i].mod_start + BASE_VIRTUAL
    <2>1. mbt[i] \in [string : Strings, mod_start : Nat]
      BY <1>1, ModulesAreSequences
    <2>2. mods[i] = [mbt[i] EXCEPT !.mod_start = @ + BASE_VIRTUAL]
      BY DEF ModsAreCopied
    <2> QED BY <2>1, <2>2
  <1>3. PICK i \in 1 .. kept :
          /\ mbt[i].string = DiskName
          /\ \A j \in 1 .. i - 1 : <<mbt[j].string, DiskName>> \notin Longer
    BY ModulesAreSequences DEF Findable
  <1>4. found \subseteq Nat /\ i \in found
    <2>1. Matches(mods[i].string, DiskName)
      BY <1>2, <1>3 DEF Matches
    <2>2. DOMAIN mods \subseteq Nat /\ i \in DOMAIN mods
      BY <1>1
    <2> QED BY <2>1, <2>2
  <1>5. Min(found) \in found /\ Min(found) <= i
    BY <1>4, MinIsLeast
  <1>6. m = <<mods[Min(found)]>>
    BY <1>4 DEF get_module
  <1>7. PICK j \in 1 .. kept : j = Min(found) /\ Matches(mods[j].string, DiskName) /\ j <= i
    BY <1>1, <1>5
  <1> HIDE DEF kept, found
  <1>8. mbt[j].string = DiskName
    BY <1>2, <1>3, <1>7 DEF Matches
  <1>9. mbt[j].mod_start + BASE_VIRTUAL = Location
    <2>1. j \in DOMAIN mbt
      <3>1. mbt \in Seq([string : Strings, mod_start : Nat])
        BY MultibootAssumption
      <3> QED BY <1>1, <3>1 DEF mods_count
    <2> QED BY <1>8, <2>1, ConsoleAssumption
  <1>10. m[1].mod_start = Location /\ m # <<>>
    BY <1>2, <1>6, <1>7, <1>9
  <1> QED BY <1>10 DEF IsTheDisk

LEMMA DiskInitInv == ConsoleInit => DiskInv
  <1> SUFFICES ASSUME ConsoleInit PROVE DiskInv
    OBVIOUS
  <1>1. argv \in Seq(Files)
    <2>1. PICK n \in 0 .. MaxFiles : argv \in [1 .. n -> Files]
      BY DEF ConsoleInit, InitrdInit, BoundedSeq, SeqOf
    <2>2. n \in Nat
      BY InitrdAssumption
    <2> QED BY <2>1, <2>2
  <1> QED BY <1>1 DEF ConsoleInit, InitrdInit, MultibootInit, DiskInv, Mounted

LEMMA DiskStepInv == DiskInv /\ [ConsoleNext]_consoleVars => DiskInv'
  <1> SUFFICES ASSUME DiskInv, [ConsoleNext]_consoleVars PROVE DiskInv'
    OBVIOUS
  <1>1. CASE Boot
    <2>1. /\ ModsAreCopied' /\ doing = "boot" /\ doing' = "mount"
          /\ UNCHANGED <<mbt, argv, image, file_headers, root_nodes>>
      BY <1>1 DEF Boot, load_modules, initrdVars, ModsAreCopied, mods_count
    <2> QED BY <2>1 DEF DiskInv, Mounted
  <1>2. CASE Mount
    <2>1. /\ doing = "mount" /\ UNCHANGED <<mbt, mods, argv>>
      BY <1>2 DEF Mount, multibootVars, InitrdMount, initrdVars
    <2>2. ModsAreCopied' /\ (Findable' <=> Findable)
      BY <2>1 DEF DiskInv, ModsAreCopied, mods_count, Findable
    <2>3. PICK m \in get_module(DiskName) :
            \/ IsTheDisk(m) /\ InitrdMount /\ doing' = "modules"
            \/ ~IsTheDisk(m) /\ doing' = "lost" /\ UNCHANGED initrdVars
      BY <1>2 DEF Mount
    <2>4. CASE InitrdMount /\ doing' = "modules"
      <3>1. DiskIsThere'
        BY <2>1, <2>4 DEF InitrdMount, DiskIsThere, Written, Header, OffsetOf, FileNode
      <3> QED BY <2>1, <2>2, <2>4, <3>1 DEF DiskInv, Mounted
    <2>5. CASE ~IsTheDisk(m) /\ doing' = "lost" /\ UNCHANGED initrdVars
      <3>1. ~Findable
        BY <2>1, <2>5, FindableIsFound DEF DiskInv
      <3> QED BY <2>1, <2>2, <2>5, <3>1 DEF DiskInv, Mounted, initrdVars
    <2> QED BY <2>3, <2>4, <2>5
  <1>3. CASE \/ PrintModules \/ PrintEntry \/ PrintEnd \/ WriteChar \/ Repaint \/ MousePacket
             \/ UNCHANGED consoleVars
    <2>1. UNCHANGED <<mbt, mods, argv, image, file_headers, root_nodes>>
      BY <1>3 DEF PrintModules, PrintEntry, PrintEnd, WriteChar, Repaint, MousePacket,
                  consoleVars, multibootVars, initrdVars
    <2>2. \/ doing' = doing
          \/ doing \in {"modules", "initrd"} /\ doing' \in {"initrd", "done"}
      BY <1>3 DEF PrintModules, PrintEntry, PrintEnd, WriteChar, Repaint, MousePacket, consoleVars
    <2>3. ModsAreCopied' <=> ModsAreCopied
      BY <2>1 DEF ModsAreCopied, mods_count
    <2>4. Findable' <=> Findable
      BY <2>1 DEF Findable, mods_count
    <2>5. DiskIsThere' <=> DiskIsThere
      BY <2>1 DEF DiskIsThere, Written, Header, OffsetOf, FileNode
    <2> QED BY <2>1, <2>2, <2>3, <2>4, <2>5 DEF DiskInv, Mounted
  <1> QED BY <1>1, <1>2, <1>3 DEF ConsoleNext

LEMMA DiskInvariant == ConsoleSpec => []DiskInv
  BY DiskInitInv, DiskStepInv, PTL DEF ConsoleSpec

(* Whatever files the disk was made of, every read returns the bytes of    *)
(* its file and as many as there are (initrd.c:14-22, initrd_gen.c:18-33); *)
(* and the disk is found unless its module is missing, one too many, or    *)
(* behind one whose name begins like its own (kernel.c:36).                *)
THEOREM DiskReturnsTheFiles == ConsoleSpec => []ReadsAreTheFiles
  <1>1. DiskInv => ReadsAreTheFiles
    <2> SUFFICES ASSUME DiskInv PROVE ReadsAreTheFiles
      OBVIOUS
    <2>1. \A n \in Numbers : n \in Nat
      BY ConsoleAssumption
    <2> QED BY <2>1, ReadIsPart DEF DiskInv, ReadsAreTheFiles
  <1> QED BY <1>1, DiskInvariant, PTL

-----------------------------------------------------------------------------
(* What print_modules and print_initrd write.                              *)

Symbols == {Newline, DirName, "unknown"} \cup Bytes \cup Names \cup Strings

ModuleNames == [i \in 1 .. mods_count |-> IF i <= MAX_MODULES THEN mbt[i].string ELSE "unknown"]
ShownFiles  == [i \in DOMAIN argv |-> Shown(argv[i])]
Heading     == Modules(ModuleNames) \o <<DirName, Newline, Newline>>

LEMMA FlattenType ==
  ASSUME NEW S, NEW seqs \in Seq(Seq(S))
  PROVE  FlattenSeq(seqs) \in Seq(S)
  <1>1. 0 \in 0 .. Len(seqs)
    BY LenProperties
  <1>2. Begins(S, FlattenSeq(First(seqs, 0)), FlattenSeq(seqs))
    BY <1>1, FlattenBegins
  <1> QED BY <1>2 DEF Begins

LEMMA SomeSymbols ==
  /\ \A x \in Symbols : <<x>> \in Seq(Symbols) /\ <<x, Newline>> \in Seq(Symbols)
  /\ <<Newline>> \in Seq(Symbols) /\ <<DirName, Newline, Newline>> \in Seq(Symbols)
  /\ <<>> \in Seq(Symbols)
  <1>1. Newline \in Symbols /\ DirName \in Symbols
    BY DEF Symbols
  <1> QED BY <1>1

LEMMA ModulesType ==
  ASSUME NEW n \in Nat, NEW names \in [1 .. n -> Symbols]
  PROVE  Modules(names) \in Seq(Symbols)
  <1> DEFINE lines == [i \in DOMAIN names |-> <<names[i], Newline>>]
  <1>1. lines \in [1 .. n -> Seq(Symbols)]
    BY SomeSymbols
  <1>2. lines \in Seq(Seq(Symbols))
    <2> HIDE DEF lines
    <2> QED BY <1>1
  <1>3. FlattenSeq(lines) \in Seq(Symbols)
    <2> HIDE DEF lines
    <2> QED BY <1>2, FlattenType
  <1>4. Modules(names) = <<Newline>> \o FlattenSeq(lines) \o <<Newline>>
    BY DEF Modules
  <1> HIDE DEF lines
  <1> QED BY <1>3, <1>4, SomeSymbols, ConcatProperties

LEMMA PartBegins ==
  ASSUME NEW S, NEW s \in Seq(S), NEW n \in Nat
  PROVE  /\ Part(s, 1, n) = IF Len(s) <= n THEN s ELSE SubSeq(s, 1, n)
         /\ Part(s, 1, n) \in Seq(S)
  <1>1. Len(s) \in Nat
    OBVIOUS
  <1>2. Part(s, 1, n) = SubSeq(s, 1, IF n <= Len(s) THEN n ELSE Len(s))
    BY <1>1, MinOfTwo DEF Part
  <1>3. SubSeq(s, 1, Len(s)) = s
    OBVIOUS
  <1>4. n <= Len(s) => SubSeq(s, 1, n) \in Seq(S)
    BY <1>1
  <1> QED BY <1>1, <1>2, <1>3, <1>4

LEMMA ShownType ==
  ASSUME NEW f \in Files
  PROVE  Shown(f) \in Seq(Symbols)
  <1>1. f.name \in Symbols /\ f.bytes \in Seq(Bytes)
    BY InitrdAssumption DEF Symbols
  <1>2. Part(f.bytes, 1, DumpSize) \in Seq(Bytes)
    <2>1. DumpSize \in Nat
      BY ConsoleAssumption, InitrdAssumption
    <2> QED BY <1>1, <2>1, PartBegins
  <1>3. Part(f.bytes, 1, DumpSize) \in Seq(Symbols)
    <2>1. Bytes \subseteq Symbols
      BY DEF Symbols
    <2> QED BY <1>2, <2>1
  <1>4. (IF f.name = DirName THEN <<>> ELSE Part(f.bytes, 1, DumpSize)) \in Seq(Symbols)
    BY <1>3, SomeSymbols
  <1> QED BY <1>1, <1>4, SomeSymbols, ConcatProperties DEF Shown

LEMMA ListingType ==
  ASSUME DiskInv
  PROVE  /\ Modules(ModuleNames) \in Seq(Symbols) /\ Heading \in Seq(Symbols)
         /\ ShownFiles \in Seq(Seq(Symbols)) /\ Len(ShownFiles) = Len(argv) /\ Len(argv) \in Nat
         /\ Listing = Heading \o FlattenSeq(ShownFiles) \o <<Newline>>
         /\ Listing \in Seq(Symbols)
  <1>1. ModuleNames \in [1 .. mods_count -> Symbols] /\ mods_count \in Nat
    <2>1. \A i \in 1 .. mods_count : mbt[i].string \in Strings
      BY ModulesAreSequences DEF DiskInv
    <2> QED BY <2>1, ModulesAreSequences DEF DiskInv, ModuleNames, Symbols
  <1>2. Modules(ModuleNames) \in Seq(Symbols)
    BY <1>1, ModulesType
  <1>3. Heading \in Seq(Symbols)
    BY <1>2, SomeSymbols, ConcatProperties DEF Heading
  <1>4. /\ Len(argv) \in Nat /\ DOMAIN argv = 1 .. Len(argv)
        /\ \A i \in DOMAIN argv : argv[i] \in Files
    BY FilesAreSequences DEF DiskInv
  <1>5. ShownFiles \in [1 .. Len(argv) -> Seq(Symbols)]
    BY <1>4, ShownType DEF ShownFiles
  <1>6. ShownFiles \in Seq(Seq(Symbols)) /\ Len(ShownFiles) = Len(argv)
    BY <1>4, <1>5
  <1>7. Listing = Heading \o FlattenSeq(ShownFiles) \o <<Newline>>
    BY DEF Listing, Heading, ModuleNames, ShownFiles
  <1>8. FlattenSeq(ShownFiles) \in Seq(Symbols)
    BY <1>6, FlattenType
  <1>9. Listing \in Seq(Symbols)
    BY <1>3, <1>7, <1>8, SomeSymbols, ConcatProperties
  <1> QED BY <1>2, <1>3, <1>4, <1>6, <1>7, <1>9

LEMMA ThreeSymbols ==
  ASSUME NEW a, NEW b, NEW c
  PROVE  <<a, b>> \o <<c>> = <<a, b, c>>
  <1> DEFINE S == {a, b, c}
             s == <<a, b>> \o <<c>>
             t == <<a, b, c>>
  <1>1. s \in Seq(S) /\ t \in Seq(S)
    OBVIOUS
  <1>2. Len(s) = 3 /\ s[1] = a /\ s[2] = b /\ s[3] = c
    OBVIOUS
  <1>3. Len(t) = 3 /\ t[1] = a /\ t[2] = b /\ t[3] = c
    OBVIOUS
  <1>4. \A i \in 1 .. Len(s) : i = 1 \/ i = 2 \/ i = 3
    BY <1>2
  <1>5. \A i \in 1 .. Len(s) : s[i] = t[i]
    <2> HIDE DEF s, t
    <2> QED BY <1>2, <1>3, <1>4
  <1>6. Len(s) = Len(t)
    BY <1>2, <1>3
  <1> HIDE DEF s, t
  <1>7. s = t
    BY <1>1, <1>5, <1>6, SeqEqual
  <1> QED BY <1>7 DEF s, t

(* An entry is found by its name: a file, unless the directory hides it.   *)
LEMMA FileIsFound ==
  ASSUME DiskInv, Mounted, NEW e \in DOMAIN argv, argv[e].name # DirName
  PROVE  \E j \in DOMAIN argv : /\ argv[j] = argv[e]
                                /\ finddir_fs(initrd_root, argv[e].name) = <<root_nodes[j]>>
  <1> DEFINE name  == argv[e].name
             found == {i \in 1 .. Len(root_nodes) : root_nodes[i].name = name}
  <1>1. /\ Len(argv) \in Nat /\ DOMAIN argv = 1 .. Len(argv)
        /\ root_nodes = [i \in DOMAIN argv |-> FileNode(Header(argv, i), i)]
    BY FilesAreSequences DEF DiskInv, DiskIsThere
  <1>2. Len(root_nodes) = Len(argv) /\ \A i \in DOMAIN argv : root_nodes[i].name = argv[i].name
    BY <1>1 DEF FileNode, Header
  <1>3. found \subseteq Nat /\ e \in found
    BY <1>1, <1>2
  <1>4. Min(found) \in found
    BY <1>3, MinIsLeast
  <1>5. Min(found) \in DOMAIN argv /\ argv[Min(found)].name = name /\ Min(found) # 0
    <2>1. PICK j \in 1 .. Len(argv) : j = Min(found) /\ root_nodes[j].name = name
      BY <1>2, <1>4
    <2> HIDE DEF name, found
    <2> QED BY <1>1, <1>2, <2>1
  <1>6. argv[Min(found)] = argv[e]
    BY <1>5 DEF DiskInv
  <1>7. SelectInSeq(root_nodes, LAMBDA n : n.name = name) = Min(found)
    BY <1>3 DEF SelectInSeq
  <1>8. initrd_finddir(initrd_root, name) = <<root_nodes[Min(found)]>>
    BY <1>5, <1>7 DEF initrd_finddir
  <1>9. finddir_fs(initrd_root, name) = <<root_nodes[Min(found)]>>
    BY <1>8 DEF finddir_fs, initrd_root, Directory
  <1> QED BY <1>5, <1>6, <1>9

LEMMA DumpIsShown ==
  ASSUME DiskInv, Mounted
  PROVE  /\ Dump(DirName) = <<DirName, Newline, Newline>>
         /\ \A e \in DOMAIN argv : Dump(argv[e].name) = Shown(argv[e])
  <1>1. Dump(DirName) = <<DirName, Newline, Newline>>
    <2>1. finddir_fs(initrd_root, DirName) = <<initrd_dev>>
      BY DEF finddir_fs, initrd_finddir, initrd_root, Directory
    <2>2. initrd_dev.flags = "DIRECTORY"
      BY DEF initrd_dev, Directory
    <2>3. Dump(DirName) = <<DirName, Newline>> \o <<Newline>>
      BY <2>1, <2>2 DEF Dump
    <2> QED BY <2>3, ThreeSymbols
  <1>2. ASSUME NEW e \in DOMAIN argv PROVE Dump(argv[e].name) = Shown(argv[e])
    <2>1. CASE argv[e].name = DirName
      <3>1. Shown(argv[e]) = <<DirName, Newline>> \o <<>> \o <<Newline>>
        BY <2>1 DEF Shown
      <3>2. <<DirName, Newline>> \o <<>> = <<DirName, Newline>>
        OBVIOUS
      <3> QED BY <1>1, <2>1, <3>1, <3>2, ThreeSymbols
    <2>2. CASE argv[e].name # DirName
      <3>1. PICK j \in DOMAIN argv :
              argv[j] = argv[e] /\ finddir_fs(initrd_root, argv[e].name) = <<root_nodes[j]>>
        BY <2>2, FileIsFound
      <3>2. root_nodes[j].flags = "FILE"
        BY DEF DiskInv, DiskIsThere, FileNode
      <3>3. read_fs(root_nodes[j], 0, DumpSize) = Part(argv[j].bytes, 0 + 1, 0 + DumpSize)
        <4>1. 0 \in Nat /\ DumpSize \in Nat /\ 0 + DumpSize < Word
          BY ConsoleAssumption, InitrdAssumption
        <4> QED BY <4>1, ReadIsPart DEF DiskInv
      <3>4. 0 + 1 = 1 /\ 0 + DumpSize = DumpSize
        BY ConsoleAssumption, InitrdAssumption
      <3>5. Dump(argv[e].name) =
              <<argv[e].name, Newline>> \o (Part(argv[e].bytes, 1, DumpSize) \o <<Newline>>)
        BY <3>1, <3>2, <3>3, <3>4 DEF Dump
      <3>6. Shown(argv[e]) =
              <<argv[e].name, Newline>> \o Part(argv[e].bytes, 1, DumpSize) \o <<Newline>>
        BY <2>2 DEF Shown
      <3>7. /\ <<argv[e].name, Newline>> \in Seq(Symbols) /\ <<Newline>> \in Seq(Symbols)
            /\ Part(argv[e].bytes, 1, DumpSize) \in Seq(Symbols)
        <4>1. argv[e] \in Files /\ argv[e].bytes \in Seq(Bytes) /\ argv[e].name \in Symbols
          BY FilesAreSequences DEF DiskInv, Symbols
        <4>2. DumpSize \in Nat
          BY ConsoleAssumption, InitrdAssumption
        <4>3. Part(argv[e].bytes, 1, DumpSize) \in Seq(Bytes)
          BY <4>1, <4>2, PartBegins
        <4>4. Bytes \subseteq Symbols
          BY DEF Symbols
        <4> QED BY <4>1, <4>3, <4>4, SomeSymbols
      <3> QED BY <3>5, <3>6, <3>7, ConcatAssociative
    <2> QED BY <2>1, <2>2
  <1> QED BY <1>1, <1>2

\* what is written when print_initrd comes to entry e
Upto(e) ==
  IF e = 0 THEN Modules(ModuleNames) ELSE Heading \o FlattenSeq(First(ShownFiles, e - 1))

LEMMA UptoGrows ==
  ASSUME DiskInv
  PROVE  /\ \A e \in 0 .. Len(argv) + 1 :
              Upto(e) \in Seq(Symbols) /\ Begins(Symbols, Upto(e), Listing)
         /\ Upto(1) = Upto(0) \o <<DirName, Newline, Newline>>
         /\ \A e \in 1 .. Len(argv) : Upto(e + 1) = Upto(e) \o Shown(argv[e])
         /\ Listing = Upto(Len(argv) + 1) \o <<Newline>>
  <1> DEFINE M    == Modules(ModuleNames)
             D    == <<DirName, Newline, Newline>>
             N    == <<Newline>>
             F(n) == FlattenSeq(First(ShownFiles, n))
             all  == FlattenSeq(ShownFiles)
  <1>1. /\ M \in Seq(Symbols) /\ D \in Seq(Symbols) /\ N \in Seq(Symbols)
        /\ Heading \in Seq(Symbols) /\ Heading = M \o D
        /\ Len(argv) \in Nat /\ Len(ShownFiles) = Len(argv) /\ ShownFiles \in Seq(Seq(Symbols))
        /\ Listing = Heading \o all \o N
    BY ListingType, SomeSymbols DEF Heading
  <1>2. all \in Seq(Symbols)
    BY <1>1, FlattenType
  <1>3. ASSUME NEW n \in 0 .. Len(argv)
        PROVE  /\ F(n) \in Seq(Symbols) /\ Begins(Symbols, F(n), all)
               /\ n < Len(argv) => F(n + 1) = F(n) \o ShownFiles[n + 1]
    <2>1. n \in 0 .. Len(ShownFiles)
      BY <1>1
    <2>2. /\ Begins(Symbols, F(n), all)
          /\ n < Len(ShownFiles) => F(n + 1) = F(n) \o ShownFiles[n + 1]
      BY <1>1, <2>1, FlattenBegins
    <2>3. F(n) \in Seq(Symbols)
      BY <2>2 DEF Begins
    <2> HIDE DEF F, all
    <2> QED BY <1>1, <2>2, <2>3
  <1>4. F(0) = <<>> /\ F(Len(argv)) = all
    BY <1>1, FirstProperties, FlattenEquations
  <1>5. ASSUME NEW e \in 1 .. Len(argv) + 1
        PROVE  Upto(e) = Heading \o F(e - 1) /\ e - 1 \in 0 .. Len(argv)
    <2>1. e # 0 /\ e - 1 \in 0 .. Len(argv)
      BY <1>1
    <2> QED BY <2>1 DEF Upto
  <1> HIDE DEF M, D, N, F, all
  <1>a. ASSUME NEW s \in Seq(Symbols), NEW t \in Seq(Symbols), NEW u \in Seq(Symbols)
        PROVE  Regroups(s, t, u)
    BY ConcatAssociative DEF Regroups
  <1>b. Heading \in Seq(Symbols) /\ M \in Seq(Symbols) /\ D \in Seq(Symbols) /\ N \in Seq(Symbols)
    BY <1>1
  <1>c. ASSUME NEW s \in Seq(Symbols), NEW t \in Seq(Symbols) PROVE s \o t \in Seq(Symbols)
    BY ConcatProperties
  <1>6. Upto(0) = M
    BY DEF Upto, M
  <1>7. ASSUME NEW e \in 0 .. Len(argv) + 1
        PROVE  Upto(e) \in Seq(Symbols) /\ Begins(Symbols, Upto(e), Listing)
    <2>1. CASE e = 0
      <3>1. Listing = M \o (D \o (all \o N)) /\ D \o (all \o N) \in Seq(Symbols)
        <4>1. all \o N \in Seq(Symbols) /\ D \o (all \o N) \in Seq(Symbols)
          <5>1. all \o N \in Seq(Symbols)
            BY <1>b, <1>2, <1>c, Zenon
          <5> QED BY <1>b, <1>c, <5>1, Zenon
        <4>2. (Heading \o all) \o N = Heading \o (all \o N)
          <5>1. Regroups(Heading, all, N)
            BY <1>a, <1>b, <1>2
          <5> QED BY <5>1 DEF Regroups
        <4>3. (M \o D) \o (all \o N) = M \o (D \o (all \o N))
          <5>1. Regroups(M, D, all \o N)
            BY <1>a, <1>b, <4>1
          <5> QED BY <5>1 DEF Regroups
        <4> QED BY <1>1, <4>1, <4>2, <4>3
      <3>2. Listing \in Seq(Symbols)
        BY <1>b, <1>c, <3>1, Zenon
      <3> QED BY <1>1, <1>6, <2>1, <3>1, <3>2 DEF Begins
    <2>2. CASE e # 0
      <3>1. e \in 1 .. Len(argv) + 1
        BY <1>1, <2>2
      <3>2. /\ Upto(e) = Heading \o F(e - 1) /\ F(e - 1) \in Seq(Symbols)
            /\ Begins(Symbols, F(e - 1), all)
        BY <1>3, <1>5, <3>1
      <3>3. PICK rest \in Seq(Symbols) : all = F(e - 1) \o rest
        BY <3>2 DEF Begins
      <3>4. Upto(e) \in Seq(Symbols) /\ rest \o N \in Seq(Symbols)
        <4>1. Heading \o F(e - 1) \in Seq(Symbols)
          BY <1>b, <1>c, <3>2, Zenon
        <4>2. rest \o N \in Seq(Symbols)
          BY <1>b, <1>c, <3>3, Zenon
        <4> QED BY <3>2, <4>1, <4>2
      <3>5. Listing = Upto(e) \o (rest \o N)
        <4>1. Heading \o all = Upto(e) \o rest
          <5>1. (Heading \o F(e - 1)) \o rest = Heading \o (F(e - 1) \o rest)
            <6>1. Regroups(Heading, F(e - 1), rest)
              BY <1>a, <1>b, <3>2, <3>3
            <6> QED BY <6>1 DEF Regroups
          <5> QED BY <3>2, <3>3, <5>1
        <4>2. (Upto(e) \o rest) \o N = Upto(e) \o (rest \o N)
          <5>1. Upto(e) \in Seq(Symbols) /\ rest \in Seq(Symbols)
            BY <3>3, <3>4
          <5>2. N \in Seq(Symbols)
            BY <1>b
          <5>3. Regroups(Upto(e), rest, N)
            BY <1>a, <5>1, <5>2
          <5> QED BY <5>3 DEF Regroups
        <4> QED BY <1>1, <4>1, <4>2
      <3>6. Listing \in Seq(Symbols)
        BY <1>c, <3>4, <3>5, Zenon
      <3> QED BY <3>4, <3>5, <3>6 DEF Begins
    <2> QED BY <2>1, <2>2
  <1>8. Upto(1) = Upto(0) \o D
    <2>1. Upto(1) = Heading \o <<>>
      <3>1. 1 \in 1 .. Len(argv) + 1 /\ 1 - 1 = 0
        BY <1>1
      <3> QED BY <1>4, <1>5, <3>1
    <2> QED BY <1>1, <1>6, <2>1, ConcatEmptySeq
  <1>9. ASSUME NEW e \in 1 .. Len(argv) PROVE Upto(e + 1) = Upto(e) \o Shown(argv[e])
    <2>1. /\ e \in 1 .. Len(argv) + 1 /\ e + 1 \in 1 .. Len(argv) + 1 /\ (e + 1) - 1 = e
          /\ e - 1 \in 0 .. Len(argv) /\ e - 1 < Len(argv) /\ (e - 1) + 1 = e
      BY <1>1
    <2>2. F(e) = F(e - 1) \o ShownFiles[e] /\ F(e - 1) \in Seq(Symbols)
      BY <1>3, <2>1
    <2>3. ShownFiles[e] = Shown(argv[e]) /\ ShownFiles[e] \in Seq(Symbols)
      <3>1. e \in DOMAIN argv
        BY FilesAreSequences DEF DiskInv
      <3>2. e \in 1 .. Len(ShownFiles)
        BY <1>1
      <3> QED BY <1>1, <3>1, <3>2, ElementOfSeq DEF ShownFiles
    <2>4. Upto(e) = Heading \o F(e - 1) /\ Upto(e + 1) = Heading \o F(e)
      BY <1>5, <2>1
    <2>5. Heading \o (F(e - 1) \o ShownFiles[e]) = (Heading \o F(e - 1)) \o ShownFiles[e]
      <3>1. F(e - 1) \in Seq(Symbols) /\ ShownFiles[e] \in Seq(Symbols)
        BY <2>2, <2>3
      <3>2. Regroups(Heading, F(e - 1), ShownFiles[e])
        BY <1>a, <1>b, <3>1
      <3> QED BY <3>2 DEF Regroups
    <2> QED BY <2>2, <2>3, <2>4, <2>5
  <1>10. Listing = Upto(Len(argv) + 1) \o N
    <2>1. Len(argv) + 1 \in 1 .. Len(argv) + 1 /\ (Len(argv) + 1) - 1 = Len(argv)
      BY <1>1
    <2>2. Upto(Len(argv) + 1) = Heading \o all
      BY <1>4, <1>5, <2>1
    <2> QED BY <1>1, <2>2
  <1> QED BY <1>7, <1>8, <1>9, <1>10 DEF D, N

-----------------------------------------------------------------------------
(* The history is what has been written, as far as it goes.                *)

Printed == IF doing = "initrd" THEN Upto(entry) ELSE IF doing = "done" THEN Listing ELSE <<>>

\* t is still to be written of p, w has been
Accounts(w, t, p) == w \in Seq(Symbols) /\ w \o t = p /\ history = Part(w, 1, HIST_LENGTH)

HistoryInv ==
  /\ DiskInv
  /\ entry \in 0 .. Len(argv) + 1
  /\ doing \notin {"initrd", "done"} => entry = 0 /\ text = <<>>
  /\ doing = "done" => entry = Len(argv) + 1
  /\ text \in Seq(Symbols)
  /\ \E w : Accounts(w, text, Printed)

LEMMA OneMore ==
  ASSUME NEW S, NEW w \in Seq(S), NEW c \in S, history = Part(w, 1, HIST_LENGTH)
  PROVE  Stored(c) = Part(Append(w, c), 1, HIST_LENGTH)
  <1> DEFINE H == HIST_LENGTH
             v == Append(w, c)
  <1>1. H \in Nat /\ Len(w) \in Nat
    BY ScreenAssumption
  <1>2. v \in Seq(S) /\ Len(v) = Len(w) + 1 /\ \A i \in 1 .. Len(w) : v[i] = w[i]
    OBVIOUS
  <1> HIDE DEF H
  <1>3. /\ Part(w, 1, H) = IF Len(w) <= H THEN w ELSE SubSeq(w, 1, H)
        /\ Part(v, 1, H) = IF Len(v) <= H THEN v ELSE SubSeq(v, 1, H)
    <2> HIDE DEF v
    <2> QED BY <1>1, <1>2, PartBegins
  <1>4. history = Part(w, 1, H)
    BY DEF H
  <1>5. CASE Len(w) < H
    <2>1. history = w /\ Part(v, 1, H) = v
      BY <1>1, <1>2, <1>3, <1>4, <1>5
    <2> QED BY <1>1, <1>5, <2>1 DEF Stored, H
  <1>6. CASE Len(w) >= H
    <2>1. SubSeq(v, 1, H) = SubSeq(w, 1, H) /\ Len(SubSeq(w, 1, H)) = H
      BY <1>1, <1>2, <1>6
    <2>2. Len(w) = H => SubSeq(w, 1, H) = w
      OBVIOUS
    <2>3. history = SubSeq(w, 1, H)
      BY <1>1, <1>3, <1>4, <1>6, <2>2
    <2>4. Part(v, 1, H) = history
      <3> HIDE DEF v
      <3> QED BY <1>1, <1>2, <1>3, <1>6, <2>1, <2>3
    <2>5. Stored(c) = history
      BY <1>1, <2>1, <2>3 DEF Stored, H
    <2> QED BY <2>4, <2>5 DEF H
  <1> QED BY <1>1, <1>5, <1>6 DEF H

LEMMA HistoryInitInv == ConsoleInit => HistoryInv
  <1> SUFFICES ASSUME ConsoleInit PROVE HistoryInv
    OBVIOUS
  <1>1. DiskInv
    BY DiskInitInv
  <1>2. entry = 0 /\ text = <<>> /\ doing = "boot" /\ history = <<>>
    BY DEF ConsoleInit, ScreenInit
  <1>3. 0 \in 0 .. Len(argv) + 1
    BY <1>1, ListingType
  <1>4. Accounts(<<>>, text, Printed)
    <2>1. Part(<<>>, 1, HIST_LENGTH) = <<>>
      <3>1. <<>> \in Seq(Symbols) /\ Len(<<>>) = 0 /\ HIST_LENGTH \in Nat /\ 0 <= HIST_LENGTH
        BY ScreenAssumption
      <3> QED BY <3>1, PartBegins
    <2> QED BY <1>2, <2>1, SomeSymbols DEF Accounts, Printed
  <1> QED BY <1>1, <1>2, <1>3, <1>4, SomeSymbols DEF HistoryInv

LEMMA NothingLeft ==
  ASSUME NEW w, NEW p, Accounts(w, <<>>, p)
  PROVE  w = p
  BY ConcatEmptySeq DEF Accounts

LEMMA EmptyRest ==
  ASSUME NEW w \in Seq(Symbols), NEW t \in Seq(Symbols)
  PROVE  w \o <<>> = w /\ <<>> \o t = t
  BY ConcatEmptySeq

(* A text that is printed when nothing is left follows what was printed.   *)
LEMMA NextText ==
  ASSUME HistoryInv, text = <<>>, history' = history, text' \in Seq(Symbols),
         Printed' = Printed \o text'
  PROVE  (\E w : Accounts(w, text, Printed))'
  <1>1. PICK w : Accounts(w, <<>>, Printed)
    BY DEF HistoryInv
  <1>2. w = Printed /\ w \in Seq(Symbols) /\ history = Part(w, 1, HIST_LENGTH)
    BY <1>1, NothingLeft DEF Accounts
  <1>3. w \o text' = Printed'
    BY <1>2
  <1>4. Accounts(w, text, Printed)'
    BY <1>2, <1>3 DEF Accounts, Part
  <1> QED BY <1>4

LEMMA ListingKept ==
  ASSUME UNCHANGED <<mbt, argv>>
  PROVE  Listing' = Listing /\ \A e : Upto(e)' = Upto(e)
  BY DEF Listing, Upto, Modules, ModuleNames, Heading, ShownFiles, Shown, Part, First, mods_count

LEMMA HistoryStepInv == HistoryInv /\ [ConsoleNext]_consoleVars => HistoryInv'
  <1> SUFFICES ASSUME HistoryInv, [ConsoleNext]_consoleVars PROVE HistoryInv'
    OBVIOUS
  <1>1. DiskInv /\ DiskInv'
    BY DiskStepInv DEF HistoryInv
  <1>2. argv' = argv /\ mbt' = mbt
    BY DEF ConsoleNext, Boot, Mount, PrintModules, PrintEntry, PrintEnd, WriteChar, Repaint,
           MousePacket, load_modules, InitrdMount, initrdVars, multibootVars, consoleVars
  <1>3. Listing' = Listing /\ \A e : Upto(e)' = Upto(e)
    BY <1>2, ListingKept
  <1>4. Len(argv) \in Nat /\ entry \in 0 .. Len(argv) + 1
    BY <1>1, ListingType DEF HistoryInv
  <1>5. CASE Boot \/ Mount
    <2>1. /\ doing \notin {"initrd", "done"} /\ doing' \notin {"initrd", "done"}
          /\ UNCHANGED <<entry, text, history>>
      BY <1>5 DEF Boot, Mount, screenVars
    <2>2. Printed' = Printed /\ Printed = <<>>
      BY <2>1 DEF Printed
    <2>3. (\E w : Accounts(w, text, Printed))'
      BY <2>1, <2>2 DEF HistoryInv, Accounts, Part
    <2> QED BY <1>1, <1>2, <2>1, <2>3 DEF HistoryInv
  <1>6. CASE PrintModules
    <2>1. /\ doing = "modules" /\ doing' = "initrd" /\ UNCHANGED <<entry, history>>
          /\ text' = Modules([i \in 1 .. mods_count |-> Entry(i).string])
          /\ text = <<>> /\ entry = 0
      BY <1>6 DEF PrintModules, screenVars, HistoryInv
    <2>2. [i \in 1 .. mods_count |-> Entry(i).string] = ModuleNames
      <3>1. ASSUME NEW i \in 1 .. mods_count
            PROVE  Entry(i).string = IF i <= MAX_MODULES THEN mbt[i].string ELSE "unknown"
        <4>1. mbt[i] \in [string : Strings, mod_start : Nat]
          BY <1>1, ModulesAreSequences DEF DiskInv
        <4>2. i \in DOMAIN mods <=> i <= MAX_MODULES
          BY <1>1, <2>1, ModulesAreSequences DEF DiskInv, ModsAreCopied
        <4>3. i \in DOMAIN mods => mods[i].string = mbt[i].string
          BY <1>1, <2>1, <4>1 DEF DiskInv, ModsAreCopied
        <4> QED BY <4>2, <4>3 DEF Entry, Beyond
      <3> QED BY <3>1 DEF ModuleNames
    <2>3. text' = Upto(0) /\ text' \in Seq(Symbols)
      BY <1>1, <2>1, <2>2, ListingType DEF Upto
    <2>4. Printed = <<>> /\ Printed' = Upto(0)
      BY <1>3, <2>1 DEF Printed
    <2>5. Printed' = Printed \o text'
      BY <2>3, <2>4, EmptyRest
    <2>6. (\E w : Accounts(w, text, Printed))'
      BY <2>1, <2>3, <2>5, NextText
    <2> QED BY <1>1, <1>2, <1>4, <2>1, <2>3, <2>6 DEF HistoryInv
  <1>7. CASE PrintEntry
    <2>1. /\ doing = "initrd" /\ doing' = doing /\ text = <<>> /\ history' = history
          /\ readdir_fs(initrd_root, entry) # <<>>
          /\ text' = Dump(readdir_fs(initrd_root, entry)[1])
          /\ entry' = entry + 1
      BY <1>7 DEF PrintEntry, screenVars
    <2>2. Mounted /\ DiskIsThere
      BY <1>1, <2>1 DEF DiskInv, Mounted
    <2>3. readdir_fs(initrd_root, entry) = initrd_readdir(initrd_root, entry)
      BY DEF readdir_fs, initrd_root, Directory
    <2>4. CASE entry = 0
      <3>1. text' = <<DirName, Newline, Newline>>
        BY <1>1, <2>1, <2>2, <2>3, <2>4, DumpIsShown DEF initrd_readdir
      <3>2. Printed' = Upto(1) /\ Printed = Upto(0)
        BY <1>3, <2>1, <2>4 DEF Printed
      <3>3. Printed' = Printed \o text' /\ text' \in Seq(Symbols)
        BY <1>1, <3>1, <3>2, UptoGrows, SomeSymbols
      <3>4. (\E w : Accounts(w, text, Printed))'
        BY <2>1, <3>3, NextText
      <3>5. entry' \in 0 .. Len(argv) + 1
        BY <1>4, <2>1, <2>4
      <3> QED BY <1>1, <1>2, <2>1, <3>3, <3>4, <3>5 DEF HistoryInv
    <2>5. CASE entry # 0
      <3>1. entry \in 1 .. Len(argv) /\ DOMAIN argv = 1 .. Len(argv) /\ Len(root_nodes) = Len(argv)
        <4>1. DOMAIN argv = 1 .. Len(argv) /\ Len(root_nodes) = Len(argv)
          BY <1>1, <1>4, <2>2, FilesAreSequences DEF DiskInv, DiskIsThere
        <4> QED BY <1>4, <2>1, <2>3, <2>5, <4>1 DEF initrd_readdir
      <3>2. text' = Dump(argv[entry].name)
        <4>1. root_nodes[entry].name = argv[entry].name
          BY <2>2, <3>1 DEF DiskIsThere, FileNode, Header
        <4> QED BY <2>1, <2>3, <2>5, <3>1, <4>1 DEF initrd_readdir
      <3>3. text' = Shown(argv[entry])
        BY <1>1, <2>2, <3>1, <3>2, DumpIsShown
      <3>4. text' \in Seq(Symbols)
        <4>1. argv[entry] \in Files
          BY <1>1, <3>1, FilesAreSequences DEF DiskInv
        <4> QED BY <3>3, <4>1, ShownType
      <3>5. Printed' = Upto(entry + 1) /\ Printed = Upto(entry)
        BY <1>3, <2>1 DEF Printed
      <3>6. Printed' = Printed \o text'
        BY <1>1, <3>1, <3>3, <3>5, UptoGrows
      <3>7. (\E w : Accounts(w, text, Printed))'
        BY <2>1, <3>4, <3>6, NextText
      <3>8. entry' \in 0 .. Len(argv) + 1
        BY <1>4, <2>1, <3>1
      <3> QED BY <1>1, <1>2, <2>1, <3>4, <3>7, <3>8 DEF HistoryInv
    <2> QED BY <2>4, <2>5
  <1>8. CASE PrintEnd
    <2>1. /\ doing = "initrd" /\ doing' = "done" /\ text = <<>>
          /\ readdir_fs(initrd_root, entry) = <<>>
          /\ text' = <<Newline>> /\ UNCHANGED <<entry, history>>
      BY <1>8 DEF PrintEnd, screenVars
    <2>2. entry = Len(argv) + 1
      <3>1. DiskIsThere
        BY <1>1, <2>1 DEF DiskInv, Mounted
      <3>2. Len(root_nodes) = Len(argv)
        BY <1>1, <1>4, <3>1, FilesAreSequences DEF DiskInv, DiskIsThere
      <3>3. initrd_readdir(initrd_root, entry) = <<>>
        BY <2>1 DEF readdir_fs, initrd_root, Directory
      <3>4. ~(entry = 0) /\ entry \notin 1 .. Len(argv)
        BY <3>2, <3>3 DEF initrd_readdir
      <3> QED BY <1>4, <3>4
    <2>3. Printed = Upto(Len(argv) + 1) /\ Printed' = Listing
      BY <1>3, <2>1, <2>2 DEF Printed
    <2>4. Printed' = Printed \o text' /\ text' \in Seq(Symbols)
      BY <1>1, <2>1, <2>3, UptoGrows, SomeSymbols
    <2>5. (\E w : Accounts(w, text, Printed))'
      BY <2>1, <2>4, NextText
    <2> QED BY <1>1, <1>2, <1>4, <2>1, <2>2, <2>4, <2>5 DEF HistoryInv
  <1>9. CASE WriteChar
    <2>1. /\ text # <<>> /\ history' = Stored(Head(text)) /\ text' = Tail(text)
          /\ UNCHANGED <<doing, entry>>
      BY <1>9 DEF WriteChar, tty_write_char
    <2>2. text \in Seq(Symbols) /\ Head(text) \in Symbols /\ Tail(text) \in Seq(Symbols)
      BY <2>1 DEF HistoryInv
    <2>3. PICK w : Accounts(w, text, Printed)
      BY DEF HistoryInv
    <2>4. Printed' = Printed
      BY <1>3, <2>1 DEF Printed
    <2>a. PICK v : v = Append(w, Head(text))
      OBVIOUS
    <2>5. v \in Seq(Symbols) /\ v \o Tail(text) = w \o text
      <3>1. w \in Seq(Symbols)
        BY <2>3 DEF Accounts
      <3>2. v \in Seq(Symbols) /\ v = w \o <<Head(text)>>
        BY <2>2, <2>a, <3>1, AppendIsConcat
      <3>3. text = <<Head(text)>> \o Tail(text) /\ <<Head(text)>> \in Seq(Symbols)
        BY <2>1, <2>2
      <3>4. (w \o <<Head(text)>>) \o Tail(text) = w \o (<<Head(text)>> \o Tail(text))
        BY <2>2, <3>1, <3>3, ConcatAssociative
      <3> QED BY <3>2, <3>3, <3>4
    <2>6. history' = Part(v, 1, HIST_LENGTH)
      BY <2>1, <2>2, <2>3, <2>a, OneMore DEF Accounts
    <2>7. Accounts(v, text, Printed)'
      BY <2>1, <2>3, <2>4, <2>5, <2>6 DEF Accounts, Part
    <2>8. (\E x : Accounts(x, text, Printed))'
      BY <2>7
    <2>9. doing \in {"initrd", "done"}
      BY <2>1 DEF HistoryInv
    <2> QED BY <1>1, <1>2, <1>4, <2>1, <2>2, <2>8, <2>9 DEF HistoryInv
  <1>10. CASE Repaint \/ MousePacket \/ UNCHANGED consoleVars
    <2>1. UNCHANGED <<doing, entry, text, history>>
      BY <1>10 DEF Repaint, MousePacket, consoleVars, screenVars, vesa_update_graphics,
                   vesa_mouse_packet
    <2>2. Printed' = Printed
      BY <1>3, <2>1 DEF Printed
    <2>3. (\E w : Accounts(w, text, Printed))'
      BY <2>1, <2>2 DEF HistoryInv, Accounts, Part
    <2> QED BY <1>1, <1>2, <1>4, <2>1, <2>3 DEF HistoryInv
  <1> QED BY <1>5, <1>6, <1>7, <1>8, <1>9, <1>10 DEF ConsoleNext

LEMMA HistoryInvariant == ConsoleSpec => []HistoryInv
  BY HistoryInitInv, HistoryStepInv, PTL DEF ConsoleSpec

(* What has been written begins the listing.                               *)
LEMMA PartsBegin ==
  ASSUME NEW S, NEW a, NEW b, Begins(S, a, b), NEW n \in Nat
  PROVE  IsPrefix(Part(a, 1, n), Part(b, 1, n))
  <1>1. PICK rest \in Seq(S) : b = a \o rest
    BY DEF Begins
  <1>2. a \in Seq(S) /\ b \in Seq(S) /\ Len(a) \in Nat /\ Len(rest) \in Nat
    BY DEF Begins
  <1>3. Len(b) = Len(a) + Len(rest) /\ \A i \in 1 .. Len(a) : b[i] = a[i]
    BY <1>1, <1>2
  <1>4. Part(a, 1, n) = IF Len(a) <= n THEN a ELSE SubSeq(a, 1, n)
    BY <1>2, PartBegins
  <1>5. Part(b, 1, n) = IF Len(b) <= n THEN b ELSE SubSeq(b, 1, n)
    BY <1>2, PartBegins
  <1>6. Part(a, 1, n) \in Seq(S) /\ Part(b, 1, n) \in Seq(S)
    BY <1>2, PartBegins
  <1>7. Len(Part(a, 1, n)) <= Len(Part(b, 1, n)) /\ Len(Part(a, 1, n)) <= Len(a)
    <2>1. Len(a) > n => Len(SubSeq(a, 1, n)) = n
      BY <1>2
    <2>2. Len(b) > n => Len(SubSeq(b, 1, n)) = n
      BY <1>2
    <2> QED BY <1>2, <1>3, <1>4, <1>5, <2>1, <2>2
  <1>8. \A i \in 1 .. Len(Part(a, 1, n)) : Part(a, 1, n)[i] = a[i] /\ Part(b, 1, n)[i] = b[i]
    <2>1. \A i \in 1 .. Len(Part(a, 1, n)) : Part(a, 1, n)[i] = a[i]
      BY <1>2, <1>4
    <2>2. \A i \in 1 .. Len(Part(b, 1, n)) : Part(b, 1, n)[i] = b[i]
      BY <1>2, <1>5
    <2> QED BY <1>6, <1>7, <2>1, <2>2
  <1> DEFINE p == Part(a, 1, n)
             q == Part(b, 1, n)
  <1> HIDE DEF p, q
  <1>9. /\ p \in Seq(S) /\ q \in Seq(S) /\ Len(p) <= Len(q) /\ Len(p) <= Len(a)
        /\ \A i \in 1 .. Len(p) : p[i] = q[i]
    <2>1. \A i \in 1 .. Len(p) : i \in 1 .. Len(a)
      BY <1>2, <1>6, <1>7 DEF p
    <2> QED BY <1>3, <1>6, <1>7, <1>8, <2>1 DEF p, q
  <1>10. SubSeq(p, 1, Len(p)) = SubSeq(q, 1, Len(p))
    <2>1. Len(p) \in Nat /\ Len(q) \in Nat
      BY <1>9
    <2> QED BY <1>9, <2>1
  <1>11. IsPrefix(p, q)
    BY <1>9, <1>10 DEF IsPrefix
  <1> QED BY <1>11 DEF p, q

(* Whatever modules and files there are, and wherever the timer's and the  *)
(* mouse's interrupts fall, what kmain prints is the listing of them, up   *)
(* to the end of the history (kernel.c:40-41, tty.c:19-22).                *)
THEOREM ConsoleKeepsTheListing == ConsoleSpec => []HistoryIsListing
  <1>1. HistoryInv => HistoryIsListing
    <2> SUFFICES ASSUME HistoryInv PROVE HistoryIsListing
      OBVIOUS
    <2>1. PICK w : Accounts(w, text, Printed)
      BY DEF HistoryInv
    <2>2. DiskInv /\ HIST_LENGTH \in Nat /\ Listing \in Seq(Symbols) /\ text \in Seq(Symbols)
      BY ListingType, ScreenAssumption DEF HistoryInv
    <2>3. Begins(Symbols, Printed, Listing)
      <3>1. entry \in 0 .. Len(argv) + 1
        BY DEF HistoryInv
      <3>2. Begins(Symbols, Upto(entry), Listing)
        BY <2>2, <3>1, UptoGrows
      <3>3. Begins(Symbols, Listing, Listing)
        BY <2>2, BeginsItself
      <3>4. Begins(Symbols, <<>>, Listing)
        BY <2>2, SomeSymbols, EmptyRest DEF Begins
      <3> QED BY <3>2, <3>3, <3>4 DEF Printed
    <2>4. Begins(Symbols, w, Listing)
      <3>1. PICK rest \in Seq(Symbols) : Listing = Printed \o rest
        BY <2>3 DEF Begins
      <3>2. w \in Seq(Symbols) /\ w \o text = Printed
        BY <2>1 DEF Accounts
      <3>3. (w \o text) \o rest = w \o (text \o rest) /\ text \o rest \in Seq(Symbols)
        <4>1. rest \in Seq(Symbols) /\ w \in Seq(Symbols) /\ text \in Seq(Symbols)
          BY <2>2, <3>2
        <4> QED BY <4>1, ConcatAssociative, ConcatProperties
      <3> QED BY <2>2, <3>1, <3>2, <3>3 DEF Begins
    <2>5. history = Part(w, 1, HIST_LENGTH)
      BY <2>1 DEF Accounts
    <2>6. IsPrefix(history, Part(Listing, 1, HIST_LENGTH))
      BY <2>2, <2>4, <2>5, PartsBegin
    <2>7. doing = "done" /\ text = <<>> => history = Part(Listing, 1, HIST_LENGTH)
      <3> SUFFICES ASSUME doing = "done", text = <<>> PROVE history = Part(Listing, 1, HIST_LENGTH)
        OBVIOUS
      <3>1. w = Printed /\ Printed = Listing
        BY <2>1, NothingLeft DEF Printed
      <3> QED BY <2>5, <3>1
    <2> QED BY <2>6, <2>7 DEF HistoryIsListing
  <1> QED BY <1>1, HistoryInvariant, PTL

-----------------------------------------------------------------------------
(* The greatest of some numbers.                                           *)

LEMMA MaxIsGreatest ==
  ASSUME NEW b \in Nat, NEW S, S \subseteq 0 .. b, S # {}
  PROVE  Max(S) \in S /\ \A y \in S : Max(S) >= y
  <1> DEFINE T == {b - n : n \in S}
  <1>1. T \subseteq Nat /\ T # {}
    <2>1. \A n \in S : b - n \in Nat
      OBVIOUS
    <2> QED BY <2>1
  <1>2. Min(T) \in T /\ \A y \in T : Min(T) <= y
    BY <1>1, MinIsLeast
  <1>3. PICK x \in S : Min(T) = b - x
    BY <1>2
  <1>4. \A y \in S : b - y \in T
    OBVIOUS
  <1>5. \A y \in S : b - x <= b - y
    BY <1>2, <1>3, <1>4
  <1>6. \A y \in S : y \in Nat /\ x \in Nat
    OBVIOUS
  <1>7. \A y \in S : x >= y
    BY <1>5, <1>6
  <1> QED BY <1>7 DEF Max

-----------------------------------------------------------------------------
(* tty_draw, character by character.                                       *)

Draws(f, s, n) == f = [i \in 0 .. n |-> IF i = 0 THEN PenAtStart ELSE DrawNext(f[i - 1], s[i])]

LEMMA DrawingExists ==
  ASSUME NEW s, NEW n \in Nat
  PROVE  \E f : Draws(f, s, n)
  <1> DEFINE S == {k \in Nat : \E f : Draws(f, s, k)}
  <1>1. 0 \in S
    <2> DEFINE f == [i \in 0 .. 0 |-> PenAtStart]
    <2>1. Draws(f, s, 0)
      BY DEF Draws
    <2> QED BY <2>1
  <1>2. ASSUME NEW k \in Nat, k \in S PROVE k + 1 \in S
    <2>1. PICK f : Draws(f, s, k)
      BY <1>2
    <2> DEFINE new == DrawNext(f[k], s[k + 1])
               g == [i \in 0 .. k + 1 |-> IF i = k + 1 THEN new ELSE f[i]]
    <2>2. ASSUME NEW i \in 0 .. k + 1
          PROVE  g[i] = IF i = 0 THEN PenAtStart ELSE DrawNext(g[i - 1], s[i])
      <3>1. CASE i = k + 1
        <4>1. g[i] = new /\ g[i - 1] = f[k] /\ i # 0
          BY <3>1
        <4> QED BY <3>1, <4>1
      <3>2. CASE i # k + 1
        <4>1. i \in 0 .. k /\ g[i] = f[i] /\ (i # 0 => g[i - 1] = f[i - 1])
          BY <3>2
        <4>2. f[i] = IF i = 0 THEN PenAtStart ELSE DrawNext(f[i - 1], s[i])
          BY <2>1, <4>1 DEF Draws
        <4> HIDE DEF g
        <4> QED BY <4>1, <4>2
      <3> QED BY <3>1, <3>2
    <2>3. Draws(g, s, k + 1)
      BY <2>2 DEF Draws
    <2> QED BY <2>3
  <1> HIDE DEF S
  <1>3. Nat \subseteq S
    BY <1>1, <1>2, Induction
  <1> QED BY <1>3 DEF S

LEMMA PenSteps ==
  ASSUME NEW s, Len(s) \in Nat
  PROVE  /\ Pen(s)[0] = PenAtStart
         /\ \A n \in 1 .. Len(s) : Pen(s)[n] = DrawNext(Pen(s)[n - 1], s[n])
  <1> DEFINE f == CHOOSE g : g = [i \in 0 .. Len(s) |->
                                    IF i = 0 THEN PenAtStart ELSE DrawNext(g[i - 1], s[i])]
  <1>1. Pen(s) = f
    BY DEF Pen
  <1>2. \E g : g = [i \in 0 .. Len(s) |-> IF i = 0 THEN PenAtStart ELSE DrawNext(g[i - 1], s[i])]
    <2>1. \E g : Draws(g, s, Len(s))
      BY DrawingExists
    <2> QED BY <2>1 DEF Draws
  <1>3. f = [i \in 0 .. Len(s) |-> IF i = 0 THEN PenAtStart ELSE DrawNext(f[i - 1], s[i])]
    BY <1>2
  <1> HIDE DEF f
  <1>4. f[0] = PenAtStart
    BY <1>3
  <1>5. ASSUME NEW n \in 1 .. Len(s) PROVE f[n] = DrawNext(f[n - 1], s[n])
    <2>1. n \in 0 .. Len(s) /\ n # 0
      OBVIOUS
    <2> QED BY <1>3, <2>1
  <1> QED BY <1>1, <1>4, <1>5

LEMMA ScreenSizes ==
  /\ screen_width \in Nat /\ screen_height \in Nat /\ screen_width >= 16
  /\ Cols \in Nat /\ Cols >= 2 /\ 8 * Cols <= screen_width
  /\ Rows \in Nat /\ 12 * Rows <= screen_height
  <1>1. screen_width \in Nat /\ screen_height \in Nat /\ screen_width >= 16
    BY ScreenAssumption DEF char_width
  <1> QED BY <1>1 DEF Cols, Rows, char_width, char_height

(* A character ends in the frame, or in the first cell below it.           *)
LEMMA CharEnds ==
  ASSUME NEW x \in 0 .. Cols - 1, NEW y \in Nat, y < Rows \/ x = 0
  PROVE  CharEnd(x, y) \in Nat /\ CharEnd(x, y) <= TextLimit
  <1> DEFINE W    == screen_width
             H    == screen_height
             q    == pixel_width
             line == bytes_per_line
             px   == {p \in x * 8 .. (x + 1) * 8 - 1 : p <= W}
             py   == {p \in y * 12 .. (y + 1) * 12 - 1 : p <= H}
  <1>1. /\ W \in Nat /\ H \in Nat /\ W >= 16
        /\ x \in Nat /\ 8 * (x + 1) <= W /\ (y < Rows => 12 * (y + 1) <= H)
    BY ScreenSizes
  <1>2. CharEnd(x, y) = IF px = {} \/ py = {} THEN 0 ELSE Max(px) * q + Max(py) * line + 4
    BY DEF CharEnd, ColumnAllowed, LineAllowed, char_width, char_height, PixelBytes
  <1>3. /\ q \in Nat /\ line \in Nat /\ H * line \in Nat /\ W * q <= line
        /\ TextLimit \in Nat /\ TextLimit >= H * line + 7 * q + 4
    BY FrameSizes DEF FrameEnd
  <1>5. CASE px # {} /\ py # {}
    <2>1. px \subseteq 0 .. (x + 1) * 8 - 1 /\ (x + 1) * 8 - 1 \in Nat
      BY <1>1
    <2>2. py \subseteq 0 .. H /\ py \subseteq 0 .. (y + 1) * 12 - 1 /\ (y + 1) * 12 - 1 \in Nat
      BY <1>1
    <2> DEFINE a == Max(px)
               b == Max(py)
    <2>3. a \in px /\ b \in py
      BY <1>1, <1>5, <2>1, <2>2, MaxIsGreatest
    <2>4. /\ a \in Nat /\ b \in Nat /\ a <= (x + 1) * 8 - 1 /\ b <= H
          /\ (y < Rows => b <= H - 1)
      BY <1>1, <2>3
    <2>5. CharEnd(x, y) = a * q + b * line + 4
      BY <1>2, <1>5
    <2> HIDE DEF a, b, line, W, H, q
    <2>6. b * line \in Nat /\ a * q \in Nat
      BY <1>3, <2>4
    <2>7. PICK d \in Nat : H = b + d /\ (y < Rows => d >= 1)
      <3>1. H - b \in Nat /\ H = b + (H - b) /\ (y < Rows => H - b >= 1)
        BY <1>1, <2>4
      <3> QED BY <3>1
    <2>8. H * line = b * line + d * line /\ d * line \in Nat /\ (d >= 1 => d * line >= line)
      <3>1. H * line = b * line + d * line /\ d * line \in Nat
        BY <1>3, <2>4, <2>7
      <3>2. ASSUME d >= 1 PROVE d * line >= line
        <4>1. d - 1 \in Nat /\ d = (d - 1) + 1
          BY <3>2
        <4>2. ((d - 1) + 1) * line = (d - 1) * line + line /\ (d - 1) * line \in Nat
          BY <1>3, <4>1
        <4> QED BY <1>3, <4>1, <4>2
      <3> QED BY <3>1, <3>2
    <2>9. CASE y < Rows
      <3>1. a * q <= line
        <4>1. PICK e \in Nat : W = a + e
          <5>1. W - a \in Nat /\ W = a + (W - a)
            BY <1>1, <2>4
          <5> QED BY <5>1
        <4>2. W * q = a * q + e * q /\ e * q \in Nat
          BY <1>3, <2>4, <4>1
        <4> QED BY <1>3, <2>6, <4>2
      <3>2. a * q + b * line <= H * line
        BY <1>3, <2>6, <2>7, <2>8, <2>9, <3>1
      <3> QED BY <1>3, <2>5, <2>6, <3>2
    <2>10. CASE x = 0
      <3>1. a * q <= 7 * q
        <4>1. a \in 0 .. 7
          BY <2>4, <2>10
        <4>2. PICK e \in Nat : 7 = a + e
          <5>1. 7 - a \in Nat /\ 7 = a + (7 - a)
            BY <4>1
          <5> QED BY <5>1
        <4>3. 7 * q = a * q + e * q /\ e * q \in Nat
          BY <1>3, <2>4, <4>2
        <4> QED BY <1>3, <2>6, <4>3
      <3>2. a * q + b * line + 4 <= H * line + 7 * q + 4
        BY <1>3, <2>6, <2>8, <3>1
      <3> QED BY <1>3, <2>5, <2>6, <3>2
    <2> QED BY <2>9, <2>10
  <1>6. CASE px = {} \/ py = {}
    BY <1>2, <1>3, <1>6
  <1> QED BY <1>5, <1>6

(* Clearing ends in the frame, but for pixels cleared as four bytes.       *)
LEMMA ClearEnds == ClearEnd \in Nat /\ ClearEnd <= TextLimit
  <1> DEFINE W    == screen_width
             H    == screen_height
             q    == pixel_width
             line == bytes_per_line
  <1>1. /\ W \in Nat /\ H \in Nat /\ H >= 12
    BY ScreenAssumption DEF char_height
  <1>2. /\ q \in Nat /\ line \in Nat /\ H * line \in Nat /\ W * q <= line
        /\ TextLimit \in Nat /\ TextLimit >= H * line + W * (4 - q)
    BY FrameSizes DEF FrameEnd
  <1>3. ClearEnd = (H - 1) * line + W * 4
    BY DEF ClearEnd, PixelBytes
  <1> HIDE DEF W, H, q, line
  <1>4. (H - 1) * line \in Nat /\ (H - 1) * line + line = H * line
    <2>1. H - 1 \in Nat /\ H = (H - 1) + 1
      BY <1>1
    <2>2. ((H - 1) + 1) * line = (H - 1) * line + line /\ (H - 1) * line \in Nat
      BY <1>2, <2>1
    <2> QED BY <2>1, <2>2
  <1>5. W * (4 - q) = W * 4 - W * q /\ W * 4 \in Nat /\ W * q \in Nat
    BY <1>1, <1>2
  <1>6. (H - 1) * line + W * 4 \in Nat
    BY <1>4, <1>5
  <1>7. (H - 1) * line + W * 4 <= H * line + (W * 4 - W * q)
    BY <1>2, <1>4, <1>5
  <1> QED BY <1>2, <1>3, <1>5, <1>6, <1>7

\* the pen is on the screen, or behind a newline at the start of a line below it
PenStands(pen) ==
  /\ DOMAIN pen = {"x", "y", "stop", "cells", "text"}
  /\ pen.x \in 0 .. Cols - 1 /\ pen.y \in Nat
  /\ ~pen.stop => pen.y < Rows \/ pen.x = 0
  /\ DOMAIN pen.cells \subseteq Nat \X Nat
  /\ pen.text \in Nat /\ pen.text <= TextLimit

LEMMA DrawNextStands ==
  ASSUME NEW pen, PenStands(pen), NEW c
  PROVE  PenStands(DrawNext(pen, c))
  <1>1. CASE pen.stop
    BY <1>1 DEF DrawNext
  <1>2. CASE ~pen.stop /\ c = Newline
    <2>1. DrawNext(pen, c) = [pen EXCEPT !.x = 0, !.y = @ + 1]
      BY <1>2 DEF DrawNext
    <2>2. 0 \in 0 .. Cols - 1
      BY ScreenSizes
    <2> QED BY <2>1, <2>2 DEF PenStands
  <1>3. CASE ~pen.stop /\ c # Newline
    <2> DEFINE x == IF Wraps(pen.x) THEN 0 ELSE pen.x + 1
               y == IF Wraps(pen.x) THEN pen.y + 1 ELSE pen.y
               cells == Covered(pen.cells, pen.x, pen.y, c)
               end == Max({pen.text, CharEnd(pen.x, pen.y)})
    <2>1. DrawNext(pen, c) = [x |-> x, y |-> y, stop |-> y >= Rows, cells |-> cells, text |-> end]
      BY <1>3 DEF DrawNext
    <2>2. x \in 0 .. Cols - 1 /\ y \in Nat /\ (~(y >= Rows) => y < Rows)
      BY ScreenSizes DEF PenStands, Wraps
    <2>3. DOMAIN cells \subseteq Nat \X Nat
      BY ScreenSizes DEF PenStands, Covered
    <2>4. /\ CharEnd(pen.x, pen.y) \in Nat
          /\ CharEnd(pen.x, pen.y) <= TextLimit
      BY <1>3, CharEnds DEF PenStands
    <2>5. end \in Nat /\ end <= TextLimit
      BY <2>4, MaxOfTwo DEF PenStands
    <2> HIDE DEF x, y, cells, end
    <2> DEFINE new == [x |-> x, y |-> y, stop |-> y >= Rows, cells |-> cells, text |-> end]
    <2>6. /\ DOMAIN new = {"x", "y", "stop", "cells", "text"}
          /\ new.x = x /\ new.y = y /\ new.stop = (y >= Rows)
          /\ new.cells = cells /\ new.text = end
      OBVIOUS
    <2> HIDE DEF new
    <2>7. PenStands(new)
      BY <2>2, <2>3, <2>5, <2>6 DEF PenStands
    <2> QED BY <2>1, <2>7 DEF new
  <1> QED BY <1>1, <1>2, <1>3

LEMMA PenStaysPut ==
  ASSUME NEW s, Len(s) \in Nat, NEW n \in 0 .. Len(s)
  PROVE  PenStands(Pen(s)[n])
  <1> DEFINE S == {k \in Nat : k <= Len(s) => PenStands(Pen(s)[k])}
  <1>1. 0 \in S
    <2>1. PenStands(PenAtStart)
      BY ScreenSizes, FrameSizes DEF PenStands, PenAtStart
    <2> QED BY <2>1, PenSteps
  <1>2. ASSUME NEW k \in Nat, k \in S PROVE k + 1 \in S
    <2> SUFFICES ASSUME k + 1 <= Len(s) PROVE PenStands(Pen(s)[k + 1])
      OBVIOUS
    <2>1. k + 1 \in 1 .. Len(s) /\ (k + 1) - 1 = k
      OBVIOUS
    <2>2. PenStands(Pen(s)[k])
      BY <1>2
    <2> QED BY <2>1, <2>2, PenSteps, DrawNextStands
  <1> HIDE DEF S
  <1>3. Nat \subseteq S
    BY <1>1, <1>2, Induction
  <1> QED BY <1>3 DEF S

-----------------------------------------------------------------------------
(* Where the characters of a text belong.                                  *)

LEMMA Remainder ==
  ASSUME NEW m \in Nat, m > 0, NEW a \in Nat
  PROVE  /\ a % m \in 0 .. m - 1
         /\ (a + 1) % m = IF a % m = m - 1 THEN 0 ELSE (a % m) + 1
  <1> DEFINE q == a \div m
             r == a % m
             p == (a + 1) \div m
             s == (a + 1) % m
  <1>1. q \in Nat /\ r \in 0 .. m - 1 /\ a = m * q + r
    OBVIOUS
  <1>2. p \in Nat /\ s \in 0 .. m - 1 /\ a + 1 = m * p + s
    <2>1. a + 1 \in Nat
      OBVIOUS
    <2> QED BY <2>1
  <1> HIDE DEF q, r, p, s
  <1>3. m * q \in Nat /\ m * p \in Nat
    BY <1>1, <1>2
  <1>4. p <= q + 1 /\ q <= p
    <2>1. ASSUME NEW u \in Nat, NEW v \in Nat, u < v PROVE m * v >= m * u + m
      <3>1. v - u - 1 \in Nat /\ v = u + 1 + (v - u - 1)
        BY <2>1
      <3> DEFINE d == v - u - 1
      <3> HIDE DEF d
      <3>2. v = u + 1 + d /\ d \in Nat
        BY <3>1 DEF d
      <3>3. m * v = m * u + m + m * d /\ m * d \in Nat
        BY <3>2
      <3>4. m * u \in Nat
        OBVIOUS
      <3> QED BY <3>3, <3>4
    <2>2. ~ (q + 1 < p)
      <3> SUFFICES ASSUME q + 1 < p PROVE FALSE
        OBVIOUS
      <3>1. q + 1 \in Nat /\ m * (q + 1) = m * q + m
        BY <1>1
      <3>2. m * p >= m * (q + 1) + m
        BY <1>2, <2>1, <3>1
      <3> QED BY <1>1, <1>2, <1>3, <3>1, <3>2
    <2>3. ~ (p < q)
      <3> SUFFICES ASSUME p < q PROVE FALSE
        OBVIOUS
      <3>1. m * q >= m * p + m
        BY <1>1, <1>2, <2>1
      <3> QED BY <1>1, <1>2, <1>3, <3>1
    <2> QED BY <1>1, <1>2, <2>2, <2>3
  <1>5. CASE p = q
    <2>1. s = r + 1
      BY <1>1, <1>2, <1>3, <1>5
    <2> QED BY <1>1, <1>2, <2>1 DEF r, s
  <1>6. CASE p = q + 1
    <2>1. m * p = m * q + m
      BY <1>1, <1>6
    <2>2. s + m = r + 1
      BY <1>1, <1>2, <1>3, <2>1
    <2> QED BY <1>1, <1>2, <2>2 DEF r, s
  <1> QED BY <1>1, <1>2, <1>4, <1>5, <1>6

LEMMA LineStarts ==
  ASSUME NEW s, NEW i \in Nat, i >= 1
  PROVE  /\ LineStart(s, i) \in 0 .. i - 1
         /\ LineStart(s, i + 1) = IF s[i] = Newline THEN i ELSE LineStart(s, i)
  <1> DEFINE B(n) == {0} \cup {j \in 1 .. n - 1 : s[j] = Newline}
  <1>1. ASSUME NEW n \in Nat, n >= 1
        PROVE  /\ LineStart(s, n) \in B(n) /\ B(n) \subseteq 0 .. n - 1
               /\ \A y \in B(n) : LineStart(s, n) >= y
    <2>1. B(n) \subseteq 0 .. n - 1 /\ n - 1 \in Nat /\ B(n) # {}
      BY <1>1
    <2>2. LineStart(s, n) = Max(B(n))
      BY DEF LineStart
    <2> HIDE DEF B
    <2> QED BY <2>1, <2>2, MaxIsGreatest
  <1>2. i + 1 \in Nat /\ i + 1 >= 1 /\ (i + 1) - 1 = i
    OBVIOUS
  <1>3. B(i + 1) = B(i) \cup (IF s[i] = Newline THEN {i} ELSE {})
    OBVIOUS
  <1>4. /\ LineStart(s, i) \in B(i) /\ B(i) \subseteq 0 .. i - 1
        /\ \A y \in B(i) : LineStart(s, i) >= y
    BY <1>1
  <1>5. LineStart(s, i + 1) \in B(i + 1) /\ \A y \in B(i + 1) : LineStart(s, i + 1) >= y
    BY <1>1, <1>2
  <1> HIDE DEF B
  <1>6. CASE s[i] = Newline
    <2>1. i \in B(i + 1) /\ \A y \in B(i + 1) : y \in Nat /\ y <= i
      BY <1>3, <1>4, <1>6
    <2> QED BY <1>4, <1>5, <1>6, <2>1
  <1>7. CASE s[i] # Newline
    <2>1. B(i + 1) = B(i) /\ \A y \in B(i) : y \in Nat
      BY <1>3, <1>4, <1>7
    <2> QED BY <1>4, <1>5, <1>7, <2>1
  <1> QED BY <1>6, <1>7

(* The place of the next character follows from that of this one.          *)
LEMMA NextPlace ==
  ASSUME NEW s, NEW i \in Nat, i >= 1
  PROVE  /\ Col(s, i) \in 0 .. Cols - 1 /\ Row(s, i) \in Nat
         /\ Col(s, i + 1) = IF EndsRow(s, i) THEN 0 ELSE Col(s, i) + 1
         /\ Row(s, i + 1) = IF EndsRow(s, i) THEN Row(s, i) + 1 ELSE Row(s, i)
  <1>1. /\ LineStart(s, i) \in 0 .. i - 1
        /\ LineStart(s, i + 1) = IF s[i] = Newline THEN i ELSE LineStart(s, i)
    BY LineStarts
  <1>2. Cols \in Nat /\ Cols >= 2
    BY ScreenSizes
  <1> DEFINE a == i - LineStart(s, i) - 1
  <1>3. a \in Nat
    BY <1>1
  <1>4. /\ Col(s, i) = a % Cols /\ Col(s, i) \in 0 .. Cols - 1
        /\ (a + 1) % Cols = IF a % Cols = Cols - 1 THEN 0 ELSE (a % Cols) + 1
    <2>1. Col(s, i) = a % Cols
      BY DEF Col
    <2> HIDE DEF a
    <2>2. Cols \in Nat /\ Cols > 0 /\ a \in Nat
      BY <1>2, <1>3
    <2>3. /\ a % Cols \in 0 .. Cols - 1
          /\ (a + 1) % Cols = IF a % Cols = Cols - 1 THEN 0 ELSE (a % Cols) + 1
      BY <2>2, Remainder
    <2> QED BY <2>1, <2>3
  <1>5. Col(s, i + 1) = IF EndsRow(s, i) THEN 0 ELSE Col(s, i) + 1
    <2>1. CASE s[i] = Newline
      <3>1. (i + 1) - LineStart(s, i + 1) - 1 = 0
        BY <1>1, <2>1
      <3>2. 0 % Cols = 0
        BY <1>2
      <3> QED BY <2>1, <3>1, <3>2 DEF Col, EndsRow
    <2>2. CASE s[i] # Newline
      <3>1. (i + 1) - LineStart(s, i + 1) - 1 = a + 1
        BY <1>1, <2>2
      <3>2. Col(s, i + 1) = (a + 1) % Cols
        BY <3>1 DEF Col
      <3> HIDE DEF a
      <3> QED BY <1>4, <2>2, <3>2 DEF EndsRow
    <2> QED BY <2>1, <2>2
  <1> DEFINE E(n) == {j \in 1 .. n - 1 : EndsRow(s, j)}
  <1>6. /\ IsFiniteSet(E(i)) /\ i \notin E(i)
        /\ E(i + 1) = IF EndsRow(s, i) THEN E(i) \cup {i} ELSE E(i)
    <2>1. IsFiniteSet(1 .. i - 1) /\ E(i) \in SUBSET (1 .. i - 1)
      BY FS_Interval
    <2>2. IsFiniteSet(E(i))
      BY <2>1, FS_Subset
    <2>3. i \notin E(i)
      OBVIOUS
    <2>4. E(i + 1) = IF EndsRow(s, i) THEN E(i) \cup {i} ELSE E(i)
      OBVIOUS
    <2> QED BY <2>2, <2>3, <2>4
  <1>7. Row(s, i) = Cardinality(E(i)) /\ Row(s, i + 1) = Cardinality(E(i + 1))
    BY DEF Row
  <1> HIDE DEF E
  <1>8. Cardinality(E(i)) \in Nat /\ Cardinality(E(i) \cup {i}) = Cardinality(E(i)) + 1
    BY <1>6, FS_CardinalityType, FS_AddElement
  <1> QED BY <1>4, <1>5, <1>6, <1>7, <1>8

LEMMA FirstPlace ==
  ASSUME NEW s
  PROVE  Col(s, 1) = 0 /\ Row(s, 1) = 0
  <1>1. LineStart(s, 1) = 0
    <2>1. LineStart(s, 1) \in 0 .. 1 - 1
      BY LineStarts
    <2> QED BY <2>1
  <1>2. Col(s, 1) = 0
    BY <1>1, ScreenSizes DEF Col
  <1>3. {j \in 1 .. 1 - 1 : EndsRow(s, j)} = {}
    OBVIOUS
  <1> QED BY <1>2, <1>3, FS_EmptySet DEF Row

\* the place of i comes before that of j
Before(s, i, j) == Row(s, i) < Row(s, j) \/ (Row(s, i) = Row(s, j) /\ Col(s, i) < Col(s, j))

LEMMA PlacesDiffer ==
  ASSUME NEW s, NEW i \in Nat, i >= 1, NEW j \in Nat, i < j
  PROVE  Before(s, i, j)
  <1> DEFINE S == {k \in Nat : i < k => Before(s, i, k)}
  <1>1. 0 \in S
    OBVIOUS
  <1>2. ASSUME NEW k \in Nat, k \in S PROVE k + 1 \in S
    <2> SUFFICES ASSUME i < k + 1 PROVE Before(s, i, k + 1)
      OBVIOUS
    <2>1. /\ k >= 1 /\ Col(s, k) \in 0 .. Cols - 1 /\ Row(s, k) \in Nat
          /\ Col(s, k + 1) = IF EndsRow(s, k) THEN 0 ELSE Col(s, k) + 1
          /\ Row(s, k + 1) = IF EndsRow(s, k) THEN Row(s, k) + 1 ELSE Row(s, k)
      BY NextPlace
    <2>2. Col(s, i) \in 0 .. Cols - 1 /\ Row(s, i) \in Nat /\ Cols \in Nat
      BY NextPlace, ScreenSizes
    <2>3. CASE i = k
      BY <2>1, <2>2, <2>3 DEF Before
    <2>4. CASE i < k
      <3>1. Before(s, i, k)
        BY <1>2, <2>4
      <3> QED BY <2>1, <2>2, <3>1 DEF Before
    <2> QED BY <2>3, <2>4
  <1> HIDE DEF S
  <1>3. Nat \subseteq S
    BY <1>1, <1>2, Induction
  <1> QED BY <1>3 DEF S

-----------------------------------------------------------------------------
(* What is drawn is the text laid out.                                     *)

\* what cells show on the screen
Seen(cells) == {<<p, cells[p]>> : p \in {q \in DOMAIN cells : q[2] < Rows}}

\* the first n characters laid out
LaidUpto(s, n) ==
  {<<<<Col(s, i), Row(s, i)>>, s[i]>> : i \in {k \in 1 .. n : s[k] # Newline /\ Row(s, k) < Rows}}

Drawn(s, n) ==
  /\ Seen(Pen(s)[n].cells) = LaidUpto(s, n)
  /\ IF Pen(s)[n].stop THEN Row(s, n + 1) >= Rows
     ELSE Pen(s)[n].x = Col(s, n + 1) /\ Pen(s)[n].y = Row(s, n + 1)

LEMMA LaidOneMore ==
  ASSUME NEW s, NEW n \in Nat
  PROVE  LaidUpto(s, n + 1) =
           LaidUpto(s, n) \cup
             (IF s[n + 1] # Newline /\ Row(s, n + 1) < Rows
              THEN {<<<<Col(s, n + 1), Row(s, n + 1)>>, s[n + 1]>>} ELSE {})
  <1> DEFINE P(k) == s[k] # Newline /\ Row(s, k) < Rows
             e(k) == <<<<Col(s, k), Row(s, k)>>, s[k]>>
  <1>1. \A m \in Nat : LaidUpto(s, m) = {e(i) : i \in {k \in 1 .. m : P(k)}}
    BY DEF LaidUpto
  <1>2. 1 .. n + 1 = (1 .. n) \cup {n + 1}
    OBVIOUS
  <1> HIDE DEF P, e
  <1>3. {e(i) : i \in {k \in 1 .. n + 1 : P(k)}} =
          {e(i) : i \in {k \in 1 .. n : P(k)}} \cup (IF P(n + 1) THEN {e(n + 1)} ELSE {})
    BY <1>2
  <1>4. n + 1 \in Nat
    OBVIOUS
  <1>5. LaidUpto(s, n + 1) = {e(i) : i \in {k \in 1 .. n + 1 : P(k)}}
        /\ LaidUpto(s, n) = {e(i) : i \in {k \in 1 .. n : P(k)}}
    BY <1>1, <1>4
  <1> QED BY <1>3, <1>5 DEF P, e

(* A place no earlier character has is free.                               *)
LEMMA CoveredShows ==
  ASSUME NEW cells, NEW x \in Nat, NEW y \in Nat, NEW c,
         y < Rows => \A v : <<<<x, y>>, v>> \notin Seen(cells)
  PROVE  Seen(Covered(cells, x, y, c)) =
           Seen(cells) \cup (IF y < Rows THEN {<<<<x, y>>, c>>} ELSE {})
  <1> DEFINE p == <<x, y>>
             D == DOMAIN cells
             new == Covered(cells, x, y, c)
  <1>1. new = [q \in D \cup {p} |-> IF q = p THEN c ELSE cells[q]]
    BY DEF Covered
  <1>2. p[2] = y
    OBVIOUS
  <1> HIDE DEF p, new
  <1>3. DOMAIN new = D \cup {p} /\ new[p] = c /\ \A q \in D : q # p => new[q] = cells[q]
    BY <1>1
  <1>4. y < Rows => p \notin D
    <2> SUFFICES ASSUME y < Rows, p \in D PROVE FALSE
      OBVIOUS
    <2>1. <<p, cells[p]>> \in Seen(cells)
      BY <1>2 DEF Seen
    <2> QED BY <2>1 DEF p
  <1>5. {q \in DOMAIN new : q[2] < Rows} =
          {q \in D : q[2] < Rows} \cup (IF y < Rows THEN {p} ELSE {})
    BY <1>2, <1>3
  <1>6. \A q \in {r \in D : r[2] < Rows} : new[q] = cells[q]
    BY <1>2, <1>3, <1>4
  <1>7. Seen(new) = Seen(cells) \cup (IF y < Rows THEN {<<p, c>>} ELSE {})
    BY <1>3, <1>5, <1>6 DEF Seen
  <1> QED BY <1>7 DEF p, new

LEMMA DrawnOneMore ==
  ASSUME NEW s, Len(s) \in Nat, NEW n \in Nat, n + 1 <= Len(s), Drawn(s, n)
  PROVE  Drawn(s, n + 1)
  <1> DEFINE i    == n + 1
             c    == s[i]
             pen  == Pen(s)[n]
             next == Pen(s)[i]
  <1>1. i \in Nat /\ i >= 1 /\ i \in 1 .. Len(s) /\ i - 1 = n /\ n \in 0 .. Len(s)
    OBVIOUS
  <1>2. next = DrawNext(pen, c) /\ PenStands(pen)
    BY <1>1, PenSteps, PenStaysPut
  <1>3. /\ Col(s, i) \in 0 .. Cols - 1 /\ Row(s, i) \in Nat
        /\ Col(s, i + 1) = IF EndsRow(s, i) THEN 0 ELSE Col(s, i) + 1
        /\ Row(s, i + 1) = IF EndsRow(s, i) THEN Row(s, i) + 1 ELSE Row(s, i)
    BY <1>1, NextPlace
  <1>4. Cols \in Nat /\ Rows \in Nat
    BY ScreenSizes
  <1>5. Seen(pen.cells) = LaidUpto(s, n)
    BY DEF Drawn
  <1>6. LaidUpto(s, i) = LaidUpto(s, n) \cup
                           (IF c # Newline /\ Row(s, i) < Rows
                            THEN {<<<<Col(s, i), Row(s, i)>>, c>>} ELSE {})
    BY LaidOneMore
  <1>7. IF pen.stop THEN Row(s, i) >= Rows ELSE pen.x = Col(s, i) /\ pen.y = Row(s, i)
    BY DEF Drawn
  <1>8. SUFFICES /\ Seen(next.cells) = LaidUpto(s, i)
                 /\ IF next.stop THEN Row(s, i + 1) >= Rows
                    ELSE next.x = Col(s, i + 1) /\ next.y = Row(s, i + 1)
    BY DEF Drawn
  <1> HIDE DEF i, c, pen, next
  <1>9. CASE pen.stop
    <2>1. next = pen
      BY <1>2, <1>9 DEF DrawNext
    <2>2. ~ (Row(s, i) < Rows) /\ Row(s, i + 1) >= Rows
      BY <1>3, <1>4, <1>7, <1>9
    <2> QED BY <1>5, <1>6, <1>9, <2>1, <2>2
  <1>10. CASE ~pen.stop /\ c = Newline
    <2>1. next = [pen EXCEPT !.x = 0, !.y = @ + 1]
      BY <1>2, <1>10 DEF DrawNext
    <2>2. next.x = 0 /\ next.y = pen.y + 1 /\ next.stop = pen.stop /\ next.cells = pen.cells
      BY <1>2, <2>1 DEF PenStands
    <2>3. EndsRow(s, i)
      BY <1>10 DEF EndsRow, c
    <2> QED BY <1>3, <1>5, <1>6, <1>7, <1>10, <2>2, <2>3
  <1>11. CASE ~pen.stop /\ c # Newline
    <2> DEFINE x     == IF Wraps(pen.x) THEN 0 ELSE pen.x + 1
               y     == IF Wraps(pen.x) THEN pen.y + 1 ELSE pen.y
               cells == Covered(pen.cells, pen.x, pen.y, c)
    <2>1. /\ next.x = x /\ next.y = y /\ next.stop = (y >= Rows) /\ next.cells = cells
      BY <1>2, <1>11 DEF DrawNext
    <2>2. pen.x = Col(s, i) /\ pen.y = Row(s, i)
      BY <1>7, <1>11
    <2>3. Wraps(pen.x) <=> EndsRow(s, i)
      BY <1>3, <1>4, <1>11, <2>2 DEF Wraps, EndsRow, c
    <2>4. x = Col(s, i + 1) /\ y = Row(s, i + 1)
      BY <1>3, <2>2, <2>3
    <2>5. \A v : <<<<pen.x, pen.y>>, v>> \notin Seen(pen.cells)
      <3> SUFFICES ASSUME NEW v, <<<<pen.x, pen.y>>, v>> \in LaidUpto(s, n) PROVE FALSE
        BY <1>5
      <3>1. PICK k \in 1 .. n : Col(s, k) = pen.x /\ Row(s, k) = pen.y
        BY DEF LaidUpto
      <3>2. k \in Nat /\ k >= 1 /\ k < i
        BY DEF i
      <3>3. Before(s, k, i)
        BY <1>1, <3>2, PlacesDiffer
      <3> QED BY <1>3, <1>4, <2>2, <3>1, <3>3 DEF Before
    <2>6. pen.x \in Nat /\ pen.y \in Nat
      BY <1>3, <1>4, <2>2
    <2>7. Seen(cells) =
            Seen(pen.cells) \cup (IF pen.y < Rows THEN {<<<<pen.x, pen.y>>, c>>} ELSE {})
      BY <2>5, <2>6, CoveredShows
    <2> HIDE DEF x, y, cells
    <2>8. Seen(next.cells) = LaidUpto(s, i)
      BY <1>5, <1>6, <1>11, <2>1, <2>2, <2>7
    <2>9. IF next.stop THEN Row(s, i + 1) >= Rows
          ELSE next.x = Col(s, i + 1) /\ next.y = Row(s, i + 1)
      BY <2>1, <2>4
    <2> QED BY <2>8, <2>9
  <1> QED BY <1>9, <1>10, <1>11

LEMMA DrawingIsLayout ==
  ASSUME NEW T, NEW s \in Seq(T)
  PROVE  Seen(Pen(s)[Len(s)].cells) = LaidOut(s)
  <1> DEFINE S == {k \in Nat : k <= Len(s) => Drawn(s, k)}
  <1>0. Len(s) \in Nat /\ DOMAIN s = 1 .. Len(s)
    OBVIOUS
  <1>1. 0 \in S
    <2>1. Pen(s)[0] = PenAtStart
      BY <1>0, PenSteps
    <2>2. Seen(PenAtStart.cells) = {}
      BY DEF Seen, PenAtStart
    <2>3. LaidUpto(s, 0) = {}
      BY DEF LaidUpto
    <2>4. Col(s, 0 + 1) = 0 /\ Row(s, 0 + 1) = 0
      BY FirstPlace
    <2>5. ~PenAtStart.stop /\ PenAtStart.x = 0 /\ PenAtStart.y = 0
      BY DEF PenAtStart
    <2>6. Drawn(s, 0)
      BY <2>1, <2>2, <2>3, <2>4, <2>5 DEF Drawn
    <2> QED BY <2>6
  <1>2. ASSUME NEW k \in Nat, k \in S PROVE k + 1 \in S
    <2> SUFFICES ASSUME k + 1 <= Len(s) PROVE Drawn(s, k + 1)
      OBVIOUS
    <2>1. Drawn(s, k)
      BY <1>0, <1>2
    <2> QED BY <1>0, <2>1, DrawnOneMore
  <1> HIDE DEF S
  <1>3. Nat \subseteq S
    BY <1>1, <1>2, Induction
  <1>4. Drawn(s, Len(s))
    BY <1>0, <1>3 DEF S
  <1>5. LaidOut(s) = LaidUpto(s, Len(s))
    BY <1>0 DEF LaidOut, LaidUpto
  <1> QED BY <1>4, <1>5 DEF Drawn

\* the frame shows the history as it was when painted
FrameInv ==
  /\ HistoryInv
  /\ frame.seen \in 0 .. Len(history)
  /\ Seen(frame.cells) = LaidOut(SubSeq(history, 1, frame.seen))
  /\ DOMAIN frame.cells \subseteq Nat \X Nat
  /\ frame.text \in Nat /\ frame.text <= TextLimit

LEMMA HistoryType ==
  ASSUME HistoryInv
  PROVE  history \in Seq(Symbols) /\ Len(history) \in Nat /\ Len(history) <= HIST_LENGTH
  <1>1. PICK w \in Seq(Symbols) : history = Part(w, 1, HIST_LENGTH)
    BY DEF HistoryInv, Accounts
  <1>2. HIST_LENGTH \in Nat
    BY ScreenAssumption
  <1>3. /\ history = IF Len(w) <= HIST_LENGTH THEN w ELSE SubSeq(w, 1, HIST_LENGTH)
        /\ history \in Seq(Symbols)
    BY <1>1, <1>2, PartBegins
  <1>4. Len(w) > HIST_LENGTH => Len(SubSeq(w, 1, HIST_LENGTH)) = HIST_LENGTH
    BY <1>2
  <1> QED BY <1>2, <1>3, <1>4

LEMMA FrameInitInv == ConsoleInit => FrameInv
  <1> SUFFICES ASSUME ConsoleInit PROVE FrameInv
    OBVIOUS
  <1>1. HistoryInv /\ history = <<>> /\ frame = Blank
    BY HistoryInitInv DEF ConsoleInit, ScreenInit
  <1>2. frame.seen = 0 /\ frame.cells = <<>> /\ frame.text = 0
    BY <1>1 DEF Blank
  <1>3. SubSeq(history, 1, frame.seen) = <<>>
    BY <1>1, <1>2
  <1>4. Seen(<<>>) = {} /\ LaidOut(<<>>) = {} /\ DOMAIN <<>> = {} /\ Len(<<>>) = 0
    BY DEF Seen, LaidOut
  <1>5. frame.seen \in 0 .. Len(history)
    BY <1>1, <1>2, <1>4
  <1>6. Seen(frame.cells) = LaidOut(SubSeq(history, 1, frame.seen))
    BY <1>2, <1>3, <1>4
  <1>7. frame.text \in Nat /\ frame.text <= TextLimit
    BY <1>2, FrameSizes
  <1>8. DOMAIN frame.cells \subseteq Nat \X Nat
    BY <1>2
  <1> QED BY <1>1, <1>5, <1>6, <1>7, <1>8 DEF FrameInv

LEMMA FrameStepInv == FrameInv /\ [ConsoleNext]_consoleVars => FrameInv'
  <1> SUFFICES ASSUME FrameInv, [ConsoleNext]_consoleVars PROVE FrameInv'
    OBVIOUS
  <1>1. HistoryInv /\ HistoryInv'
    BY HistoryStepInv DEF FrameInv
  <1>2. history \in Seq(Symbols) /\ Len(history) \in Nat
    BY <1>1, HistoryType
  <1>3. CASE Repaint
    <2> DEFINE drawn == Pen(history)[Len(history)]
    <2>1. /\ frame' = [cells |-> drawn.cells, text |-> Max({drawn.text, ClearEnd}),
                       mouse |-> MouseEnd, seen |-> Len(history)]
          /\ history' = history
      BY <1>3 DEF Repaint, vesa_update_graphics, tty_draw
    <2>2. PenStands(drawn)
      <3>1. Len(history) \in 0 .. Len(history)
        BY <1>2
      <3> QED BY <1>2, <3>1, PenStaysPut
    <2>3. Seen(drawn.cells) = LaidOut(history)
      BY <1>2, DrawingIsLayout
    <2>4. SubSeq(history, 1, Len(history)) = history
      BY <1>2
    <2> HIDE DEF drawn
    <2>5. /\ frame'.cells = drawn.cells /\ frame'.seen = Len(history)
          /\ frame'.text = Max({drawn.text, ClearEnd})
      BY <2>1
    <2>6. Seen(frame.cells)' = LaidOut(SubSeq(history, 1, frame.seen))'
      BY <2>1, <2>3, <2>4, <2>5
    <2>7. frame'.text \in Nat /\ frame'.text <= TextLimit
      <3>1. drawn.text \in Nat /\ drawn.text <= TextLimit
        BY <2>2 DEF PenStands
      <3>2. ClearEnd \in Nat /\ ClearEnd <= TextLimit
        BY ClearEnds
      <3>3. Max({drawn.text, ClearEnd}) \in {drawn.text, ClearEnd}
        BY <3>1, <3>2, MaxOfTwo
      <3> QED BY <2>5, <3>1, <3>2, <3>3
    <2>8. DOMAIN frame'.cells \subseteq Nat \X Nat
      BY <2>2, <2>5 DEF PenStands
    <2>9. frame'.seen \in 0 .. Len(history')
      BY <1>2, <2>1, <2>5
    <2> QED BY <1>1, <2>6, <2>7, <2>8, <2>9 DEF FrameInv, TextLimit, TextOverdraw, buffer_size, Padding, pixel_width
  <1>4. CASE ~Repaint
    <2>1. frame' = frame /\ (history' = history \/ \E c \in Symbols : history' = Append(history, c))
      <3>1. CASE WriteChar
        <4>1. /\ text # <<>> /\ text \in Seq(Symbols)
              /\ frame' = frame /\ history' = Stored(Head(text))
          BY <1>1, <3>1 DEF WriteChar, tty_write_char, HistoryInv
        <4>2. Head(text) \in Symbols
          BY <4>1
        <4> QED BY <4>1, <4>2 DEF Stored
      <3>2. CASE ~WriteChar
        BY <1>4, <3>2 DEF ConsoleNext, Boot, Mount, PrintModules, PrintEntry, PrintEnd, MousePacket,
                          vesa_mouse_packet, consoleVars, screenVars
      <3> QED BY <3>1, <3>2
    <2>2. history' \in Seq(Symbols) /\ Len(history') \in Nat
      BY <1>2, <2>1
    <2>3. /\ Len(history) <= Len(history')
          /\ SubSeq(history', 1, frame.seen) = SubSeq(history, 1, frame.seen)
      <3>1. CASE history' = history
        BY <1>2, <3>1
      <3>2. ASSUME NEW c \in Symbols, history' = Append(history, c)
            PROVE  /\ Len(history) <= Len(history')
                   /\ SubSeq(history', 1, frame.seen) = SubSeq(history, 1, frame.seen)
        <4>1. /\ Len(history') = Len(history) + 1
              /\ \A k \in 1 .. Len(history) : history'[k] = history[k]
          BY <1>2, <3>2
        <4>2. frame.seen \in 0 .. Len(history)
          BY DEF FrameInv
        <4> QED BY <1>2, <2>2, <4>1, <4>2
      <3> QED BY <2>1, <3>1, <3>2
    <2>4. Seen(frame.cells)' = LaidOut(SubSeq(history, 1, frame.seen))'
      <3>1. Seen(frame.cells) = LaidOut(SubSeq(history, 1, frame.seen))
        BY DEF FrameInv
      <3> QED BY <2>1, <2>3, <3>1
    <2>5. frame'.seen \in 0 .. Len(history')
      BY <1>2, <2>1, <2>2, <2>3 DEF FrameInv
    <2> QED BY <1>1, <2>1, <2>4, <2>5 DEF FrameInv, TextLimit, TextOverdraw, buffer_size, Padding, pixel_width
  <1> QED BY <1>3, <1>4

LEMMA FrameInvariant == ConsoleSpec => []FrameInv
  BY FrameInitInv, FrameStepInv, PTL DEF ConsoleSpec

(* The screen shows what was printed when it was last painted, in lines    *)
(* and wrapped, for every text and every size of screen, wherever in the   *)
(* printing the timer falls (tty.c:48-71).                                 *)
THEOREM TheScreenShowsTheText == ConsoleSpec => []ScreenShowsText
  <1>1. FrameInv => ScreenShowsText
    BY DEF FrameInv, ScreenShowsText, Seen
  <1> QED BY <1>1, FrameInvariant, PTL

(* For every pitch: behind the lines with their padding, a frame leaves    *)
(* the back buffer by a character's first line below the last row, by      *)
(* pixels of less than four bytes that are cleared as four, or by the      *)
(* pointer's nineteen lines, and by no more (vesa_graphics.c:55-92, 105).  *)
THEOREM FramesStayNear == ConsoleSpec => []OverdrawIsBounded
  <1>1. FrameInv /\ PointerInv => OverdrawIsBounded
    BY DEF FrameInv, PointerInv, PointerOverdraw, OverdrawIsBounded, TextLimit
  <1> QED BY <1>1, FrameInvariant, PointerInvariant, PTL

(* The variables keep their types, for every disk, every list of modules   *)
(* and every size of screen and history.                                   *)
THEOREM ConsoleTypeCorrect == ConsoleSpec => []ConsoleTypeOK
  <1>1. FrameInv => ConsoleTypeOK
    <2> SUFFICES ASSUME FrameInv PROVE ConsoleTypeOK
      OBVIOUS
    <2>1. HistoryInv /\ DiskInv
      BY DEF FrameInv, HistoryInv
    <2>2. Len(mods) <= MAX_MODULES
      BY <2>1, ModulesAreSequences DEF DiskInv, ModsAreCopied
    <2>3. Len(root_nodes) = Len(file_headers)
      <3>1. DOMAIN argv = 1 .. Len(argv) /\ Len(argv) \in Nat
        BY <2>1, FilesAreSequences DEF DiskInv
      <3> QED BY <2>1, <3>1 DEF DiskInv, DiskIsThere
    <2>4. Len(history) <= HIST_LENGTH
      BY <2>1, HistoryType
    <2> QED BY <2>1, <2>2, <2>3, <2>4 DEF ConsoleTypeOK, FrameInv, HistoryInv, DiskInv
  <1> QED BY <1>1, FrameInvariant, PTL
=============================================================================
