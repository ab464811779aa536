-------------------------------- MODULE Libc --------------------------------
(***************************************************************************)
(* One call of a function of libc or of the kernel's number printing, with *)
(* each of a set of arguments, against what it is to do.                   *)
(***************************************************************************)
EXTENDS LibcNumbers

CONSTANTS
  Bytes, Size,         \* the memory copies are made in: its bytes, its addresses 0 .. Size - 1
  Strings,             \* strings to compare, reverse and raise
  Bases,
  Numerals,            \* strings for atoi
  Formats

ASSUME LibcAssumption ==
  /\ Bytes \subseteq 0 .. 255 /\ Size \in Nat
  /\ Strings \subseteq Seq(1 .. 255) /\ Numerals \subseteq Seq(1 .. 255)
  /\ Bases \subseteq 2 .. 36
  /\ \A f \in Formats : f \in Seq(STRING) /\ Len(f) < 2 ^ 15      \* print counts in a short

VARIABLES
  call,                \* the arguments
  function,            \* the function that has been called, "none" before
  result

libcVars == <<call, function, result>>

Addresses == 0 .. Size - 1
Memories  == [Addresses -> Bytes]

Copies ==
  {[kind |-> "copy", m |-> m, dst |-> x[1], src |-> x[2], size |-> x[3]] :
     m \in Memories,
     x \in {y \in (0 .. Size) \X (0 .. Size) \X (0 .. Size) : y[1] + y[3] <= Size /\ y[2] + y[3] <= Size}}

Calls ==
  UNION {Copies,
         [kind : {"pair"}, s : Strings, t : Strings],
         [kind : {"int"}, n : Ints \ {IntMin}, base : Bases],
         [kind : {"uint"}, n : UInts, base : Bases],
         [kind : {"numeral"}, s : Numerals],
         [kind : {"format"}, f : Formats]}

LibcInit ==
  /\ call \in Calls
  /\ function = "none" /\ result = <<>>

Called(kind, name) ==
  /\ function = "none" /\ call.kind = kind
  /\ function' = name
  /\ UNCHANGED call

Memcpy  == Called("copy", "memcpy") /\ result' = memcpy(call.m, call.dst, call.src, call.size)
Memmove == Called("copy", "memmove") /\ result' = memmove(call.m, call.dst, call.src, call.size)
Memset  == Called("copy", "memset") /\ result' = memset(call.m, call.dst, call.src, call.size)
Stosb   == Called("copy", "stosb") /\ result' = stosb(call.m, call.dst, call.src, call.size)

Within(address, start, size) == address \in start .. start + size - 1

\* a string that ends in the memory is copied to a place that ends there too
Strcpy ==
  /\ Called("copy", "strcpy")
  /\ \E a \in Addresses : a >= call.src /\ call.m[a] = 0
  /\ LET n == Stored(call.m, call.src)
     IN  /\ call.size = n
         /\ call.dst + n <= Size
         /\ ~Within(call.dst, call.src + 1, n - 1)
  /\ result' = strcpy(call.m, call.dst, call.src)

Memcmp  == Called("pair", "memcmp") /\ result' = memcmp(call.s, call.t, Len(call.t))
Strcmp  == Called("pair", "strcmp") /\ result' = strcmp(call.s, call.t)
ReverseString == Called("pair", "reverse") /\ result' = reverse(call.s)
Toupper == Called("pair", "toupper") /\ result' = toupper(call.s)
Itoa    == Called("int", "itoa") /\ result' = itoa(call.n, call.base)

\* beyond the ints the result is undefined
Atoi ==
  /\ Called("numeral", "atoi")
  /\ result' = atoi(call.s)
  /\ result' \in -IntMax .. IntMax

KprintBase == Called("uint", "kprint_base") /\ result' = kprint_base(call.n, call.base)
Printf  == Called("format", "printf") /\ result' = printf(call.f)

LibcNext ==
  \/ Memcpy \/ Memmove \/ Memset \/ Stosb \/ Strcpy
  \/ Memcmp \/ Strcmp \/ ReverseString \/ Toupper
  \/ Itoa \/ Atoi \/ KprintBase \/ Printf

LibcSpec == LibcInit /\ [][LibcNext]_libcVars

-----------------------------------------------------------------------------
(* What the functions are to do.                                           *)

\* the memory in which the size bytes from dst on are f, and the others as they were
Overwritten(m, dst, size, f(_)) ==
  [a \in DOMAIN m |-> IF Within(a, dst, size) THEN f(a) ELSE m[a]]

\* every byte of the source as it was before the copy
Copied == Overwritten(call.m, call.dst, call.size, LAMBDA a : call.m[a - call.dst + call.src])

Sign(n) == IF n < 0 THEN -1 ELSE IF n > 0 THEN 1 ELSE 0

\* the order of a dictionary
Before(s, t) ==
  \/ IsStrictPrefix(s, t)
  \/ \E k \in DOMAIN s \cap DOMAIN t :
       s[k] < t[k] /\ \A j \in 1 .. k - 1 : s[j] = t[j]

(* memmove copies the source as it was however the two overlap, and memcpy *)
(* does when the source is not overwritten before it is read, as strcpy    *)
(* does up to the 0; memset and stosb fill their bytes and no other;       *)
(* strcmp orders strings as a dictionary does, and memcmp over the length  *)
(* of a name, as get_module uses it (multiboot.c:18), is 0 of the strings  *)
(* that begin with it; reversing gives the characters from the last to the *)
(* first, and raising leaves no small letter.                              *)
StringsAreRight ==
  CASE function = "memmove" -> result = Copied
    [] function \in {"memcpy", "strcpy"} ->
         ~Within(call.dst, call.src + 1, call.size - 1) => result = Copied
    [] function \in {"memset", "stosb"} ->
         result = Overwritten(call.m, call.dst, call.size, LAMBDA a : call.src % 256)
    [] function = "strcmp"  ->
         /\ result = -1 <=> Before(call.s, call.t)
         /\ result = 1 <=> Before(call.t, call.s)
         /\ result = 0 <=> call.s = call.t
    [] function = "memcmp"  -> (result = 0 <=> IsPrefix(call.t, call.s))
    [] function = "reverse" -> result = Reverse(call.s)
    [] function = "toupper" ->
         /\ Len(result) = Len(call.s) /\ ToSet(result) \cap 97 .. 122 = {}
         /\ \A k \in DOMAIN result :
              result[k] # call.s[k] => call.s[k] \in 97 .. 122 /\ result[k] = call.s[k] - 32
    [] OTHER -> TRUE

\* the number a text of digits denotes; letters, large or small, from ten on
DigitOf(c, base) ==
  CASE c \in 48 .. 57 -> c - 48 [] c \in 65 .. 90 -> c - 55 [] c \in 97 .. 122 -> c - 87 [] OTHER -> base

Denoted(text, base) ==
  LET value[k \in 0 .. Len(text)] ==
        IF k = 0 THEN 0 ELSE value[k - 1] * base + DigitOf(text[k], base)
  IN  value[Len(text)]

IsText(text, base) ==
  /\ text # <<>> /\ (text[1] = Zero => Len(text) = 1)
  /\ ToSet(text) \subseteq 48 .. 57 \cup 65 .. 65 + base - 11 \cup 97 .. 97 + base - 11

\* what a reader of printf's format expects: of each "%", alone or with the next
\* character; after a bad specifier none is a conversion any more
Reads(st, x) ==
  CASE ~st.percent /\ x = "%" -> [st EXCEPT !.percent = TRUE]
    [] ~st.percent /\ x # "%" -> [st EXCEPT !.out = Append(@, <<"literal", x>>)]
    [] st.percent /\ x = "%"  ->
         [st EXCEPT !.percent = FALSE, !.out = Append(@, <<"literal", "%">>)]
    [] st.percent /\ x \in {"c", "s"} /\ ~st.bad ->
         [st EXCEPT !.percent = FALSE, !.out = Append(@, Argument(x))]
    [] OTHER ->
         [percent |-> FALSE, bad |-> TRUE, out |-> st.out \o Literal(<<"%", x>>)]

Expected(f) ==
  LET read[k \in 0 .. Len(f)] ==
        IF k = 0 THEN [percent |-> FALSE, bad |-> FALSE, out |-> <<>>] ELSE Reads(read[k - 1], f[k])
      end == read[Len(f)]
  IN  IF end.percent THEN Append(end.out, <<"literal", "%">>) ELSE end.out

(* Numbers are printed as digits that denote them, without leading zeros,  *)
(* by kprint_base in every base and by itoa too, unless they are negative  *)
(* and the base is not 10; atoi reads back what itoa has written, any      *)
(* numeral as the number it denotes and anything else as 0; printf prints  *)
(* its format with the arguments in their places, up to the first          *)
(* conversion it does not know.                                            *)
PrintsAreRight ==
  CASE function = "kprint_base" -> IsText(result, call.base) /\ Denoted(result, call.base) = call.n
    [] function = "itoa" ->
         /\ call.n >= 0 => IsText(result, call.base) /\ Denoted(result, call.base) = call.n
         /\ call.n < 0 /\ call.base = 10 =>
              /\ result[1] = Minus /\ IsText(Tail(result), 10)
              /\ Denoted(Tail(result), 10) = -call.n
         /\ call.base = 10 => atoi(result) = call.n
    [] function = "atoi" ->
         LET digits == IF IsPrefix(<<Minus>>, call.s) THEN Tail(call.s) ELSE call.s
             numeral == ToSet(digits) \subseteq 48 .. 57
         IN  /\ ~numeral => result = 0
             /\ numeral => Denoted(digits, 10) = IF digits = call.s THEN result ELSE -result
    [] function = "printf" -> result = Expected(call.f)
    [] OTHER -> TRUE

(* itoa.c:14 "In standard itoa(), negative numbers are handled only with   *)
(* base 10.  Otherwise numbers are considered unsigned."                   *)
OthersAreUnsigned ==
  function = "itoa" /\ call.n < 0 /\ call.base # 10 =>
    IsText(result, call.base) /\ Denoted(result, call.base) = call.n + UIntMax + 1
=============================================================================
