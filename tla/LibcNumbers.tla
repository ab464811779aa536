---------------------------- MODULE LibcNumbers ----------------------------
(***************************************************************************)
(* Numbers as text: itoa and atoi of libc/stdlib, kprint_base of the       *)
(* kernel (io/screen.c), and printf of libc/stdio.  C's division rounds    *)
(* towards 0, and the sign of a remainder is that of the number.           *)
(***************************************************************************)
EXTENDS LibcString

CONSTANT IntMax        \* the largest int, 2^31 - 1

ASSUME NumbersAssumption == IntMax \in Nat

IntMin  == -IntMax - 1
Ints    == IntMin .. IntMax
UIntMax == 2 * IntMax + 1
UInts   == 0 .. UIntMax

Quotient(n, base)  == IF n < 0 THEN -((-n) \div base) ELSE n \div base
Remainder(n, base) == n - base * Quotient(n, base)

Zero  == 48            \* '0'
Minus == 45            \* '-'

-----------------------------------------------------------------------------
Digit(rem, letter) == IF rem > 9 THEN rem - 10 + letter ELSE rem + Zero

\* while(num != 0): the digits, the lowest first
LowFirst(num, base) ==
  LET digits[n \in Ints] ==
        IF n = 0 THEN <<>> ELSE <<Digit(Remainder(n, base), 97)>> \o digits[Quotient(n, base)]
  IN  digits[num]

\* mutant: the sign is put in front before the string is reversed
itoa_SignFirst(num, base) ==
  IF num = 0 THEN <<Zero>>
  ELSE IF num < 0 /\ base = 10 THEN reverse(<<Minus>> \o LowFirst(-num, base))
  ELSE reverse(LowFirst(num, base))

\* for any number but the smallest, whose negation is not an int
itoa(num, base) ==
  IF num = 0 THEN <<Zero>>
  ELSE IF num < 0 /\ base = 10 THEN reverse(Append(LowFirst(-num, base), Minus))
  ELSE reverse(LowFirst(num, base))

isNumericChar(x) == x \in Zero .. Zero + 9

\* where the value is an int
atoi(str) ==
  LET negative == str # <<>> /\ str[1] = Minus
      digits == IF negative THEN Tail(str) ELSE str
      res[i \in 0 .. Len(digits)] ==
        IF i = 0 THEN 0 ELSE res[i - 1] * 10 + digits[i] - Zero
  IN  IF \E k \in DOMAIN digits : ~isNumericChar(digits[k]) THEN 0
      ELSE IF negative THEN -res[Len(digits)] ELSE res[Len(digits)]

kprint_base(num, b) ==
  LET printed[n \in UInts] ==
        (IF n > b - 1 THEN printed[n \div b] ELSE <<>>) \o <<Digit(n % b, 65)>>
  IN  printed[num]

-----------------------------------------------------------------------------
(* printf: formats are sequences of characters, of which "%", "c" and "s"  *)
(* matter; what is printed for an argument is one token.                   *)

Argument(specifier) == <<"argument", specifier>>

\* behind the run of characters that starts at p: the next "%", or the end
RunEnd(f, p) ==
  LET next == SelectInSeq(SubSeq(f, p + 1, Len(f)), LAMBDA x : x = "%")
  IN  IF next = 0 THEN Len(f) + 1 ELSE p + next

Literal(s) == [k \in DOMAIN s |-> <<"literal", s[k]>>]

\* one turn of the loop at format[p]; rejected: rejected_bad_specifier
PrintfTurn(f, st) ==
  LET p == st.p
      Behind(chars) == p < Len(f) /\ f[p + 1] \in chars
      RunFrom(q, rejected) ==
        [p |-> RunEnd(f, q), rejected |-> rejected,
         out |-> st.out \o Literal(SubSeq(f, q, RunEnd(f, q) - 1))]
  IN  CASE p > Len(f)   -> st
        [] p <= Len(f) /\ f[p] # "%" -> RunFrom(p, st.rejected)
        [] p <= Len(f) /\ f[p] = "%" /\ Behind({"%"}) -> RunFrom(p + 1, st.rejected)
        [] p <= Len(f) /\ f[p] = "%" /\ Behind({"c", "s"}) /\ ~st.rejected ->
             [p |-> p + 2, rejected |-> st.rejected, out |-> Append(st.out, Argument(f[p + 1]))]
        [] OTHER -> RunFrom(p, TRUE)

\* every turn takes a character at least
printf(f) ==
  LET turn[k \in 0 .. Len(f)] ==
        IF k = 0 THEN [p |-> 1, rejected |-> FALSE, out |-> <<>>] ELSE PrintfTurn(f, turn[k - 1])
  IN  turn[Len(f)].out
=============================================================================
