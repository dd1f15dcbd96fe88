------------------------------ MODULE Arith64 ------------------------------
(***************************************************************************)
(* The 64-bit arithmetic the compiler calls on a 32-bit machine, of        *)
(* src/kernel/arith64.c (src/libc and src/loader hold the same file): the  *)
(* long division of __divmoddi4, one step for each bit, under the signed   *)
(* and unsigned functions that call it.  The width is a constant; the      *)
(* tests of the upper half (a 32-bit divisor or numerator) keep theirs.    *)
(***************************************************************************)
EXTENDS Integers

CONSTANTS
  Width,        \* 64
  Operands      \* the words that are divided

ASSUME WidthAssumption == Width \in {2^k : k \in 1..6}
ASSUME OperandsAssumption == Operands \subseteq 0..(2^Width - 1)

VARIABLES
  function,     \* the function called: Signed or Unsigned ones
  given,        \* its operands, as words
  a, b,         \* the locals of __divmoddi4
  bits, rem, wrap,
  quotient, remainder,  \* what __divmoddi4 leaves
  step          \* "call", "loop", "done" or "fault"

divVars == <<function, given, a, b, bits, rem, wrap, quotient, remainder, step>>

Modulus == 2^Width
Word64 == 0..(Modulus - 1)
Signed == {"__divdi3", "__moddi3"}
Unsigned == {"__udivdi3", "__umoddi3"}

\* C on words of this width: << and >>, and the value of a word as signed.
Shl(x, n) == (x * 2^n) % Modulus
Shr(x, n) == x \div 2^n
SignedValue(x) == IF x >= Modulus \div 2 THEN x - Modulus ELSE x
arith64_hi(x) == x \div 2^(Width \div 2)
arith64_neg(x, sign) == IF SignedValue(sign) < 0 THEN (-x) % Modulus ELSE x
arith64_abs(x) == arith64_neg(x, x)

\* The number of leading zero bits, found by halving.
clzdi2[half \in 1..Width] ==
  [x \in Word64 |->
     LET clear == x < 2^(Width - half)
         n == IF clear THEN half ELSE 0
     IN IF half = 1 THEN n
        ELSE n + clzdi2[half \div 2][Shl(x, n)]]

__clzdi2(x) == clzdi2[Width \div 2][x]

\* Types; the bits left to divide are a count of shifts the words can take.
DivTypeOK ==
  /\ {a, b, rem, wrap} \subseteq Word64
  /\ {quotient, remainder} \subseteq Word64
  /\ bits \in 0..(Width - 1)
  /\ step \in {"call", "loop", "done", "fault"}

DivInit ==
  /\ function \in Signed \cup Unsigned
  /\ given \in Operands \X Operands
  /\ a = 0 /\ b = 0 /\ bits = 0 /\ rem = 0 /\ wrap = 0
  /\ quotient = 0 /\ remainder = 0
  /\ step = "call"

\* What __divmoddi4 is called with.
Arguments ==
  IF function \in Signed
    THEN <<arith64_abs(given[1]), arith64_abs(given[2])>>
    ELSE given

Answer(q, r) ==
  /\ quotient' = q /\ remainder' = r
  /\ step' = "done"
  /\ UNCHANGED <<bits, rem, wrap>>

\* The cases without a loop: a larger divisor, a division by 0, which faults,
\* one by 1, and operands that both fit in half a word.
Direct(x, y) ==
  IF y > x THEN Answer(0, x)
  ELSE IF y = 0 THEN step' = "fault" /\ UNCHANGED <<bits, rem, wrap, quotient, remainder>>
  ELSE IF y = 1 THEN Answer(x, 0)
  ELSE arith64_hi(x) = 0 /\ Answer(x \div y, x % y)

IsDirect(x, y) == y > x \/ y \in {0, 1} \/ (arith64_hi(x) = 0 /\ arith64_hi(y) = 0)

\* The number of bits the loop divides.
Bits(x, y) == __clzdi2(y) - __clzdi2(x) + 1

DivCall ==
  /\ step = "call"
  /\ LET x == Arguments[1]
         y == Arguments[2]
     IN /\ b' = y
        /\ IF IsDirect(x, y)
             THEN a' = x /\ Direct(x, y)
             ELSE LET n == Bits(x, y)
                  IN /\ bits' = n
                     /\ rem' = Shr(x, n)
                     /\ a' = Shl(x, Width - n)
                     /\ wrap' = 0
                     /\ step' = "loop"
                     /\ UNCHANGED <<quotient, remainder>>
  /\ UNCHANGED <<function, given>>

\* Mutant: a remainder equal to the divisor is kept.
WrapLate(r) == IF SignedValue((b - r) % Modulus) < 0 THEN Modulus - 1 ELSE 0

\* The sign of b - rem - 1, spread over the word, says whether b fits.
Wrap(r) == IF SignedValue((b - r - 1) % Modulus) < 0 THEN Modulus - 1 ELSE 0

\* One turn of the loop: the next bit of the numerator goes to the remainder,
\* and the last quotient bit into the numerator.
DivBit ==
  /\ step = "loop" /\ bits > 0
  /\ LET r == (Shl(rem, 1) + Shr(a, Width - 1)) % Modulus
     IN /\ a' = Shl(a, 1) + (wrap % 2)
        /\ wrap' = Wrap(r)
        /\ rem' = IF Wrap(r) = 0 THEN r ELSE (r - b) % Modulus
  /\ bits' = bits - 1
  /\ UNCHANGED <<function, given, b, quotient, remainder, step>>

DivEnd ==
  /\ step = "loop" /\ bits = 0
  /\ quotient' = Shl(a, 1) + (wrap % 2)
  /\ remainder' = rem
  /\ step' = "done"
  /\ UNCHANGED <<function, given, a, b, bits, rem, wrap>>

\* What the function returns.
Returned ==
  CASE function = "__divdi3" ->
         LET differ == (SignedValue(given[1]) < 0) # (SignedValue(given[2]) < 0)
         IN IF differ THEN (-quotient) % Modulus ELSE quotient
    [] function = "__moddi3" -> arith64_neg(remainder, given[1])
    [] function = "__udivdi3" -> quotient
    [] function = "__umoddi3" -> remainder

DivNext == DivCall \/ DivBit \/ DivEnd

DivSpec == DivInit /\ [][DivNext]_divVars

(***************************************************************************)
(* Properties.                                                             *)
(***************************************************************************)

\* Division as C defines it: the quotient rounds towards 0.
Abs(n) == IF n < 0 THEN -n ELSE n
Sign(n) == IF n < 0 THEN -1 ELSE 1
Value(x) == IF function \in Signed THEN SignedValue(x) ELSE x

\* Every function returns what C says, for every pair of words, the quotient of
\* the least negative number by -1 wrapping around; the test of one sign bit
\* finds whether the divisor fits although differences of words have no sign.
DividesRight ==
  step = "done" =>
    LET n == Value(given[1])
        d == Value(given[2])
        q == Sign(n) * Sign(d) * (Abs(n) \div Abs(d))
    IN IF function \in {"__divdi3", "__udivdi3"}
         THEN Returned = q % Modulus
         ELSE Returned = (n - q * d) % Modulus

\* While it runs, the bits of the quotient found, the remainder and the bits of
\* the numerator to come are the numerator: the loop's invariant.
LoopInvariant ==
  step = "loop" =>
    LET turns == Bits(Arguments[1], b) - bits
        found == 2 * (a % 2^turns) + (wrap % 2)
        coming == Shr(a, Width - bits)
    IN /\ rem < b
       /\ (found * b + rem) * 2^bits + coming = Arguments[1]

\* The loop divides, and the functions return what it finds.
DivisionIsSound == DividesRight /\ LoopInvariant

=============================================================================
