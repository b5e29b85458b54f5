----------------------------- MODULE Arithmetic -----------------------------
(***************************************************************************)
(* The integer arithmetic of core/arithmetic.h, at any width.  A value of   *)
(* `w` bits is an integer in Ints(w); the casts to and from the unsigned    *)
(* type of that width are Unsigned and Signed.                              *)
(*                                                                         *)
(* Operations that may answer nothing, or that the language leaves          *)
(* undefined, answer an outcome: a value, None (an empty optional) or Trap  *)
(* (the process is stopped).                                                *)
(***************************************************************************)
EXTENDS Integers

MinInt(w) == -(2 ^ (w - 1))

Ints(w) == MinInt(w) .. 2 ^ (w - 1) - 1

Patterns(w) == 0 .. 2 ^ w - 1

(* What proofs use of exponentiation: the powers up to the n-th double.     *)
Doubling(n) == \A k \in 1 .. n : 2 ^ k = 2 * 2 ^ (k - 1)

Unsigned(w, x) == x % (2 ^ w)

Signed(w, p) == IF p < 2 ^ (w - 1) THEN p ELSE p - 2 ^ w

None     == [tag |-> "none"]
Trap     == [tag |-> "trap"]
Some(x)  == [tag |-> "some", v |-> x]

----------------------------------------------------------------------------
(* numeric_method: the operation on the unsigned types, cast back.          *)
Wrap(w, x) == Signed(w, Unsigned(w, x))

AddClamped(w, a, b) ==                \* a slip: the result kept in range
  CASE a + b < MinInt(w) -> MinInt(w)
    [] a + b > -MinInt(w) - 1 -> -MinInt(w) - 1
    [] OTHER -> a + b

AddSafe(w, a, b) == Wrap(w, Unsigned(w, a) + Unsigned(w, b))

SubSafe(w, a, b) == Wrap(w, Unsigned(w, a) - Unsigned(w, b))

MulSafe(w, a, b) == Wrap(w, Unsigned(w, a) * Unsigned(w, b))

(* integer_method, bit by bit.                                              *)
Bits(w, x) == {i \in 0 .. w - 1 : ((Unsigned(w, x) \div (2 ^ i)) % 2) = 1}

OfBits(w, bits) ==
  LET sum[n \in 0 .. w] ==
        IF n = 0 THEN 0 ELSE sum[n - 1] + (IF n - 1 \in bits THEN 2 ^ (n - 1) ELSE 0)
  IN  Signed(w, sum[w])

AndSafe(w, a, b) == OfBits(w, Bits(w, a) \cap Bits(w, b))

OrSafe(w, a, b) == OfBits(w, Bits(w, a) \cup Bits(w, b))

XorSafe(w, a, b) ==
  OfBits(w, (Bits(w, a) \cup Bits(w, b)) \ (Bits(w, a) \cap Bits(w, b)))

----------------------------------------------------------------------------
(* Shifts.  A count outside 0 .. w - 1 is undefined; the shift instructions *)
(* of the hardware take the count modulo the width.                         *)
Count(w, b) == Unsigned(w, b) % w

SllSafe(w, a, b) == Wrap(w, Unsigned(w, a) * 2 ^ Count(w, b))

SrlSafe(w, a, b) == Signed(w, Unsigned(w, a) \div (2 ^ Count(w, b)))

SraSafe(w, a, b) == a \div (2 ^ Count(w, b))

----------------------------------------------------------------------------
(* Division truncates towards zero.                                         *)
Magnitude(x) == IF x < 0 THEN -x ELSE x

Quotient(a, b) ==
  LET q == Magnitude(a) \div Magnitude(b)
  IN  IF (a < 0) = (b < 0) THEN q ELSE -q

Remainder(a, b) == a - b * Quotient(a, b)

(* The quotient of the least value by -1 is not representable: a trap.      *)
Overflows(w, a, b) == a = MinInt(w) /\ b = -1

DivSafeUnchecked(w, a, b) ==          \* a slip: no test of the divisor
  IF b = 0 \/ Overflows(w, a, b) THEN Trap ELSE Some(Quotient(a, b))

DivSafe(w, a, b) ==
  CASE b = 0 -> None
    [] b # 0 /\ Overflows(w, a, b) -> Trap
    [] OTHER -> Some(Quotient(a, b))

ModSafe(w, a, b) ==
  CASE b = 0 -> None
    [] b # 0 /\ Overflows(w, a, b) -> Trap
    [] OTHER -> Some(Remainder(a, b))
=============================================================================
