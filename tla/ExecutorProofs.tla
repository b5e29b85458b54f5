--------------------------- MODULE ExecutorProofs ---------------------------
(***************************************************************************)
(* Theorems about module Executor, for any code whose operands are slots of *)
(* its frames and whose branches lead to instructions, slots of any width,  *)
(* any limits of objects and frames.                                        *)
(*                                                                          *)
(* Control is what an instruction finds: typed frames, and an instruction   *)
(* where the pointer is.  A frame ends no sooner than its number says, so   *)
(* the stack holds no more frames than units.  World is what the heap and   *)
(* the static fields hold: arrays are shorter than half the numbers of a    *)
(* slot, so an index that passes the bounds test is not a negative one in   *)
(* disguise.  An invocation has depth 1 whatever it calls: a return ends it *)
(* and control never goes to the return address of a frame.                 *)
(*                                                                          *)
(* The first sections are about what it computes with, at any width:        *)
(* arithmetic modulo a power of two, and values packed into words.          *)
(***************************************************************************)
EXTENDS Executor, PureFunctions, WellFoundedInduction, TLAPS

Lower == {ss \in Nat \X Nat : ss[1] < ss[2]}

(* A set of naturals that is not empty has a least element: induction over  *)
(* an exponent is by the least one that fails.                              *)
LEMMA LeastElement ==
  ASSUME NEW S \in SUBSET Nat, S # {}
  PROVE  \E n \in S : \A k \in S : n <= k
<1>1. IsWellFoundedOn(Lower, Nat)
  BY NatLessThanWellFounded DEF OpToRel, Lower
<1>2. PICK n \in S : \A k \in Nat : <<k, n>> \in Lower => k \notin S
  BY <1>1, WFMin
<1>3. \A k \in S : ~(k < n)
  BY <1>2 DEF Lower
<1> QED
  BY <1>3

----------------------------------------------------------------------------
(* Powers of two.                                                           *)

(* As long as they double the powers are positive.                          *)
LEMMA PowersPositive ==
  ASSUME NEW w \in Nat, Doubling(w)
  PROVE  \A n \in 0 .. w : 2 ^ n \in Nat \ {0}
<1> DEFINE Bad == {n \in 0 .. w : 2 ^ n \notin Nat \ {0}}
<1>1. SUFFICES ASSUME Bad # {} PROVE FALSE
  OBVIOUS
<1>2. PICK n \in Bad : \A k \in Bad : n <= k
  <2>1. Bad \in SUBSET Nat
    OBVIOUS
  <2> HIDE DEF Bad
  <2> QED
    BY <1>1, <2>1, LeastElement
<1>3. n = 0 => 2 ^ n = 1
  <2>1. n = 0 => 2 ^ n = 2 ^ 0
    BY Zenon
  <2> QED
    BY <2>1
<1>4. n \in 1 .. w
  <2>1. n # 0
    BY <1>2, <1>3
  <2> QED
    BY <1>2, <2>1
<1>5. 2 ^ (n - 1) \in Nat \ {0}
  <2>1. n - 1 \in 0 .. w /\ ~(n <= n - 1)
    BY <1>4
  <2> QED
    BY <1>2, <2>1
<1>6. 2 ^ n = 2 * 2 ^ (n - 1)
  BY <1>4 DEF Doubling
<1>7. 2 ^ n \in Nat \ {0}
  BY <1>5, <1>6
<1> QED
  BY <1>2, <1>7

(* And turn sums into products.                                             *)
LEMMA PowersAdd ==
  ASSUME NEW w \in Nat, Doubling(w), NEW m \in 0 .. w, NEW i \in 0 .. w - m
  PROVE  2 ^ (m + i) = 2 ^ m * 2 ^ i
<1> DEFINE Bad == {n \in 0 .. w - m : 2 ^ (m + n) # 2 ^ m * 2 ^ n}
<1>1. SUFFICES ASSUME Bad # {} PROVE FALSE
  OBVIOUS
<1>2. PICK n \in Bad : \A k \in Bad : n <= k
  <2>1. Bad \in SUBSET Nat
    OBVIOUS
  <2> HIDE DEF Bad
  <2> QED
    BY <1>1, <2>1, LeastElement
<1>3. n \in 1 .. w - m
  <2>1. ASSUME n = 0 PROVE FALSE
    <3>1. 2 ^ n = 2 ^ 0 /\ 2 ^ (m + n) = 2 ^ (m + 0)
      BY <2>1, Zenon
    <3>2. 2 ^ n = 1
      BY <3>1
    <3>3. 2 ^ (m + n) = 2 ^ m
      BY <3>1
    <3>4. 2 ^ m \in Nat
      BY PowersPositive
    <3> QED
      BY <1>2, <3>2, <3>3, <3>4
  <2>2. n # 0
    BY <2>1
  <2> QED
    BY <1>2, <2>2
<1>4. 2 ^ (m + (n - 1)) = 2 ^ m * 2 ^ (n - 1)
  <2>1. n - 1 \in 0 .. w - m /\ ~(n <= n - 1)
    BY <1>3
  <2> QED
    BY <1>2, <2>1
<1>5. 2 ^ n = 2 * 2 ^ (n - 1)
  <2>1. n \in 1 .. w
    BY <1>3
  <2> QED
    BY <2>1 DEF Doubling
<1>6. 2 ^ (m + n) = 2 * 2 ^ (m + (n - 1))
  <2>1. m + n \in 1 .. w /\ (m + n) - 1 = m + (n - 1)
    BY <1>3
  <2> QED
    BY <2>1 DEF Doubling
<1>7. 2 ^ (m + n) = 2 ^ m * 2 ^ n
  <2>1. PICK a \in Nat : a = 2 ^ m
    BY PowersPositive
  <2>2. n - 1 \in 0 .. w
    BY <1>3
  <2>3. PICK b \in Nat : b = 2 ^ (n - 1)
    BY <2>2, PowersPositive
  <2>4. 2 * (a * b) = a * (2 * b)
    OBVIOUS
  <2> QED
    BY <1>4, <1>5, <1>6, <2>1, <2>3, <2>4
<1> QED
  BY <1>2, <1>7

(* And outgrow their exponents.                                             *)
LEMMA PowersOutgrow ==
  ASSUME NEW w \in Nat, Doubling(w)
  PROVE  \A n \in 0 .. w : n < 2 ^ n
<1> DEFINE Bad == {n \in 0 .. w : ~(n < 2 ^ n)}
<1>1. SUFFICES ASSUME Bad # {} PROVE FALSE
  OBVIOUS
<1>2. PICK n \in Bad : \A k \in Bad : n <= k
  <2>1. Bad \in SUBSET Nat
    OBVIOUS
  <2> HIDE DEF Bad
  <2> QED
    BY <1>1, <2>1, LeastElement
<1>3. n \in 1 .. w
  <2>1. ASSUME n = 0 PROVE FALSE
    <3>1. 2 ^ n = 2 ^ 0
      BY <2>1, Zenon
    <3> QED
      BY <1>2, <2>1, <3>1
  <2> QED
    BY <1>2, <2>1
<1>4. n - 1 < 2 ^ (n - 1) /\ 2 ^ (n - 1) \in Nat
  <2>1. n - 1 \in 0 .. w /\ ~(n <= n - 1)
    BY <1>3
  <2>2. n - 1 < 2 ^ (n - 1)
    BY <1>2, <2>1
  <2> QED
    BY <2>1, <2>2, PowersPositive
<1>5. 2 ^ n = 2 * 2 ^ (n - 1)
  BY <1>3 DEF Doubling
<1>6. n < 2 ^ n
  BY <1>3, <1>4, <1>5
<1> QED
  BY <1>2, <1>6

(* A natural quotient, and how large it may be.                             *)
LEMMA NaturalQuotient ==
  ASSUME NEW A \in Nat, NEW B \in Nat \ {0}
  PROVE  \E q \in Nat : \E r \in 0 .. B - 1 :
           /\ q = A \div B /\ A = B * q + r /\ q <= A
           /\ q = A => (A = 0 \/ B = 1)
<1>1. PICK q \in Nat, r \in 0 .. B - 1 : q = A \div B /\ A = B * q + r
  <2>1. A = B * (A \div B) + (A % B) /\ A \div B \in Nat /\ A % B \in 0 .. B - 1
    OBVIOUS
  <2> QED
    BY <2>1
<1>2. PICK z \in Nat : B = z + 1
  <2>1. B - 1 \in Nat /\ B = (B - 1) + 1
    OBVIOUS
  <2> QED
    BY <2>1
<1>3. B * q = z * q + q /\ z * q \in Nat
  <2>1. (z + 1) * q = z * q + q /\ z * q \in Nat
    OBVIOUS
  <2> QED
    BY <1>2, <2>1
<1>4. q <= A
  BY <1>1, <1>3
<1>5. ASSUME q = A, A # 0 PROVE B = 1
  <2>1. z * q = 0
    BY <1>1, <1>3, <1>5
  <2>2. q # 0
    BY <1>5
  <2>3. z = 0
    BY <2>1, <2>2
  <2> QED
    BY <1>2, <2>3
<1> QED
  BY <1>1, <1>4, <1>5

(* Quotient and remainder of integers of any signs.                         *)
LEMMA TruncatedDivision ==
  ASSUME NEW a \in Int, NEW b \in Int, b # 0
  PROVE  /\ Quotient(a, b) \in Int /\ Remainder(a, b) \in Int
         /\ Quotient(a, b) * b + Remainder(a, b) = a
         /\ Magnitude(Remainder(a, b)) < Magnitude(b)
         /\ Remainder(a, b) # 0 => ((Remainder(a, b) < 0) <=> (a < 0))
         /\ Magnitude(Quotient(a, b)) <= Magnitude(a)
         /\ Magnitude(Quotient(a, b)) = Magnitude(a) => a = 0 \/ b = 1 \/ b = -1
         /\ (a < 0) # (b < 0) => Quotient(a, b) <= 0
<1>1. PICK A \in Nat, B \in Nat \ {0} : A = Magnitude(a) /\ B = Magnitude(b)
  BY DEF Magnitude
<1>2. PICK q \in Nat : \E r \in 0 .. B - 1 :
        /\ q = A \div B /\ A = B * q + r /\ q <= A
        /\ q = A => (A = 0 \/ B = 1)
  BY NaturalQuotient
<1>3. PICK r \in 0 .. B - 1 :
        /\ q = A \div B /\ A = B * q + r /\ q <= A
        /\ q = A => (A = 0 \/ B = 1)
  BY <1>2
<1>4. PICK p \in Nat : p = B * q
  OBVIOUS
<1>5. q * B = p /\ (-q) * B = -p /\ q * (-B) = -p /\ (-q) * (-B) = p
  BY <1>4
<1>6. \A x, y \in Int : x * y = y * x
  OBVIOUS
<1>7. Quotient(a, b) = IF (a < 0) = (b < 0) THEN q ELSE -q
  BY <1>1, <1>3 DEF Quotient
<1>8. Quotient(a, b) \in Int /\ Remainder(a, b) = a - Quotient(a, b) * b
  BY <1>6, <1>7 DEF Remainder
<1>9. A = p + r
  BY <1>3, <1>4
<1>10. q <= A /\ (q = A => (A = 0 \/ B = 1)) /\ r \in Nat /\ r < B
  BY <1>3
<1>11. CASE a >= 0 /\ b > 0
  <2>1. a = A /\ b = B
    BY <1>1, <1>11 DEF Magnitude
  <2>2. Quotient(a, b) = q /\ Remainder(a, b) = r
    BY <1>5, <1>7, <1>8, <1>9, <1>11, <2>1
  <2> QED
    BY <1>5, <1>9, <1>10, <1>11, <2>1, <2>2 DEF Magnitude
<1>12. CASE a >= 0 /\ b < 0
  <2>1. a = A /\ b = -B
    BY <1>1, <1>12 DEF Magnitude
  <2>2. Quotient(a, b) = -q /\ Remainder(a, b) = r
    BY <1>5, <1>7, <1>8, <1>9, <1>12, <2>1
  <2> QED
    BY <1>5, <1>9, <1>10, <1>12, <2>1, <2>2 DEF Magnitude
<1>13. CASE a < 0 /\ b > 0
  <2>1. a = -A /\ b = B
    BY <1>1, <1>13 DEF Magnitude
  <2>2. Quotient(a, b) = -q /\ Remainder(a, b) = -r
    BY <1>5, <1>7, <1>8, <1>9, <1>13, <2>1
  <2> QED
    BY <1>5, <1>9, <1>10, <1>13, <2>1, <2>2 DEF Magnitude
<1>14. CASE a < 0 /\ b < 0
  <2>1. a = -A /\ b = -B
    BY <1>1, <1>14 DEF Magnitude
  <2>2. Quotient(a, b) = q /\ Remainder(a, b) = -r
    BY <1>5, <1>7, <1>8, <1>9, <1>14, <2>1
  <2> QED
    BY <1>5, <1>9, <1>10, <1>14, <2>1, <2>2 DEF Magnitude
<1> QED
  BY <1>11, <1>12, <1>13, <1>14

(* A word of operands is at least two bits wide.                            *)
LEMMA OperandsGiven ==
  ASSUME NEW w \in OperandWidths
  PROVE  /\ w \in Nat \ {0, 1} /\ Doubling(w)
         /\ \E h \in Nat \ {0} : h = 2 ^ (w - 1) /\ 2 ^ w = 2 * h /\ Ints(w) = -h .. h - 1
                                 /\ MinInt(w) = -h
<1>1. w \in Nat \ {0, 1} /\ Doubling(w)
  BY InputsAssumption, ExponentsAssumption
<1>2. w - 1 \in 0 .. w /\ w \in 1 .. w
  BY <1>1
<1>3. PICK h \in Nat \ {0} : h = 2 ^ (w - 1)
  BY <1>1, <1>2, PowersPositive
<1>4. 2 ^ w = 2 * 2 ^ (w - 1)
  BY <1>1, <1>2 DEF Doubling
<1> QED
  BY <1>1, <1>3, <1>4 DEF Ints, MinInt

(* A quotient that is answered is representable.                            *)
LEMMA QuotientFits ==
  ASSUME NEW w \in OperandWidths, NEW a \in Ints(w), NEW b \in Ints(w), b # 0,
         ~Overflows(w, a, b)
  PROVE  Quotient(a, b) \in Ints(w)
<1>1. PICK h \in Nat \ {0} : Ints(w) = -h .. h - 1 /\ MinInt(w) = -h
  BY OperandsGiven
<1>2. a \in Int /\ b \in Int /\ a \in -h .. h - 1 /\ b \in -h .. h - 1
  BY <1>1
<1>3. PICK q \in Int : q = Quotient(a, b)
  BY <1>2, TruncatedDivision
<1>4. /\ Magnitude(q) <= Magnitude(a)
      /\ Magnitude(q) = Magnitude(a) => a = 0 \/ b = 1 \/ b = -1
      /\ (a < 0) # (b < 0) => q <= 0
  BY <1>2, <1>3, TruncatedDivision
<1>5. ~(a = -h /\ b = -1)
  BY <1>1 DEF Overflows
<1>6. Magnitude(a) <= h
  BY <1>2 DEF Magnitude
<1>7. -h <= q /\ q <= h
  BY <1>4, <1>6, <1>2 DEF Magnitude
<1>8. ASSUME q = h PROVE FALSE
  <2>1. Magnitude(q) = h /\ Magnitude(a) = h
    BY <1>2, <1>4, <1>6, <1>8 DEF Magnitude
  <2>2. a = -h
    BY <1>2, <2>1 DEF Magnitude
  <2>3. b = 1
    BY <1>4, <1>5, <2>1, <2>2
  <2>4. q <= 0
    BY <1>4, <2>2, <2>3
  <2> QED
    BY <1>8, <2>4
<1> QED
  BY <1>1, <1>3, <1>7, <1>8

(* Operands are of a width in use, and representable.                       *)
LEMMA OperandInputs ==
  InputSpec => [](input.kind = "operands" =>
                    /\ input.width \in OperandWidths
                    /\ input.a \in Ints(input.width) /\ input.b \in Ints(input.width))
<1> DEFINE Given == input.kind = "operands" =>
                      /\ input.width \in OperandWidths
                      /\ input.a \in Ints(input.width) /\ input.b \in Ints(input.width)
<1>1. NoInput => Given
  BY DEF NoInput
<1>2. Given /\ [SomeInput]_input => Given'
  BY DEF SomeInput, Binary, Word, Array, ArgTypes, Pair, File, Search
<1> QED
  BY <1>1, <1>2, PTL DEF InputSpec

(* At every width, div_safe and mod_safe fail together and for a zero       *)
(* divisor alone, and otherwise fit together: the dividend comes back, the  *)
(* remainder is smaller than the divisor and has the dividend's sign, and   *)
(* the quotient is representable.                                           *)
THEOREM DivisionFitsTogether == InputSpec => []DivisionIdentity
<1>1. ASSUME NEW w \in OperandWidths, NEW a \in Ints(w), NEW b \in Ints(w)
      PROVE  LET d == DivSafe(w, a, b)
                 m == ModSafe(w, a, b)
             IN  /\ d.tag = m.tag
                 /\ (d.tag = "none") <=> (b = 0)
                 /\ d.tag = "some" =>
                      /\ d.v \in Ints(w)
                      /\ d.v * b + m.v = a
                      /\ Magnitude(m.v) < Magnitude(b)
                      /\ m.v # 0 => ((m.v < 0) <=> (a < 0))
  <2>1. a \in Int /\ b \in Int
    BY OperandsGiven
  <2>2. CASE b = 0
    BY <2>2 DEF DivSafe, ModSafe, None
  <2>3. CASE b # 0 /\ Overflows(w, a, b)
    BY <2>3 DEF DivSafe, ModSafe, Trap
  <2>4. CASE b # 0 /\ ~Overflows(w, a, b)
    <3>1. DivSafe(w, a, b) = [tag |-> "some", v |-> Quotient(a, b)]
      BY <2>4 DEF DivSafe, Some
    <3>2. ModSafe(w, a, b) = [tag |-> "some", v |-> Remainder(a, b)]
      BY <2>4 DEF ModSafe, Some
    <3>3. Quotient(a, b) \in Ints(w)
      BY <2>4, QuotientFits
    <3>4. /\ Quotient(a, b) * b + Remainder(a, b) = a
          /\ Magnitude(Remainder(a, b)) < Magnitude(b)
          /\ Remainder(a, b) # 0 => ((Remainder(a, b) < 0) <=> (a < 0))
      BY <2>1, <2>4, TruncatedDivision
    <3> QED
      BY <2>4, <3>1, <3>2, <3>3, <3>4
  <2> QED
    BY <2>2, <2>3, <2>4
<1>2. (input.kind = "operands" =>
         /\ input.width \in OperandWidths
         /\ input.a \in Ints(input.width) /\ input.b \in Ints(input.width)) => DivisionIdentity
  <2> SUFFICES ASSUME input.kind = "operands",
                      input.width \in OperandWidths,
                      input.a \in Ints(input.width), input.b \in Ints(input.width)
               PROVE  DivisionIdentity
    BY DEF DivisionIdentity
  <2> QED
    BY <1>1, Zenon DEF DivisionIdentity
<1> QED
  BY <1>2, OperandInputs, PTL

----------------------------------------------------------------------------
(* Numbers modulo a power of two.                                           *)

(* Induction over 0 .. w, for a set that holds 0 and the successors of its  *)
(* elements.                                                                *)
LEMMA UpTo ==
  ASSUME NEW w \in Nat, NEW S, 0 \in S, \A n \in 1 .. w : n - 1 \in S => n \in S
  PROVE  \A n \in 0 .. w : n \in S
<1> DEFINE Bad == {n \in 0 .. w : n \notin S}
<1>1. SUFFICES ASSUME Bad # {} PROVE FALSE
  OBVIOUS
<1>2. PICK n \in Bad : \A k \in Bad : n <= k
  <2>1. Bad \in SUBSET Nat
    OBVIOUS
  <2> HIDE DEF Bad
  <2> QED
    BY <1>1, <2>1, LeastElement
<1>3. n \in 1 .. w /\ n \notin S
  <2>1. n \in 0 .. w /\ n # 0
    OBVIOUS
  <2> QED
    BY <2>1
<1>4. n - 1 \in S
  <2>1. n - 1 \in 0 .. w /\ ~(n <= n - 1)
    BY <1>3
  <2> QED
    BY <1>2, <2>1
<1> QED
  BY <1>3, <1>4

(* Quotient and remainder of a positive divisor are unique.                 *)
LEMMA DivisionUnique ==
  ASSUME NEW m \in Nat \ {0}, NEW q \in Int, NEW r \in 0 .. m - 1
  PROVE  (m * q + r) \div m = q /\ (m * q + r) % m = r
<1>1. PICK x \in Int : x = m * q + r
  <2>1. m * q + r \in Int
    OBVIOUS
  <2> QED
    BY <2>1
<1>2. x = m * (x \div m) + (x % m) /\ x \div m \in Int /\ x % m \in 0 .. m - 1
  OBVIOUS
<1>3. PICK Q \in Int, R \in 0 .. m - 1 : Q = x \div m /\ R = x % m
  BY <1>2
<1>4. m * q + r = m * Q + R
  BY <1>1, <1>2, <1>3
<1>5. ASSUME NEW s \in Int, NEW t \in Int, s > t PROVE m * s >= m * t + m
  <2>1. PICK z \in Nat : s = t + 1 + z
    <3>1. s - t - 1 \in Nat /\ s = t + 1 + (s - t - 1)
      BY <1>5
    <3> QED
      BY <3>1
  <2>2. m * (t + 1 + z) = m * t + m + m * z /\ m * z \in Nat /\ m * t \in Int
    OBVIOUS
  <2> QED
    BY <2>1, <2>2
<1>6. m * q \in Int /\ m * Q \in Int
  OBVIOUS
<1>7. PICK u \in Int, v \in Int : u = m * q /\ v = m * Q
  BY <1>6
<1>8. ~(q > Q) /\ ~(Q > q)
  <2>1. q > Q => u >= v + m
    BY <1>5, <1>7
  <2>2. Q > q => v >= u + m
    BY <1>5, <1>7
  <2>3. u + r = v + R
    BY <1>4, <1>7
  <2> QED
    BY <2>1, <2>2, <2>3
<1>9. q = Q
  BY <1>8
<1>10. r = R
  <2>1. u + r = u + R
    BY <1>4, <1>7, <1>9
  <2> QED
    BY <2>1
<1> QED
  BY <1>1, <1>3, <1>9, <1>10

(* Two numbers a multiple of m apart.                                       *)
Near(m, x, y) == \E k \in Int : x = y + m * k

(* Their difference leaves no remainder.                                    *)
LEMMA NearIsCongruent ==
  ASSUME NEW w, 2 ^ w \in Nat \ {0}, NEW x \in Int, NEW y \in Int, Near(2 ^ w, x, y)
  PROVE  Congruent(w, x, y)
<1>1. PICK m \in Nat \ {0} : m = 2 ^ w
  OBVIOUS
<1>2. PICK k \in Int : x = y + m * k
  BY <1>1 DEF Near
<1>3. m * k \in Int
  OBVIOUS
<1>4. x - y = m * k + 0
  BY <1>2, <1>3
<1>5. (m * k + 0) % m = 0
  <2>1. 0 \in 0 .. m - 1
    OBVIOUS
  <2> QED
    BY <2>1, DivisionUnique
<1> QED
  BY <1>1, <1>4, <1>5 DEF Congruent

(* Sums, differences and products of numbers that are near are near, and    *)
(* being near is an equivalence.                                            *)
LEMMA NearArithmetic ==
  ASSUME NEW m \in Nat, NEW x \in Int, NEW y \in Int, NEW u \in Int, NEW v \in Int,
         Near(m, x, u), Near(m, y, v)
  PROVE  /\ Near(m, x + y, u + v) /\ Near(m, x - y, u - v) /\ Near(m, x * y, u * v)
<1>1. PICK k \in Int : x = u + m * k
  BY DEF Near
<1>2. PICK l \in Int : y = v + m * l
  BY DEF Near
<1>3. PICK mk \in Int, ml \in Int : mk = m * k /\ ml = m * l
  OBVIOUS
<1>4. Near(m, x + y, u + v)
  <2>1. m * (k + l) = mk + ml
    BY <1>3
  <2>2. x + y = (u + v) + m * (k + l) /\ k + l \in Int
    BY <1>1, <1>2, <1>3, <2>1
  <2> QED
    BY <2>2 DEF Near
<1>5. Near(m, x - y, u - v)
  <2>1. m * (k - l) = mk - ml
    BY <1>3
  <2>2. x - y = (u - v) + m * (k - l) /\ k - l \in Int
    BY <1>1, <1>2, <1>3, <2>1
  <2> QED
    BY <2>2 DEF Near
<1>6. Near(m, x * y, u * v)
  <2>1. (u + mk) * (v + ml) = u * v + (u * ml + mk * v + mk * ml)
    OBVIOUS
  <2>2. u * (m * l) = m * (u * l) /\ (m * k) * v = m * (k * v) /\ (m * k) * (m * l) = m * (k * (m * l))
    OBVIOUS
  <2>3. PICK p \in Int, q \in Int, r \in Int : p = u * l /\ q = k * v /\ r = k * (m * l)
    OBVIOUS
  <2>4. m * p + m * q + m * r = m * (p + q + r) /\ p + q + r \in Int
    OBVIOUS
  <2>5. u * ml + mk * v + mk * ml = m * (p + q + r)
    BY <1>3, <2>2, <2>3, <2>4
  <2>6. x * y = u * v + m * (p + q + r)
    BY <1>1, <1>2, <1>3, <2>1, <2>5
  <2> QED
    BY <2>4, <2>6 DEF Near
<1> QED
  BY <1>4, <1>5, <1>6

(* Nearness goes back and forth, and on.                                    *)
LEMMA NearIsEquivalence ==
  ASSUME NEW m \in Nat, NEW x \in Int, NEW y \in Int, NEW z \in Int
  PROVE  Near(m, x, x) /\ (Near(m, x, y) => Near(m, y, x))
         /\ (Near(m, x, y) /\ Near(m, y, z) => Near(m, x, z))
<1>1. Near(m, x, x)
  <2>1. x = x + m * 0 /\ 0 \in Int
    OBVIOUS
  <2> QED
    BY <2>1 DEF Near
<1>2. ASSUME Near(m, x, y) PROVE Near(m, y, x)
  <2>1. PICK k \in Int : x = y + m * k
    BY <1>2 DEF Near
  <2>2. m * (-k) = -(m * k) /\ -k \in Int /\ m * k \in Int
    OBVIOUS
  <2>3. y = x + m * (-k)
    BY <2>1, <2>2
  <2> QED
    BY <2>2, <2>3 DEF Near
<1>3. ASSUME Near(m, x, y), Near(m, y, z) PROVE Near(m, x, z)
  <2>1. PICK k \in Int : x = y + m * k
    BY <1>3 DEF Near
  <2>2. PICK l \in Int : y = z + m * l
    BY <1>3 DEF Near
  <2>3. m * (k + l) = m * k + m * l /\ m * k \in Int /\ m * l \in Int /\ k + l \in Int
    OBVIOUS
  <2>4. x = z + m * (k + l)
    BY <2>1, <2>2, <2>3
  <2> QED
    BY <2>3, <2>4 DEF Near
<1> QED
  BY <1>1, <1>2, <1>3

(* The casts keep a number near, and are each other's inverse.              *)
LEMMA CastsNear ==
  ASSUME NEW w \in OperandWidths, NEW x \in Int
  PROVE  /\ Unsigned(w, x) \in 0 .. 2 ^ w - 1 /\ Unsigned(w, x) \in Int
         /\ Near(2 ^ w, Unsigned(w, x), x)
         /\ Signed(w, x) \in Int /\ Near(2 ^ w, Signed(w, x), x)
         /\ x \in 0 .. 2 ^ w - 1 => /\ Unsigned(w, x) = x /\ Signed(w, x) \in Ints(w)
                                    /\ Unsigned(w, Signed(w, x)) = x
         /\ Wrap(w, x) \in Ints(w) /\ Wrap(w, x) \in Int /\ Near(2 ^ w, Wrap(w, x), x)
<1>1. PICK h \in Nat \ {0} : h = 2 ^ (w - 1) /\ 2 ^ w = 2 * h /\ Ints(w) = -h .. h - 1
  BY OperandsGiven
<1>2. PICK m \in Nat \ {0} : m = 2 ^ w /\ m = 2 * h
  BY <1>1
<1>3. ASSUME NEW y \in Int
      PROVE  Unsigned(w, y) \in 0 .. m - 1 /\ Near(m, Unsigned(w, y), y)
  <2>1. y = m * (y \div m) + (y % m) /\ y \div m \in Int /\ y % m \in 0 .. m - 1
    OBVIOUS
  <2>2. PICK q \in Int, r \in 0 .. m - 1 : q = y \div m /\ r = y % m
    BY <2>1
  <2>3. m * (-q) = -(m * q) /\ m * q \in Int /\ -q \in Int
    OBVIOUS
  <2>4. r = y + m * (-q)
    BY <2>1, <2>2, <2>3
  <2> QED
    BY <1>2, <2>2, <2>3, <2>4 DEF Unsigned, Near
<1>4. \A y \in Int : Signed(w, y) = IF y < h THEN y ELSE y - m
  BY <1>1, <1>2 DEF Signed
<1>5. ASSUME NEW y \in Int
      PROVE  Signed(w, y) \in Int /\ Near(m, Signed(w, y), y)
  <2>1. m * 0 = 0 /\ m * (-1) = -m /\ 0 \in Int /\ -1 \in Int
    OBVIOUS
  <2>2. Signed(w, y) = y + m * 0 \/ Signed(w, y) = y + m * (-1)
    BY <1>4, <2>1
  <2>3. Signed(w, y) \in Int
    BY <1>1, <1>4
  <2>4. \E k \in Int : Signed(w, y) = y + m * k
    BY <2>1, <2>2
  <2> QED
    BY <2>3, <2>4 DEF Near
<1>6. ASSUME NEW y \in 0 .. m - 1
      PROVE  Unsigned(w, y) = y /\ Signed(w, y) \in -h .. h - 1 /\ Unsigned(w, Signed(w, y)) = y
  <2>1. m * 0 + y = y /\ m * (-1) + y = y - m
    OBVIOUS
  <2>2. y % m = y /\ (y - m) % m = y
    <3>1. ASSUME NEW k \in Int PROVE (m * k + y) % m = y
      BY DivisionUnique
    <3>2. (m * 0 + y) % m = y /\ (m * (-1) + y) % m = y
      BY <3>1
    <3> QED
      BY <2>1, <3>2
  <2>3. Signed(w, y) = IF y < h THEN y ELSE y - m
    BY <1>4
  <2>4. \A k \in Int : Unsigned(w, k) = k % m
    BY <1>2 DEF Unsigned
  <2>5. Signed(w, y) = y \/ Signed(w, y) = y - m
    BY <2>3
  <2>6. Unsigned(w, Signed(w, y)) = y
    BY <2>2, <2>4, <2>5
  <2>7. Signed(w, y) \in -h .. h - 1
    BY <1>2, <2>3
  <2> QED
    BY <2>2, <2>4, <2>6, <2>7
<1>7. Unsigned(w, x) \in 0 .. m - 1 /\ Unsigned(w, x) \in Int
  BY <1>3
<1>8. Wrap(w, x) \in Ints(w) /\ Wrap(w, x) \in Int /\ Near(m, Wrap(w, x), x)
  <2>1. Wrap(w, x) \in -h .. h - 1
    BY <1>6, <1>7 DEF Wrap
  <2>2. Near(m, Wrap(w, x), Unsigned(w, x)) /\ Wrap(w, x) \in Int
    BY <1>5, <1>7 DEF Wrap
  <2>3. Near(m, Wrap(w, x), x)
    BY <1>3, <1>7, <2>2, NearIsEquivalence
  <2> QED
    BY <1>1, <2>1, <2>2, <2>3
<1> QED
  BY <1>1, <1>2, <1>3, <1>5, <1>6, <1>7, <1>8

(* What add_safe, sub_safe and mul_safe compute on unsigned types is        *)
(* congruent to the sum, the difference and the product of the operands.    *)
LEMMA RingHolds ==
  ASSUME NEW w \in OperandWidths, NEW a \in Ints(w), NEW b \in Ints(w)
  PROVE  RingOperations(w, a, b)
<1>1. PICK m \in Nat \ {0} : m = 2 ^ w
  BY OperandsGiven
<1>2. a \in Int /\ b \in Int
  BY OperandsGiven
<1>3. PICK x \in Int, y \in Int : x = Unsigned(w, a) /\ y = Unsigned(w, b)
  BY <1>2, CastsNear
<1>4. Near(m, x, a) /\ Near(m, y, b)
  BY <1>1, <1>2, <1>3, CastsNear
<1>5. /\ Near(m, x + y, a + b) /\ Near(m, x - y, a - b) /\ Near(m, x * y, a * b)
  BY <1>2, <1>4, NearArithmetic
<1>6. ASSUME NEW s \in Int, NEW t \in Int, Near(m, s, t)
      PROVE  Wrap(w, s) \in Ints(w) /\ Congruent(w, Wrap(w, s), t)
  <2>1. Wrap(w, s) \in Ints(w) /\ Wrap(w, s) \in Int /\ Near(m, Wrap(w, s), s)
    BY <1>1, CastsNear
  <2>2. Near(m, Wrap(w, s), t)
    BY <1>6, <2>1, NearIsEquivalence
  <2> QED
    BY <1>1, <2>1, <2>2, NearIsCongruent
<1>7. x + y \in Int /\ x - y \in Int /\ x * y \in Int /\ a + b \in Int /\ a - b \in Int /\ a * b \in Int
  BY <1>2
<1>8. /\ AddSafe(w, a, b) = Wrap(w, x + y) /\ SubSafe(w, a, b) = Wrap(w, x - y)
      /\ MulSafe(w, a, b) = Wrap(w, x * y)
  BY <1>3 DEF AddSafe, SubSafe, MulSafe
<1>9. Wrap(w, x + y) \in Ints(w) /\ Congruent(w, Wrap(w, x + y), a + b)
  BY <1>5, <1>6, <1>7
<1>10. Wrap(w, x - y) \in Ints(w) /\ Congruent(w, Wrap(w, x - y), a - b)
  BY <1>5, <1>6, <1>7
<1>11. Wrap(w, x * y) \in Ints(w) /\ Congruent(w, Wrap(w, x * y), a * b)
  BY <1>5, <1>6, <1>7
<1> QED
  BY <1>8, <1>9, <1>10, <1>11, Zenon DEF RingOperations

----------------------------------------------------------------------------
(* Shifts and logical operations.                                           *)

(* A quotient by one factor is below the other.                             *)
LEMMA QuotientBelow ==
  ASSUME NEW c \in Nat \ {0}, NEW e \in Nat, NEW u \in Nat, u < c * e
  PROVE  u \div c \in 0 .. e - 1
<1>1. u = c * (u \div c) + (u % c) /\ u \div c \in Int /\ u % c \in 0 .. c - 1
  OBVIOUS
<1>2. PICK q \in Int, r \in 0 .. c - 1 : q = u \div c /\ r = u % c
  BY <1>1
<1>3. u = c * q + r
  BY <1>1, <1>2
<1>4. ASSUME q >= e PROVE FALSE
  <2>1. PICK z \in Nat : q = e + z
    <3>1. q - e \in Nat /\ q = e + (q - e)
      BY <1>4
    <3> QED
      BY <3>1
  <2>2. c * (e + z) = c * e + c * z /\ c * z \in Nat /\ c * e \in Nat
    OBVIOUS
  <2> QED
    BY <1>3, <2>1, <2>2
<1>5. ASSUME q < 0 PROVE FALSE
  <2>1. PICK z \in Nat : q = -1 - z
    <3>1. -1 - q \in Nat /\ q = -1 - (-1 - q)
      BY <1>5
    <3> QED
      BY <3>1
  <2>2. c * (-1 - z) = -c - c * z /\ c * z \in Nat
    OBVIOUS
  <2> QED
    BY <1>3, <2>1, <2>2
<1> QED
  BY <1>2, <1>4, <1>5

(* A count within the width is taken as it is.                              *)
LEMMA CountsWithin ==
  ASSUME NEW w \in OperandWidths, NEW b \in 0 .. w - 1
  PROVE  Count(w, b) = b
<1>1. w \in Nat \ {0, 1} /\ Doubling(w)
  BY OperandsGiven
<1>2. w < 2 ^ w /\ 2 ^ w \in Nat
  <2>1. w \in 0 .. w
    BY <1>1
  <2> QED
    BY <1>1, <2>1, PowersOutgrow, PowersPositive
<1>3. b \in Int /\ b \in 0 .. 2 ^ w - 1
  BY <1>1, <1>2
<1>4. Unsigned(w, b) = b
  BY <1>3, CastsNear
<1>5. b % w = b
  BY <1>1
<1> QED
  BY <1>4, <1>5 DEF Count

(* A power is the product of those of two exponents it is the sum of.       *)
LEMMA PowersSplit ==
  ASSUME NEW w \in Nat, Doubling(w), NEW n \in 0 .. w, NEW b \in 0 .. n
  PROVE  2 ^ b * 2 ^ (n - b) = 2 ^ n
<1>1. b \in 0 .. w /\ n - b \in 0 .. w - b /\ b + (n - b) = n
  OBVIOUS
<1>2. 2 ^ (b + (n - b)) = 2 ^ b * 2 ^ (n - b)
  BY <1>1, PowersAdd
<1> QED
  BY <1>1, <1>2

(* sra_safe, srl_safe and sll_safe, for any count within the width.         *)
LEMMA ShiftsHold ==
  ASSUME NEW w \in OperandWidths, NEW a \in Ints(w), NEW b \in 0 .. w - 1
  PROVE  /\ SraSafe(w, a, b) * (2 ^ b) \in a - 2 ^ b + 1 .. a
         /\ Unsigned(w, SrlSafe(w, a, b)) < 2 ^ (w - b)
         /\ (a \in 0 .. 2 ^ (w - 1 - b) - 1) =>
              SraSafe(w, SllSafe(w, a, b), b) = a
<1>1. w \in Nat \ {0, 1} /\ Doubling(w) /\ a \in Int
  BY OperandsGiven
<1>2. PICK h \in Nat \ {0} : h = 2 ^ (w - 1) /\ 2 ^ w = 2 * h
  BY OperandsGiven
<1>3. b \in 0 .. w /\ w - b \in 0 .. w /\ w - 1 - b \in 0 .. w /\ w \in 0 .. w
      /\ w - 1 \in 0 .. w /\ b \in 0 .. w - 1 /\ (w - 1) - b = w - 1 - b
  BY <1>1
<1>4. PICK c \in Nat \ {0}, e \in Nat \ {0}, d \in Nat \ {0} :
        c = 2 ^ b /\ e = 2 ^ (w - b) /\ d = 2 ^ (w - 1 - b)
  BY <1>1, <1>3, PowersPositive
<1>5. c * e = 2 ^ w
  BY <1>1, <1>3, <1>4, PowersSplit
<1>6. c * d = h
  <2>1. 2 ^ b * 2 ^ ((w - 1) - b) = 2 ^ (w - 1)
    BY <1>1, <1>3, PowersSplit
  <2> QED
    BY <1>2, <1>3, <1>4, <2>1
<1>7. Count(w, b) = b
  BY CountsWithin
<1>8. \A x \in Int : SraSafe(w, x, b) = x \div c
  BY <1>4, <1>7 DEF SraSafe
<1>9. (a \div c) * c \in a - c + 1 .. a
  <2>1. a = c * (a \div c) + (a % c) /\ a \div c \in Int /\ a % c \in 0 .. c - 1
    BY <1>1
  <2>2. PICK q \in Int, r \in 0 .. c - 1 : q = a \div c /\ r = a % c
    BY <2>1
  <2>3. PICK p \in Int : p = c * q /\ p = q * c
    OBVIOUS
  <2>4. a = p + r
    BY <2>1, <2>2, <2>3
  <2>5. p \in a - c + 1 .. a
    BY <1>1, <2>4
  <2> QED
    BY <2>2, <2>3, <2>5
<1>10. Unsigned(w, SrlSafe(w, a, b)) < e
  <2>1. PICK u \in Nat : u = Unsigned(w, a) /\ u < 2 ^ w
    <3>1. Unsigned(w, a) \in 0 .. 2 ^ w - 1
      BY <1>1, CastsNear
    <3> QED
      BY <1>2, <3>1
  <2>2. PICK p \in 0 .. e - 1 : p = u \div c
    BY <1>5, <2>1, QuotientBelow
  <2>3. e <= c * e
    <3>1. PICK z \in Nat : c = 1 + z
      <4>1. c - 1 \in Nat /\ c = 1 + (c - 1)
        OBVIOUS
      <4> QED
        BY <4>1
    <3>2. (1 + z) * e = e + z * e /\ z * e \in Nat
      OBVIOUS
    <3> QED
      BY <3>1, <3>2
  <2>4. p \in Int /\ p \in 0 .. 2 ^ w - 1
    <3>1. c * e \in Nat
      OBVIOUS
    <3> QED
      BY <1>5, <2>3, <3>1
  <2>5. Unsigned(w, Signed(w, p)) = p
    BY <2>4, CastsNear
  <2>6. SrlSafe(w, a, b) = Signed(w, p)
    BY <1>4, <1>7, <2>1, <2>2 DEF SrlSafe
  <2> QED
    BY <2>5, <2>6
<1>11. ASSUME a \in 0 .. d - 1 PROVE SraSafe(w, SllSafe(w, a, b), b) = a
  <2>1. PICK p \in Nat : p = a * c /\ p = c * a + 0 /\ p < h
    <3>1. PICK z \in Nat : d = a + 1 + z
      <4>1. d - a - 1 \in Nat /\ d = a + 1 + (d - a - 1)
        BY <1>11
      <4> QED
        BY <4>1
    <3>2. /\ c * (a + 1 + z) = c * a + c + c * z /\ c * z \in Nat /\ c * a \in Nat
          /\ a * c = c * a /\ a * c = c * a + 0
      BY <1>11
    <3>3. a * c \in Nat /\ a * c < h
      BY <1>6, <3>1, <3>2
    <3> QED
      BY <3>2, <3>3
  <2>2. d <= h
    <3>1. PICK z \in Nat : c = 1 + z
      <4>1. c - 1 \in Nat /\ c = 1 + (c - 1)
        OBVIOUS
      <4> QED
        BY <4>1
    <3>2. (1 + z) * d = d + z * d /\ z * d \in Nat
      OBVIOUS
    <3> QED
      BY <1>6, <3>1, <3>2
  <2>3. Unsigned(w, a) = a
    <3>1. a \in 0 .. 2 ^ w - 1
      BY <1>2, <1>11, <2>2
    <3> QED
      BY <1>1, <3>1, CastsNear
  <2>4. Unsigned(w, p) = p
    <3>1. p \in Int /\ p \in 0 .. 2 ^ w - 1
      BY <1>2, <2>1
    <3> QED
      BY <3>1, CastsNear
  <2>5. Signed(w, p) = p
    BY <1>2, <2>1 DEF Signed
  <2>6. SllSafe(w, a, b) = p
    BY <1>4, <1>7, <2>1, <2>3, <2>4, <2>5 DEF SllSafe, Wrap
  <2>7. p \div c = a
    <3>1. 0 \in 0 .. c - 1
      OBVIOUS
    <3>2. (c * a + 0) \div c = a
      BY <1>1, <3>1, DivisionUnique
    <3> QED
      BY <2>1, <3>2
  <2> QED
    BY <1>8, <2>1, <2>6, <2>7
<1>12. SraSafe(w, a, b) * c \in a - c + 1 .. a
  BY <1>1, <1>8, <1>9
<1> QED
  BY <1>4, <1>10, <1>11, <1>12

(* What of_bits adds up, place by place.                                    *)
BitSum(w, bits) ==
  LET sum[n \in 0 .. w] ==
        IF n = 0 THEN 0 ELSE sum[n - 1] + (IF n - 1 \in bits THEN 2 ^ (n - 1) ELSE 0)
  IN  sum

(* The sum starts from nothing, grows by the bit of each place and stays a  *)
(* natural.                                                                 *)
LEMMA BitSums ==
  ASSUME NEW w \in Nat, Doubling(w), NEW bits
  PROVE  /\ BitSum(w, bits)[0] = 0
         /\ \A n \in 1 .. w :
              BitSum(w, bits)[n] =
                BitSum(w, bits)[n - 1] + (IF n - 1 \in bits THEN 2 ^ (n - 1) ELSE 0)
         /\ \A n \in 0 .. w : BitSum(w, bits)[n] \in Nat
<1> DEFINE Digit(n) == IF n - 1 \in bits THEN 2 ^ (n - 1) ELSE 0
           Term(f, n) == IF n = 0 THEN 0 ELSE f[n - 1] + Digit(n)
           Good(k) == \E g : DOMAIN g = 0 .. k /\ \A n \in 0 .. k : g[n] = Term(g, n)
           Bad == {k \in 0 .. w : ~Good(k)}
           s == CHOOSE f : f = [n \in 0 .. w |-> Term(f, n)]
           Wrong == {k \in 0 .. w : s[k] \notin Nat}
<1>0. \A n \in 1 .. w : Digit(n) \in Nat
  <2>1. \A n \in 1 .. w : n - 1 \in 0 .. w
    OBVIOUS
  <2> QED
    BY <2>1, PowersPositive
<1> HIDE DEF Digit
<1>1. Good(w)
  <2>1. SUFFICES ASSUME Bad # {} PROVE FALSE
    OBVIOUS
  <2>2. PICK k \in Bad : \A j \in Bad : k <= j
    <3>1. Bad \in SUBSET Nat
      OBVIOUS
    <3> HIDE DEF Bad
    <3> QED
      BY <2>1, <3>1, LeastElement
  <2>3. k # 0
    <3>1. Good(0)
      <4> DEFINE g == [n \in 0 .. 0 |-> 0]
      <4>1. DOMAIN g = 0 .. 0 /\ \A n \in 0 .. 0 : g[n] = Term(g, n)
        OBVIOUS
      <4> QED
        BY <4>1
    <3> HIDE DEF Good
    <3> QED
      BY <2>2, <3>1
  <2>4. k \in 1 .. w /\ k - 1 \in 0 .. w /\ ~(k <= k - 1)
    BY <2>2, <2>3
  <2>5. Good(k - 1)
    <3> HIDE DEF Good
    <3> QED
      BY <2>2, <2>4
  <2>6. PICK g : DOMAIN g = 0 .. k - 1 /\ \A n \in 0 .. k - 1 : g[n] = Term(g, n)
    BY <2>5
  <2> DEFINE h == [n \in 0 .. k |-> IF n = k THEN g[k - 1] + Digit(k) ELSE g[n]]
  <2>7. \A n \in 0 .. k : h[n] = Term(h, n)
    <3>1. TAKE n \in 0 .. k
    <3>2. CASE n = k
      <4>1. h[k] = g[k - 1] + Digit(k) /\ h[k - 1] = g[k - 1]
        BY <2>4
      <4> QED
        BY <2>4, <3>2, <4>1
    <3>3. CASE n # k
      <4>1. n \in 0 .. k - 1 /\ h[n] = g[n]
        BY <2>4, <3>3
      <4>2. n # 0 => n - 1 \in 0 .. k /\ n - 1 # k /\ h[n - 1] = g[n - 1]
        BY <2>4, <3>3
      <4> QED
        BY <2>6, <4>1, <4>2
    <3> QED
      BY <3>2, <3>3
  <2>8. Good(k)
    BY <2>7
  <2> HIDE DEF Good
  <2> QED
    BY <2>2, <2>8
<1>2. s = [n \in 0 .. w |-> Term(s, n)]
  <2>1. PICK g : DOMAIN g = 0 .. w /\ \A n \in 0 .. w : g[n] = Term(g, n)
    BY <1>1
  <2> DEFINE h == [n \in 0 .. w |-> g[n]]
  <2>2. \A n \in 0 .. w : n # 0 => n - 1 \in 0 .. w
    OBVIOUS
  <2>3. h = [n \in 0 .. w |-> Term(h, n)]
    BY <2>1, <2>2
  <2> HIDE DEF Term, h
  <2> QED
    BY <2>3
<1> HIDE DEF s
<1>3. \A n \in 0 .. w : s[n] = Term(s, n)
  BY <1>2
<1>4. Wrong = {}
  <2>1. SUFFICES ASSUME Wrong # {} PROVE FALSE
    OBVIOUS
  <2>2. PICK k \in Wrong : \A j \in Wrong : k <= j
    <3>1. Wrong \in SUBSET Nat
      OBVIOUS
    <3> HIDE DEF Wrong
    <3> QED
      BY <2>1, <3>1, LeastElement
  <2>3. k # 0
    BY <1>3, <2>2
  <2>4. k \in 1 .. w /\ k - 1 \in 0 .. w /\ ~(k <= k - 1)
    BY <2>2, <2>3
  <2>5. s[k - 1] \in Nat
    BY <2>2, <2>4
  <2>6. s[k] = s[k - 1] + Digit(k)
    BY <1>3, <2>3, <2>4
  <2> QED
    BY <1>0, <2>2, <2>4, <2>5, <2>6
<1>5. s[0] = 0 /\ \A n \in 1 .. w : s[n] = s[n - 1] + Digit(n)
  BY <1>3
<1>6. \A n \in 0 .. w : s[n] \in Nat
  BY <1>4
<1>7. BitSum(w, bits) = s
  BY DEF BitSum, s, Digit
<1> QED
  BY <1>5, <1>6, <1>7 DEF Digit

(* A union and an intersection add up to what the two sets add up to, and   *)
(* what is in one of them only adds up to the difference.                   *)
LEMMA SumsOfSets ==
  ASSUME NEW w \in Nat, Doubling(w), NEW A, NEW B
  PROVE  /\ BitSum(w, A \cup B)[w] + BitSum(w, A \cap B)[w] = BitSum(w, A)[w] + BitSum(w, B)[w]
         /\ BitSum(w, (A \cup B) \ (A \cap B))[w] + BitSum(w, A \cap B)[w] = BitSum(w, A \cup B)[w]
<1> DEFINE a == BitSum(w, A)
           b == BitSum(w, B)
           u == BitSum(w, A \cup B)
           i == BitSum(w, A \cap B)
           x == BitSum(w, (A \cup B) \ (A \cap B))
           Good == {n \in 0 .. w : u[n] + i[n] = a[n] + b[n] /\ x[n] + i[n] = u[n]}
<1>1. a[0] = 0 /\ b[0] = 0 /\ u[0] = 0 /\ i[0] = 0 /\ x[0] = 0
  BY BitSums
<1>2. \A n \in 0 .. w : a[n] \in Nat /\ b[n] \in Nat /\ u[n] \in Nat /\ i[n] \in Nat /\ x[n] \in Nat
  BY BitSums
<1>3. ASSUME NEW n \in 1 .. w
      PROVE  /\ a[n] = a[n - 1] + (IF n - 1 \in A THEN 2 ^ (n - 1) ELSE 0)
             /\ b[n] = b[n - 1] + (IF n - 1 \in B THEN 2 ^ (n - 1) ELSE 0)
             /\ u[n] = u[n - 1] + (IF n - 1 \in A \cup B THEN 2 ^ (n - 1) ELSE 0)
             /\ i[n] = i[n - 1] + (IF n - 1 \in A \cap B THEN 2 ^ (n - 1) ELSE 0)
             /\ x[n] = x[n - 1] + (IF n - 1 \in (A \cup B) \ (A \cap B) THEN 2 ^ (n - 1) ELSE 0)
  BY BitSums
<1> HIDE DEF a, b, u, i, x
<1>4. ASSUME NEW n \in 1 .. w, n - 1 \in Good PROVE n \in Good
  <2>1. n - 1 \in 0 .. w /\ n \in 0 .. w
    OBVIOUS
  <2>2. PICK p \in Nat : p = 2 ^ (n - 1)
    BY <2>1, PowersPositive
  <2>3. u[n - 1] + i[n - 1] = a[n - 1] + b[n - 1] /\ x[n - 1] + i[n - 1] = u[n - 1]
    BY <1>4
  <2>4. /\ a[n - 1] \in Nat /\ b[n - 1] \in Nat /\ u[n - 1] \in Nat /\ i[n - 1] \in Nat
        /\ x[n - 1] \in Nat
    BY <1>2, <2>1
  <2>5. /\ a[n] = a[n - 1] + (IF n - 1 \in A THEN p ELSE 0)
        /\ b[n] = b[n - 1] + (IF n - 1 \in B THEN p ELSE 0)
        /\ u[n] = u[n - 1] + (IF n - 1 \in A \/ n - 1 \in B THEN p ELSE 0)
        /\ i[n] = i[n - 1] + (IF n - 1 \in A /\ n - 1 \in B THEN p ELSE 0)
        /\ x[n] = x[n - 1] + (IF (n - 1 \in A \/ n - 1 \in B) /\ ~(n - 1 \in A /\ n - 1 \in B)
                               THEN p ELSE 0)
    BY <1>3, <2>2
  <2>6. u[n] + i[n] = a[n] + b[n] /\ x[n] + i[n] = u[n]
    BY <2>3, <2>4, <2>5
  <2> QED
    BY <2>1, <2>6
<1>5. 0 \in Good
  BY <1>1
<1>6. \A n \in 0 .. w : n \in Good
  <2> HIDE DEF Good
  <2> QED
    BY <1>4, <1>5, UpTo
<1>7. w \in Good
  BY <1>6
<1> QED
  BY <1>7 DEF a, b, u, i, x

(* A remainder by a product is that by one factor and, above it, what the   *)
(* quotient leaves by the other.                                            *)
LEMMA RemainderByProduct ==
  ASSUME NEW c \in Nat \ {0}, NEW e \in Nat \ {0}, NEW u \in Nat
  PROVE  u % (c * e) = ((u \div c) % e) * c + (u % c)
<1>1. u = c * (u \div c) + (u % c) /\ u \div c \in Int /\ u % c \in 0 .. c - 1
  OBVIOUS
<1>2. PICK q \in Int, r \in 0 .. c - 1 : q = u \div c /\ r = u % c
  BY <1>1
<1>3. q = e * (q \div e) + (q % e) /\ q \div e \in Int /\ q % e \in 0 .. e - 1
  OBVIOUS
<1>4. PICK t \in Int, d \in 0 .. e - 1 : t = q \div e /\ d = q % e
  BY <1>3
<1>5. PICK m \in Nat \ {0} : m = c * e
  <2>1. c * e \in Nat \ {0}
    OBVIOUS
  <2> QED
    BY <2>1
<1>6. PICK z \in Nat : z = d * c /\ z = c * d
  <2>1. c * d \in Nat /\ d * c = c * d
    OBVIOUS
  <2> QED
    BY <2>1
<1>7. z + c <= m
  <2>1. PICK y \in Nat : e = d + 1 + y
    <3>1. e - d - 1 \in Nat /\ e = d + 1 + (e - d - 1)
      OBVIOUS
    <3> QED
      BY <3>1
  <2>2. c * (d + 1 + y) = c * d + c + c * y /\ c * y \in Nat
    OBVIOUS
  <2>3. PICK v \in Nat : v = c * y
    BY <2>2
  <2>4. m = z + c + v
    BY <1>5, <1>6, <2>1, <2>2, <2>3
  <2> QED
    BY <2>4
<1>8. c * (e * t + d) = (c * e) * t + c * d
  OBVIOUS
<1>9. u = m * t + (z + r)
  <2>1. q = e * t + d
    BY <1>3, <1>4
  <2>2. PICK v \in Int : v = m * t /\ (c * e) * t = v
    <3>1. (c * e) * t = m * t /\ m * t \in Int
      BY <1>5
    <3> QED
      BY <3>1
  <2>3. PICK y \in Int : y = c * q /\ y = c * (e * t + d)
    <3>1. c * q = c * (e * t + d) /\ c * q \in Int
      BY <2>1
    <3> QED
      BY <3>1
  <2>4. y = v + z
    <3>1. PICK x \in Int : x = (c * e) * t /\ x = v
      BY <2>2
    <3>2. y = x + c * d
      BY <1>8, <2>3, <3>1
    <3> QED
      BY <1>6, <3>1, <3>2
  <2>5. u = y + r
    BY <1>1, <1>2, <2>3
  <2>6. u = v + (z + r)
    BY <2>4, <2>5
  <2> QED
    BY <2>2, <2>6
<1>10. z + r \in 0 .. m - 1
  BY <1>7
<1>11. u % m = z + r
  <2>1. (m * t + (z + r)) % m = z + r
    BY <1>10, DivisionUnique
  <2> QED
    BY <1>9, <2>1
<1> QED
  BY <1>2, <1>4, <1>5, <1>6, <1>11

(* A remainder by twice a number has one place more.                        *)
LEMMA OnePlaceMore ==
  ASSUME NEW c \in Nat \ {0}, NEW u \in Nat
  PROVE  u % (2 * c) = (u % c) + (IF ((u \div c) % 2) = 1 THEN c ELSE 0)
<1>1. u % (c * 2) = ((u \div c) % 2) * c + (u % c)
  <2>1. ASSUME NEW e \in Nat \ {0} PROVE u % (c * e) = ((u \div c) % e) * c + (u % c)
    BY RemainderByProduct
  <2>2. 2 \in Nat \ {0}
    OBVIOUS
  <2> QED
    BY <2>1, <2>2
<1>2. c * 2 = 2 * c /\ u % c \in Int
  OBVIOUS
<1>3. PICK q \in Int : q = u \div c
  OBVIOUS
<1>4. q % 2 = 0 \/ q % 2 = 1
  OBVIOUS
<1>5. 0 * c = 0 /\ 1 * c = c
  OBVIOUS
<1> QED
  BY <1>1, <1>2, <1>3, <1>4, <1>5

(* The bits of a value add up to its pattern.                               *)
LEMMA BitsAddUp ==
  ASSUME NEW w \in OperandWidths, NEW a \in Ints(w)
  PROVE  BitSum(w, Bits(w, a))[w] = Unsigned(w, a)
<1>1. w \in Nat \ {0, 1} /\ Doubling(w) /\ a \in Int
  BY OperandsGiven
<1>2. PICK m \in Nat \ {0} : m = 2 ^ w
  BY OperandsGiven
<1>3. PICK u \in Nat : u = Unsigned(w, a) /\ u < m
  <2>1. Unsigned(w, a) \in 0 .. 2 ^ w - 1
    BY <1>1, CastsNear
  <2> QED
    BY <1>2, <2>1
<1> DEFINE s == BitSum(w, Bits(w, a))
           Good == {n \in 0 .. w : s[n] = u % (2 ^ n)}
<1>4. s[0] = 0 /\ \A n \in 0 .. w : s[n] \in Nat
  BY <1>1, BitSums
<1>5. \A n \in 1 .. w : s[n] = s[n - 1] + (IF n - 1 \in Bits(w, a) THEN 2 ^ (n - 1) ELSE 0)
  BY <1>1, BitSums
<1> HIDE DEF s
<1>6. 0 \in Good
  <2>1. 0 \in 0 .. w
    BY <1>1
  <2>2. 2 ^ 0 = 1
    OBVIOUS
  <2>3. u % 1 = 0
    OBVIOUS
  <2> QED
    BY <1>4, <2>1, <2>2, <2>3
<1>7. ASSUME NEW n \in 1 .. w, n - 1 \in Good PROVE n \in Good
  <2>1. n - 1 \in 0 .. w /\ n \in 0 .. w /\ n - 1 \in 0 .. w - 1
    BY <1>1
  <2>2. PICK c \in Nat \ {0} : c = 2 ^ (n - 1)
    BY <1>1, <2>1, PowersPositive
  <2>3. 2 ^ n = 2 * c
    BY <1>1, <2>2 DEF Doubling
  <2>4. n - 1 \in Bits(w, a) <=> ((u \div c) % 2) = 1
    BY <1>3, <2>1, <2>2 DEF Bits
  <2>5. s[n - 1] = u % c
    BY <1>7, <2>2
  <2>6. s[n] = (u % c) + (IF ((u \div c) % 2) = 1 THEN c ELSE 0)
    BY <1>5, <2>2, <2>4, <2>5
  <2>7. s[n] = u % (2 * c)
    BY <2>6, OnePlaceMore
  <2> QED
    BY <2>1, <2>3, <2>7
<1>8. \A n \in 0 .. w : n \in Good
  <2> HIDE DEF Good
  <2> QED
    BY <1>1, <1>6, <1>7, UpTo
<1>9. s[w] = u % m
  <2>1. w \in Good
    BY <1>1, <1>8
  <2> QED
    BY <1>2, <2>1
<1>10. u % m = u
  BY <1>3
<1> QED
  BY <1>3, <1>9, <1>10 DEF s

(* and_safe, or_safe and xor_safe fit together.                             *)
LEMMA LogicHolds ==
  ASSUME NEW w \in OperandWidths, NEW a \in Ints(w), NEW b \in Ints(w)
  PROVE  /\ Congruent(w, OrSafe(w, a, b), a + b - AndSafe(w, a, b))
         /\ Congruent(w, XorSafe(w, a, b), OrSafe(w, a, b) - AndSafe(w, a, b))
<1>1. w \in Nat \ {0, 1} /\ w \in Nat /\ Doubling(w) /\ a \in Int /\ b \in Int
  BY OperandsGiven
<1>2. PICK m \in Nat \ {0} : m = 2 ^ w
  BY OperandsGiven
<1> DEFINE A == Bits(w, a)
           B == Bits(w, b)
<1>3. w \in 0 .. w
  BY <1>1
<1>4. PICK u \in Int : u = Unsigned(w, a) /\ u = BitSum(w, A)[w] /\ Near(m, u, a)
  BY <1>1, <1>2, BitsAddUp, CastsNear
<1>5. PICK v \in Int : v = Unsigned(w, b) /\ v = BitSum(w, B)[w] /\ Near(m, v, b)
  BY <1>1, <1>2, BitsAddUp, CastsNear
<1>6. ASSUME NEW bits
      PROVE  /\ BitSum(w, bits)[w] \in Int /\ OfBits(w, bits) \in Int
             /\ Near(m, OfBits(w, bits), BitSum(w, bits)[w])
  <2>1. BitSum(w, bits)[w] \in Int
    BY <1>1, <1>3, BitSums
  <2>2. OfBits(w, bits) = Signed(w, BitSum(w, bits)[w])
    BY DEF OfBits, BitSum
  <2> QED
    BY <1>2, <2>1, <2>2, CastsNear
<1>7. PICK p \in Int, P \in Int : /\ p = BitSum(w, A \cup B)[w] /\ P = OrSafe(w, a, b) /\ Near(m, P, p)
  BY <1>6 DEF OrSafe
<1>8. PICK q \in Int, Q \in Int : /\ q = BitSum(w, A \cap B)[w] /\ Q = AndSafe(w, a, b) /\ Near(m, Q, q)
  BY <1>6 DEF AndSafe
<1>9. PICK r \in Int, R \in Int : /\ r = BitSum(w, (A \cup B) \ (A \cap B))[w]
                                  /\ R = XorSafe(w, a, b) /\ Near(m, R, r)
  BY <1>6 DEF XorSafe
<1>10. p + q = u + v /\ r + q = p
  <2> HIDE DEF A, B
  <2>1. /\ BitSum(w, A \cup B)[w] + BitSum(w, A \cap B)[w] = BitSum(w, A)[w] + BitSum(w, B)[w]
        /\ BitSum(w, (A \cup B) \ (A \cap B))[w] + BitSum(w, A \cap B)[w] = BitSum(w, A \cup B)[w]
    BY <1>1, SumsOfSets
  <2> QED
    BY <1>4, <1>5, <1>7, <1>8, <1>9, <2>1
<1>11. p = (u + v) - q /\ r = p - q
  BY <1>10
<1>12. Near(m, (u + v) - q, (a + b) - Q)
  <2>1. Near(m, u + v, a + b)
    BY <1>1, <1>4, <1>5, NearArithmetic
  <2>2. Near(m, q, Q)
    BY <1>8, NearIsEquivalence
  <2>3. u + v \in Int /\ a + b \in Int
    BY <1>1
  <2> QED
    BY <2>1, <2>2, <2>3, NearArithmetic
<1>13. Near(m, p - q, P - Q)
  <2>1. Near(m, q, Q) /\ Near(m, p, P)
    BY <1>7, <1>8, NearIsEquivalence
  <2> QED
    BY <2>1, NearArithmetic
<1>14. Congruent(w, P, a + b - Q)
  <2>1. PICK t \in Int : t = a + b - Q /\ t = (a + b) - Q
    BY <1>1
  <2>2. Near(m, P, t)
    <3>1. Near(m, p, t)
      BY <1>11, <1>12, <2>1
    <3> QED
      BY <1>7, <3>1, NearIsEquivalence
  <2> QED
    BY <1>2, <2>1, <2>2, NearIsCongruent
<1>15. Congruent(w, R, P - Q)
  <2>1. P - Q \in Int
    OBVIOUS
  <2>2. Near(m, R, P - Q)
    <3>1. Near(m, r, P - Q)
      BY <1>11, <1>13
    <3> QED
      BY <1>9, <2>1, <3>1, NearIsEquivalence
  <2> QED
    BY <1>2, <2>1, <2>2, NearIsCongruent
<1> QED
  BY <1>7, <1>8, <1>9, <1>14, <1>15

(* At every width and for every operands, what the instructions compute on  *)
(* unsigned types is the arithmetic of the integers modulo 2^w, and shifts  *)
(* and logical operations agree with it.                                    *)
THEOREM WordArithmetic == InputSpec => []WordOperations
<1>1. ASSUME NEW w \in OperandWidths, NEW a \in Ints(w), NEW b \in Ints(w)
      PROVE  RingOperations(w, a, b) /\ BitOperations(w, a, b)
  BY RingHolds, ShiftsHold, LogicHolds DEF BitOperations
<1>2. (input.kind = "operands" =>
         /\ input.width \in OperandWidths
         /\ input.a \in Ints(input.width) /\ input.b \in Ints(input.width)) => WordOperations
  BY <1>1, Zenon DEF WordOperations
<1> QED
  BY <1>2, OperandInputs, PTL

----------------------------------------------------------------------------
(* Packed words.                                                            *)

(* Bytes side by side have as many values as the product says.              *)
LEMMA ByteValues ==
  /\ \A n \in 0 .. 8 : Values(n) \in Nat \ {0}
  /\ Values(0) = 1
  /\ \A i \in 0 .. 8 : \A n \in 0 .. 8 - i : Values(i + n) = Values(i) * Values(n)
<1>1. Unit \in Nat \ {0, 1} /\ 8 * Unit \in Nat /\ Doubling(8 * Unit)
  BY UnitAssumption, ExponentsAssumption
<1>2. ASSUME NEW n \in 0 .. 8 PROVE n * Unit \in 0 .. 8 * Unit
  BY <1>1
<1>3. \A n \in 0 .. 8 : Values(n) \in Nat \ {0}
  BY <1>1, <1>2, PowersPositive DEF Values
<1>4. Values(0) = 1
  <2>1. 0 * Unit = 0
    BY <1>1
  <2>2. 2 ^ 0 = 1
    OBVIOUS
  <2> QED
    BY <2>1, <2>2 DEF Values
<1>5. ASSUME NEW i \in 0 .. 8, NEW n \in 0 .. 8 - i
      PROVE  Values(i + n) = Values(i) * Values(n)
  <2>1. PICK x \in Nat, y \in Nat : x = i * Unit /\ y = n * Unit
    BY <1>1
  <2>2. (i + n) * Unit = x + y
    BY <1>1, <2>1
  <2>3. x \in 0 .. 8 * Unit /\ y \in 0 .. 8 * Unit - x
    <3>1. i + n \in 0 .. 8
      OBVIOUS
    <3>2. x + y \in 0 .. 8 * Unit
      BY <1>2, <2>2, <3>1
    <3> QED
      BY <1>1, <3>2
  <2>4. 2 ^ (x + y) = 2 ^ x * 2 ^ y
    BY <1>1, <2>3, PowersAdd
  <2> QED
    BY <2>1, <2>2, <2>4 DEF Values
<1> QED
  BY <1>3, <1>4, <1>5

(* Three bytes and four are an even number of values.                       *)
LEMMA EvenValues ==
  \A n \in {3, 4} : \E half \in Nat \ {0} : Values(n) = 2 * half /\ Values(n) \div 2 = half
<1>1. ASSUME NEW n \in {3, 4}
      PROVE  \E half \in Nat \ {0} : Values(n) = 2 * half /\ Values(n) \div 2 = half
  <2>1. Unit \in Nat \ {0, 1} /\ 8 * Unit \in Nat /\ Doubling(8 * Unit)
    BY UnitAssumption, ExponentsAssumption
  <2>2. PICK x \in Nat : x = n * Unit /\ x \in 1 .. 8 * Unit /\ x - 1 \in 0 .. 8 * Unit
    <3>1. n * Unit \in 1 .. 8 * Unit
      BY <2>1
    <3> QED
      BY <2>1, <3>1
  <2>3. PICK half \in Nat \ {0} : half = 2 ^ (x - 1)
    BY <2>1, <2>2, PowersPositive
  <2>4. Values(n) = 2 * half
    BY <2>1, <2>2, <2>3 DEF Doubling, Values
  <2>5. (2 * half) \div 2 = half
    OBVIOUS
  <2> QED
    BY <2>3, <2>4, <2>5
<1> QED
  BY <1>1

(* Bytes of a word are a difference of what two numbers of bytes leave.     *)
LEMMA BytesAreDifferences ==
  ASSUME NEW w \in 0 .. Values(8) - 1
  PROVE  /\ \A i \in 0 .. 8 : \A n \in 0 .. 8 - i :
              /\ BytesOf(w, i, n) \in 0 .. Values(n) - 1
              /\ BytesOf(w, i, n) * Values(i) = (w % Values(i + n)) - (w % Values(i))
         /\ \A n \in 0 .. 8 : w % Values(n) \in Nat
         /\ w % Values(0) = 0 /\ w % Values(8) = w
<1>1. w \in Nat
  BY ByteValues
<1>2. ASSUME NEW i \in 0 .. 8, NEW n \in 0 .. 8 - i
      PROVE  /\ BytesOf(w, i, n) \in 0 .. Values(n) - 1
             /\ BytesOf(w, i, n) * Values(i) = (w % Values(i + n)) - (w % Values(i))
  <2>1. n \in 0 .. 8
    OBVIOUS
  <2>2. PICK c \in Nat \ {0}, e \in Nat \ {0} : c = Values(i) /\ e = Values(n)
    BY <2>1, ByteValues
  <2>3. Values(i + n) = c * e
    BY <2>2, ByteValues
  <2>4. w % (c * e) = ((w \div c) % e) * c + (w % c)
    BY <1>1, RemainderByProduct
  <2>5. w \div c \in Int /\ w % c \in Int
    BY <1>1
  <2>6. (w \div c) % e \in 0 .. e - 1
    BY <2>5
  <2>7. PICK x \in Int, r \in Int : x = ((w \div c) % e) * c /\ r = w % c
    BY <2>5, <2>6
  <2>8. x = (w % (c * e)) - r
    BY <2>4, <2>7
  <2> QED
    BY <2>2, <2>3, <2>6, <2>7, <2>8 DEF BytesOf
<1>3. ASSUME NEW n \in 0 .. 8 PROVE w % Values(n) \in Nat
  <2>1. PICK m \in Nat \ {0} : m = Values(n)
    BY ByteValues
  <2>2. w % m \in Nat
    BY <1>1
  <2> QED
    BY <2>1, <2>2
<1>4. w % Values(0) = 0
  BY <1>1, ByteValues
<1>5. w % Values(8) = w
  <2>1. PICK m \in Nat \ {0} : m = Values(8)
    BY ByteValues
  <2>2. w % m = w
    BY <2>1
  <2> QED
    BY <2>1, <2>2
<1> QED
  BY <1>2, <1>3, <1>4, <1>5

(* A signed field is its bytes, or as much less as its values are.          *)
LEMMA SignExtends ==
  ASSUME NEW n \in {3, 4}, NEW i \in 0 .. 8 - n, NEW x \in 0 .. Values(n) - 1
  PROVE  /\ SignedBytes(n, x) \in -(Values(n) \div 2) .. Values(n) \div 2 - 1
         /\ SignedBytes(n, x) * Values(i) + (IF SignedBytes(n, x) < 0 THEN Values(i + n) ELSE 0)
              = x * Values(i)
<1>1. PICK half \in Nat \ {0} : Values(n) = 2 * half /\ Values(n) \div 2 = half
  BY EvenValues
<1>2. i \in 0 .. 8 /\ n \in 0 .. 8 - i /\ n \in 0 .. 8
  OBVIOUS
<1>3. PICK c \in Nat \ {0}, e \in Nat \ {0} : c = Values(i) /\ e = Values(n)
  BY <1>2, ByteValues
<1>4. Values(i + n) = c * e
  BY <1>2, <1>3, ByteValues
<1>5. x \in Int /\ x \in 0 .. e - 1
  BY <1>3
<1>6. SignedBytes(n, x) = IF x < half THEN x ELSE x - e
  BY <1>1, <1>3 DEF SignedBytes
<1>7. (x - e) * c = x * c - c * e /\ x * c \in Int /\ c * e \in Int
  BY <1>5
<1>8. CASE x < half
  BY <1>1, <1>3, <1>4, <1>5, <1>6, <1>7, <1>8
<1>9. CASE ~(x < half)
  <2>1. SignedBytes(n, x) = x - e /\ x - e < 0
    BY <1>5, <1>6, <1>9
  <2>2. (x - e) * c + c * e = x * c
    BY <1>7
  <2>3. x - e \in -half .. half - 1
    BY <1>1, <1>3, <1>5, <1>9
  <2> QED
    BY <1>1, <1>3, <1>4, <2>1, <2>2, <2>3
<1> QED
  BY <1>8, <1>9

(* The fields of the formats, put together again, are the word.             *)
LEMMA FormatsHold ==
  ASSUME NEW w \in 0 .. Values(8) - 1
  PROVE  FormatsCover(w)
<1> DEFINE R(n) == w % Values(n)
<1>1. /\ R(1) \in Nat /\ R(2) \in Nat /\ R(4) \in Nat /\ R(6) \in Nat
      /\ R(0) = 0 /\ R(8) = w
  BY BytesAreDifferences
<1>2. ASSUME NEW i \in 0 .. 8, NEW n \in 0 .. 8 - i
      PROVE  BytesOf(w, i, n) * Values(i) = R(i + n) - R(i)
  BY BytesAreDifferences
<1> HIDE DEF R
<1>3. w \in Nat
  BY ByteValues
<1>4. PICK unused \in Int : unused = w - BytesOf(w, 1, 1) * Values(1) /\ unused = w - (R(2) - R(1))
  <2>1. BytesOf(w, 1, 1) * Values(1) = R(1 + 1) - R(1)
    BY <1>2
  <2>2. R(1 + 1) = R(2)
    OBVIOUS
  <2> QED
    BY <1>1, <1>3, <2>1, <2>2
<1>5. TypeOf(w) = R(1)
  <2>1. BytesOf(w, 0, 1) * Values(0) = R(0 + 1) - R(0)
    BY <1>2
  <2>2. R(0 + 1) = R(1)
    OBVIOUS
  <2>3. BytesOf(w, 0, 1) \in Int
    <3>1. BytesOf(w, 0, 1) \in 0 .. Values(1) - 1
      BY BytesAreDifferences
    <3> QED
      BY <3>1, ByteValues
  <2>4. BytesOf(w, 0, 1) * 1 = BytesOf(w, 0, 1)
    BY <2>3
  <2> QED
    BY <1>1, <2>1, <2>2, <2>4, ByteValues DEF TypeOf
<1>6. Src2(w) * Values(2) = R(4) - R(2)
  <2>1. BytesOf(w, 2, 2) * Values(2) = R(2 + 2) - R(2)
    BY <1>2
  <2> QED
    BY <2>1 DEF Src2
<1>7. Src1(w) * Values(4) = R(6) - R(4)
  <2>1. BytesOf(w, 4, 2) * Values(4) = R(4 + 2) - R(4)
    BY <1>2
  <2> QED
    BY <2>1 DEF Src1
<1>8. Dest(w) * Values(6) = w - R(6) /\ Target(w) * Values(6) = w - R(6)
  <2>1. BytesOf(w, 6, 2) * Values(6) = R(6 + 2) - R(6)
    BY <1>2
  <2> QED
    BY <1>1, <2>1 DEF Dest, Target
<1>9. Idx24(w) * Values(1) = R(4) - R(1)
  <2>1. BytesOf(w, 1, 3) * Values(1) = R(1 + 3) - R(1)
    BY <1>2
  <2> QED
    BY <2>1 DEF Idx24
<1>10. Imm40(w) * Values(1) = R(6) - R(1)
  <2>1. BytesOf(w, 1, 5) * Values(1) = R(1 + 5) - R(1)
    BY <1>2
  <2> QED
    BY <2>1 DEF Imm40
<1>11. PICK x \in Int, y \in Int :
         /\ x = Imm24(w) * Values(1) /\ y = (IF Imm24(w) < 0 THEN Values(4) ELSE 0)
         /\ x + y = R(4) - R(1)
  <2>1. BytesOf(w, 1, 3) \in 0 .. Values(3) - 1
    BY BytesAreDifferences
  <2>2. /\ Imm24(w) \in -(Values(3) \div 2) .. Values(3) \div 2 - 1
        /\ Imm24(w) * Values(1) + (IF Imm24(w) < 0 THEN Values(1 + 3) ELSE 0)
             = BytesOf(w, 1, 3) * Values(1)
    BY <2>1, SignExtends DEF Imm24
  <2>3. Imm24(w) \in Int /\ Values(1) \in Int /\ Values(4) \in Int
    BY <2>2, EvenValues, ByteValues
  <2>4. Values(1 + 3) = Values(4) /\ BytesOf(w, 1, 3) * Values(1) = R(4) - R(1)
    BY <1>9 DEF Idx24
  <2> QED
    BY <2>2, <2>3, <2>4
<1>12. Imm24(w) \in -(Values(3) \div 2) .. Values(3) \div 2 - 1
  <2>1. BytesOf(w, 1, 3) \in 0 .. Values(3) - 1
    BY BytesAreDifferences
  <2> QED
    BY <2>1, SignExtends DEF Imm24
<1>13. PICK u \in Int, v \in Int :
         /\ u = Imm32(w) * Values(2) /\ v = (IF Imm32(w) < 0 THEN Values(6) ELSE 0)
         /\ u + v = R(6) - R(2)
  <2>1. BytesOf(w, 2, 4) \in 0 .. Values(4) - 1
    BY BytesAreDifferences
  <2>2. /\ Imm32(w) \in -(Values(4) \div 2) .. Values(4) \div 2 - 1
        /\ Imm32(w) * Values(2) + (IF Imm32(w) < 0 THEN Values(2 + 4) ELSE 0)
             = BytesOf(w, 2, 4) * Values(2)
    BY <2>1, SignExtends DEF Imm32
  <2>3. Imm32(w) \in Int /\ Values(2) \in Int /\ Values(6) \in Int
    BY <2>2, EvenValues, ByteValues
  <2>4. BytesOf(w, 2, 4) * Values(2) = R(2 + 4) - R(2) /\ 2 + 4 = 6
    BY <1>2
  <2> QED
    BY <2>2, <2>3, <2>4
<1>14. TypeOf(w) + Src2(w) * Values(2) + Src1(w) * Values(4) + Dest(w) * Values(6) = unused
  BY <1>1, <1>3, <1>4, <1>5, <1>6, <1>7, <1>8
<1>15. TypeOf(w) + Imm24(w) * Values(1) + Src1(w) * Values(4) + Target(w) * Values(6)
         + (IF Imm24(w) < 0 THEN Values(4) ELSE 0) = w
  BY <1>1, <1>3, <1>5, <1>7, <1>8, <1>11
<1>16. TypeOf(w) + Idx24(w) * Values(1) + Src1(w) * Values(4) + Dest(w) * Values(6) = w
  BY <1>1, <1>3, <1>5, <1>7, <1>8, <1>9
<1>17. TypeOf(w) + Imm40(w) * Values(1) + Dest(w) * Values(6) = w
  BY <1>1, <1>3, <1>5, <1>8, <1>10
<1>18. TypeOf(w) + Imm32(w) * Values(2) + Dest(w) * Values(6)
         + (IF Imm32(w) < 0 THEN Values(6) ELSE 0) = unused
  BY <1>1, <1>3, <1>4, <1>5, <1>8, <1>13
<1> QED
  BY <1>4, <1>12, <1>14, <1>15, <1>16, <1>17, <1>18, Zenon DEF FormatsCover

(* Whatever length and type an array is initialized with, it answers them.  *)
LEMMA ArraysHold ==
  ASSUME NEW length \in Ints(4 * Unit), NEW type \in 0 .. 6
  PROVE  ArraysReadBack(length, type)
<1>1. /\ Unit \in Nat \ {0, 1} /\ 8 * Unit \in Nat /\ Doubling(8 * Unit)
      /\ 4 * Unit - 1 \in 0 .. 8 * Unit /\ 4 * Unit \in 1 .. 8 * Unit
      /\ 4 * Unit - 4 \in 0 .. 8 * Unit /\ 3 \in 0 .. 8 * Unit - (4 * Unit - 4)
      /\ (4 * Unit - 4) + 3 = 4 * Unit - 1
  BY UnitAssumption, ExponentsAssumption
<1>2. PICK j \in Nat \ {0} : j = 2 ^ (4 * Unit - 4)
  BY <1>1, PowersPositive
<1>3. PICK k \in Nat \ {0} : k = 2 ^ (4 * Unit - 1) /\ k = 8 * j
  <2>1. 2 ^ ((4 * Unit - 4) + 3) = 2 ^ (4 * Unit - 4) * 2 ^ 3
    BY <1>1, PowersAdd
  <2>2. 2 ^ 3 = 8
    OBVIOUS
  <2>3. j * 8 = 8 * j /\ 8 * j \in Nat \ {0}
    OBVIOUS
  <2> QED
    BY <1>1, <1>2, <2>1, <2>2, <2>3
<1>4. Values(4) = 2 * k
  BY <1>1, <1>3 DEF Doubling, Values
<1>5. length \in Int
  <2>1. Ints(4 * Unit) = -k .. k - 1
    BY <1>1, <1>3 DEF Ints, MinInt
  <2> QED
    BY <1>3, <2>1
<1>6. PICK p \in Int : p = length * k /\ p = 8 * (j * length) /\ 2 * p = (2 * k) * length
  <2>1. length * (8 * j) = 8 * (j * length) /\ length * k \in Int /\ 2 * (length * k) = (2 * k) * length
    BY <1>5
  <2> QED
    BY <1>3, <2>1
<1>7. ArrayHeader(length, type) = (p + type) * 2 + 1
  <2>1. 2 ^ 1 = 2
    OBVIOUS
  <2> QED
    BY <1>3, <1>6, <2>1 DEF ArrayHeader, ShiftLeft
<1>8. PICK header \in Int : header = (p + type) * 2 + 1
  OBVIOUS
<1>9. header % 2 = 1 /\ header \div 2 = p + type
  BY <1>8
<1>10. (p + type) % 8 = type
  <2>1. PICK t \in Int : t = j * length
    BY <1>5
  <2>2. p = 8 * t
    BY <1>6, <2>1
  <2> QED
    BY <2>2
<1>11. header \div Values(4) = length
  <2>1. PICK m \in Nat \ {0} : m = 2 * k
    OBVIOUS
  <2>2. 2 * type + 1 \in 0 .. m - 1
    BY <1>3, <2>1
  <2>3. (m * length + (2 * type + 1)) \div m = length
    BY <1>5, <2>2, DivisionUnique
  <2>4. header = m * length + (2 * type + 1)
    BY <1>6, <1>8, <2>1
  <2> QED
    BY <1>4, <2>1, <2>3, <2>4
<1> QED
  BY <1>7, <1>8, <1>9, <1>10, <1>11 DEF ArraysReadBack, IsArray, ArrayLength, ElementType

(* The types of any number of arguments, of five kinds, are read back.      *)
LEMMA TypesHold ==
  ASSUME NEW n \in Nat, NEW types \in [1 .. n -> 0 .. 4]
  PROVE  TypesReadBack(types)
<1>1. Len(types) = n
  OBVIOUS
<1>2. SUFFICES ASSUME NEW k \in 0 .. n - 1
               PROVE  ArgType(PackedTypes(types), k) = types[k + 1]
  BY <1>1 DEF TypesReadBack
<1>3. PICK t \in Nat : t = k \div 2 /\ ((k = 2 * t /\ k % 2 = 0) \/ (k = 2 * t + 1 /\ k % 2 = 1))
  <2>1. k = 2 * (k \div 2) + (k % 2) /\ k % 2 \in {0, 1} /\ k \div 2 \in Int /\ k \in Nat
    OBVIOUS
  <2>2. PICK q \in Int, r \in 0 .. 1 : q = k \div 2 /\ r = k % 2
    BY <2>1
  <2>3. k = 2 * q + r
    BY <2>1, <2>2
  <2>4. k >= 0 /\ (r = 0 \/ r = 1)
    OBVIOUS
  <2>5. q >= 0
    BY <2>3, <2>4
  <2>6. (k = 2 * q /\ r = 0) \/ (k = 2 * q + 1 /\ r = 1)
    BY <2>3, <2>4
  <2> QED
    BY <2>2, <2>5, <2>6
<1>4. t + 1 \in 1 .. (n + 1) \div 2 /\ 2 * (t + 1) - 1 = 2 * t + 1 /\ 2 * t + 1 \in 1 .. n
  BY <1>3
<1>5. PICK x \in 0 .. 4 : x = types[2 * t + 1]
  BY <1>4
<1>6. PICK y \in 0 .. 4 : y = IF 2 * (t + 1) <= n THEN types[2 * (t + 1)] ELSE 0
  <2>1. 2 * (t + 1) <= n => 2 * (t + 1) \in 1 .. n
    OBVIOUS
  <2>2. (IF 2 * (t + 1) <= n THEN types[2 * (t + 1)] ELSE 0) \in 0 .. 4
    BY <2>1
  <2> QED
    BY <2>2
<1>7. PackedTypes(types)[t + 1] = x + 16 * y
  BY <1>1, <1>4, <1>5, <1>6 DEF PackedTypes
<1>8. CASE k = 2 * t /\ k % 2 = 0
  <2>1. ArgType(PackedTypes(types), k) = (((x + 16 * y) \div 1) % 16) % 8
    BY <1>3, <1>7, <1>8 DEF ArgType
  <2>2. (((x + 16 * y) \div 1) % 16) % 8 = x
    OBVIOUS
  <2> QED
    BY <1>5, <1>8, <2>1, <2>2
<1>9. CASE k = 2 * t + 1 /\ k % 2 = 1
  <2>1. ArgType(PackedTypes(types), k) = (((x + 16 * y) \div 16) % 16) % 8
    BY <1>3, <1>7, <1>9 DEF ArgType
  <2>2. (((x + 16 * y) \div 16) % 16) % 8 = y
    OBVIOUS
  <2>3. y = types[k + 1]
    <3>1. 2 * (t + 1) = k + 1 /\ k + 1 <= n
      BY <1>9
    <3> QED
      BY <1>6, <3>1
  <2> QED
    BY <2>1, <2>2, <2>3
<1> QED
  BY <1>3, <1>8, <1>9

(* An entry written is read as it was, wherever the string pool is.         *)
LEMMA EntryReadBack ==
  ASSUME NEW f \in Fields, NEW pool \in Nat
  PROVE  ReadExport(WrittenExport(f, pool), pool) = f
<1>1. f \in [string_idx : Nat, data_idx : 0 .. Values(3) - 1, data_type : 0 .. Values(1) - 1]
  BY InputsAssumption
<1>2. PICK c \in Nat \ {0}, e \in Nat \ {0} : c = Values(3) /\ e = Values(1)
  <2>1. \A n \in 0 .. 8 : Values(n) \in Nat \ {0}
    BY ByteValues
  <2>2. Values(3) \in Nat \ {0} /\ Values(1) \in Nat \ {0}
    BY <2>1
  <2> QED
    BY <2>2
<1>3. PICK s \in Nat, x \in 0 .. c - 1, y \in 0 .. e - 1 :
        s = f.string_idx /\ x = f.data_idx /\ y = f.data_type
  BY <1>1, <1>2
<1>4. f = [string_idx |-> s, data_idx |-> x, data_type |-> y]
  BY <1>1, <1>3
<1>5. PICK data \in Int : data = y * c + x /\ data = c * y + x
  <2>1. y * c = c * y /\ c * y \in Int
    OBVIOUS
  <2> QED
    BY <2>1
<1>6. data % c = x /\ data \div c = y
  BY <1>5, DivisionUnique
<1>7. y % e = y
  OBVIOUS
<1>8. (s + pool) - pool = s
  OBVIOUS
<1>9. WrittenExport(f, pool) = [string |-> s + pool, data |-> data]
  BY <1>2, <1>3, <1>5 DEF WrittenExport
<1>10. ReadExport([string |-> s + pool, data |-> data], pool)
         = [string_idx |-> s, data_idx |-> x, data_type |-> y]
  BY <1>2, <1>6, <1>7, <1>8 DEF ReadExport, BytesOf
<1> QED
  BY <1>4, <1>9, <1>10

(* Two entries swapped are each other's.                                    *)
LEMMA ExportsHold ==
  ASSUME NEW a \in Fields, NEW b \in Fields, NEW pool \in Nat
  PROVE  ExportsSwap(pool, <<a, b>>)
<1> DEFINE pair == <<a, b>>
           written == [k \in 1 .. 2 |-> WrittenExport(pair[k], pool)]
<1>1. /\ ReadExport(WrittenExport(a, pool), pool) = a
      /\ ReadExport(WrittenExport(b, pool), pool) = b
  BY EntryReadBack
<1>2. written[1] = WrittenExport(a, pool) /\ written[2] = WrittenExport(b, pool)
  OBVIOUS
<1>3. pair[1] = a /\ pair[2] = b /\ pair[3 - 1] = b /\ pair[3 - 2] = a
  OBVIOUS
<1> HIDE DEF written, pair
<1>4. Swapped(written, pool) = <<WrittenExport(b, pool), WrittenExport(a, pool)>>
  BY <1>1, <1>2 DEF Swapped
<1>5. ASSUME NEW k \in 1 .. 2
      PROVE  /\ ReadExport(written[k], pool) = pair[k]
             /\ ReadExport(Swapped(written, pool)[k], pool) = pair[3 - k]
  <2>1. k = 1 \/ k = 2
    OBVIOUS
  <2>2. Swapped(written, pool)[1] = WrittenExport(b, pool)
        /\ Swapped(written, pool)[2] = WrittenExport(a, pool)
    BY <1>4
  <2> QED
    BY <1>1, <1>2, <1>3, <2>1, <2>2
<1> QED
  BY <1>5 DEF ExportsSwap, written, pair

(* The inputs are packed by the rules of their kinds.                       *)
PackedGiven ==
  /\ input.kind = "word" => input.word \in 0 .. Values(8) - 1
  /\ input.kind = "array" => input.length \in Ints(4 * Unit) /\ input.type \in 0 .. 6
  /\ input.kind = "types" => \E n \in Nat : input.types \in [1 .. n -> 0 .. 4]
  /\ input.kind = "exports" =>
       input.pool \in Nat /\ \E a, b \in Fields : input.pair = <<a, b>>

(* They stay so.                                                            *)
LEMMA PackedInputs == InputSpec => []PackedGiven
<1>1. NoInput => PackedGiven
  BY DEF NoInput, PackedGiven
<1>2. ASSUME PackedGiven, SomeInput PROVE PackedGiven'
  <2>1. CASE \E w \in OperandWidths : \E a, b \in Ints(w) : Binary(w, a, b)
    BY <2>1 DEF Binary, PackedGiven
  <2>2. CASE \E word \in 0 .. Values(8) - 1 : Word(word)
    BY <2>2 DEF Word, PackedGiven
  <2>3. CASE \E length \in Ints(4 * Unit), type \in 0 .. 6 : Array(length, type)
    BY <2>3 DEF Array, PackedGiven
  <2>4. CASE \E n \in 0 .. MaxArguments : \E types \in [1 .. n -> 0 .. 4] : ArgTypes(types)
    <3>1. PICK n \in Nat : \E types \in [1 .. n -> 0 .. 4] : ArgTypes(types)
      BY <2>4, InputsAssumption
    <3>2. PICK types \in [1 .. n -> 0 .. 4] : ArgTypes(types)
      BY <3>1
    <3> QED
      BY <3>2 DEF ArgTypes, PackedGiven
  <2>5. CASE \E pool \in Pools, a, b \in Fields : Pair(pool, a, b)
    BY <2>5, InputsAssumption DEF Pair, PackedGiven
  <2>6. CASE \E file \in ClassFiles : File(file)
    BY <2>6 DEF File, PackedGiven
  <2>7. CASE \E tables \in Chains : Search(tables)
    BY <2>7 DEF Search, PackedGiven
  <2> QED
    BY <1>2, <2>1, <2>2, <2>3, <2>4, <2>5, <2>6, <2>7 DEF SomeInput
<1>3. PackedGiven /\ UNCHANGED input => PackedGiven'
  BY DEF PackedGiven
<1> QED
  BY <1>1, <1>2, <1>3, PTL DEF InputSpec

(* With bytes of any width and any number of arguments, whatever is packed  *)
(* into a word is read back by the accessors, signs included, and those of  *)
(* an instruction partition it.                                             *)
THEOREM PackedWordsAreReadBack == InputSpec => []PackedWordsReadBack
<1>1. ASSUME PackedGiven PROVE PackedWordsReadBack
  <2>1. CASE input.kind = "word"
    <3>1. FormatsCover(input.word)
      BY <1>1, <2>1, FormatsHold DEF PackedGiven
    <3> QED
      BY <2>1, <3>1 DEF PackedWordsReadBack
  <2>2. CASE input.kind = "array"
    <3>1. ArraysReadBack(input.length, input.type)
      BY <1>1, <2>2, ArraysHold DEF PackedGiven
    <3> QED
      BY <2>2, <3>1 DEF PackedWordsReadBack
  <2>3. CASE input.kind = "types"
    <3>1. PICK n \in Nat : input.types \in [1 .. n -> 0 .. 4]
      BY <1>1, <2>3 DEF PackedGiven
    <3>2. TypesReadBack(input.types)
      BY <3>1, TypesHold
    <3> QED
      BY <2>3, <3>2 DEF PackedWordsReadBack
  <2>4. CASE input.kind = "exports"
    <3>1. PICK a \in Fields, b \in Fields : input.pair = <<a, b>>
      BY <1>1, <2>4 DEF PackedGiven
    <3>2. ExportsSwap(input.pool, input.pair)
      BY <1>1, <2>4, <3>1, ExportsHold DEF PackedGiven
    <3> QED
      BY <2>4, <3>2 DEF PackedWordsReadBack
  <2>5. CASE input.kind \notin {"word", "array", "types", "exports"}
    BY <2>5 DEF PackedWordsReadBack
  <2> QED
    BY <2>1, <2>2, <2>3, <2>4, <2>5
<1> QED
  BY <1>1, PackedInputs, PTL

----------------------------------------------------------------------------
(* Powers and digits of slots.                                              *)

(* The powers in use are positive.                                          *)
LEMMA PowersArePositive == \A n \in 0 .. 2 * Width : 2 ^ n \in Nat \ {0}
<1>1. 2 * Width \in Nat /\ Doubling(2 * Width)
  BY ExecutorAssumption, PowersAssumption
<1> QED
  BY <1>1, PowersPositive

(* The power of the width of two slots is the square of that of one.        *)
LEMMA PowersMultiply == \A n \in 0 .. Width : 2 ^ (Width + n) = 2 ^ Width * 2 ^ n
<1>1. 2 * Width \in Nat /\ Doubling(2 * Width)
  BY ExecutorAssumption, PowersAssumption
<1>2. Width \in 0 .. 2 * Width /\ 2 * Width - Width = Width
  BY ExecutorAssumption
<1> QED
  BY <1>1, <1>2, PowersAdd

(* Twice the width of a slot, as a power.                                   *)
LEMMA TwoSlots == 2 ^ (2 * Width) = 2 ^ Width * 2 ^ Width
<1>1. Width \in Nat
  BY ExecutorAssumption
<1>2. Width \in 0 .. Width /\ 2 * Width = Width + Width
  BY <1>1
<1> QED
  BY <1>2, PowersMultiply

(* The widths the interpreter computes with.                                *)
Widths == {ByteWidth, 2 * ByteWidth, Width, 2 * Width}

(* What the conversions need of them, without exponents: the half of the    *)
(* range of a width and the whole of it.                                    *)
LEMMA HalfAndWhole ==
  ASSUME NEW w \in Widths
  PROVE  w \in Nat \ {0} /\ \E h \in Nat \ {0} : h = 2 ^ (w - 1) /\ 2 ^ w = 2 * h
<1>1. w \in 1 .. 2 * Width /\ w \in Nat \ {0} /\ Width \in Nat
  BY ExecutorAssumption DEF Widths
<1>2. w - 1 \in 0 .. 2 * Width
  BY <1>1
<1>3. 2 ^ (w - 1) \in Nat \ {0}
  BY <1>2, PowersArePositive
<1>4. 2 ^ w = 2 * 2 ^ (w - 1)
  BY <1>1, PowersAssumption DEF Doubling
<1> QED
  BY <1>1, <1>3, <1>4

(* The casts: to the unsigned type, back, and there and back.               *)
LEMMA CastsTyped ==
  ASSUME NEW w \in Widths, NEW x \in Int
  PROVE  /\ Unsigned(w, x) \in Patterns(w)
         /\ x \in Patterns(w) => Signed(w, x) \in Ints(w)
         /\ Wrap(w, x) \in Ints(w)
         /\ Ints(w) \subseteq Int /\ Patterns(w) \subseteq Nat
<1>1. PICK h \in Nat \ {0} : h = 2 ^ (w - 1) /\ 2 ^ w = 2 * h
  BY HalfAndWhole
<1>2. x % (2 * h) \in 0 .. 2 * h - 1
  BY <1>1
<1>3. Patterns(w) = 0 .. 2 * h - 1 /\ Ints(w) = -h .. h - 1
  BY <1>1 DEF Patterns, Ints, MinInt
<1>4. \A p \in 0 .. 2 * h - 1 : (IF p < h THEN p ELSE p - 2 * h) \in -h .. h - 1
  BY <1>1
<1>5. \A p : Signed(w, p) = IF p < h THEN p ELSE p - 2 * h
  BY <1>1 DEF Signed
<1>6. Unsigned(w, x) = x % (2 * h)
  BY <1>1 DEF Unsigned
<1>7. Unsigned(w, x) \in Patterns(w)
  BY <1>2, <1>3, <1>6
<1>8. x \in Patterns(w) => Signed(w, x) \in Ints(w)
  BY <1>3, <1>4, <1>5
<1>9. Wrap(w, x) \in Ints(w)
  BY <1>2, <1>3, <1>4, <1>5, <1>6 DEF Wrap
<1>10. Ints(w) \subseteq Int /\ Patterns(w) \subseteq Nat
  BY <1>3
<1> QED
  BY <1>7, <1>8, <1>9, <1>10

(* Two digits in base a make a number below its square, and back.           *)
LEMMA TwoDigits ==
  ASSUME NEW a \in Nat \ {0}, NEW lo \in 0 .. a - 1, NEW hi \in 0 .. a - 1
  PROVE  lo + a * hi \in 0 .. a * a - 1
<1>1. PICK z \in Nat : a = hi + 1 + z
  <2>1. a - 1 - hi \in Nat /\ a = hi + 1 + (a - 1 - hi)
    OBVIOUS
  <2> QED
    BY <2>1
<1>2. a * a = a * hi + a + a * z
  <2>1. a * (hi + 1 + z) = a * hi + a + a * z
    BY <1>1
  <2> QED
    BY <1>1, <2>1
<1>3. a * z \in Nat /\ a * hi \in Nat
  BY <1>1
<1>4. PICK u \in Nat, v \in Nat : u = a * z /\ v = a * hi
  BY <1>3
<1>5. a * a = v + a + u
  BY <1>2, <1>4
<1>6. lo + v \in 0 .. v + a + u - 1
  BY <1>4
<1> QED
  BY <1>4, <1>5, <1>6

(* The upper half of a pair of slots is a value of one slot.                *)
LEMMA UpperDigit ==
  ASSUME NEW a \in Nat \ {0}, NEW e \in Nat, e < a * a
  PROVE  e \div a \in 0 .. a - 1
BY QuotientBelow

----------------------------------------------------------------------------
(* Values of every operation.                                               *)

(* Every type takes one slot or two.                                        *)
LEMMA SizesAreWidths == \A t : Size(t) \in Widths
BY DEF Size, Widths

(* What is read of a frame has the type it is read with.                    *)
LEMMA ReadTyped ==
  ASSUME NEW locals \in [0 .. Slots - 1 -> Patterns(Width)],
         NEW t, NEW s, InFrame(t, s)
  PROVE  /\ Pattern(locals, t, s) \in Patterns(Size(t))
         /\ Decode(t, Pattern(locals, t, s)) \in Int
         /\ t = "R" => Decode(t, Pattern(locals, t, s)) \in Patterns(2 * Width)
         /\ t = "I" => Decode(t, Pattern(locals, t, s)) \in Ints(Width)
<1> DEFINE p == Pattern(locals, t, s)
<1>1. PICK a \in Nat \ {0} : a = 2 ^ Width /\ 2 ^ (2 * Width) = a * a
  <2>1. Width \in 0 .. 2 * Width
    BY ExecutorAssumption
  <2> QED
    BY <2>1, PowersArePositive, TwoSlots
<1>2. locals[s] \in Patterns(Width) /\ (Wide(t) => locals[s + 1] \in Patterns(Width))
  BY DEF InFrame
<1>3. p \in Patterns(Size(t))
  <2>1. CASE Wide(t)
    <3>1. PICK lo \in 0 .. a - 1, hi \in 0 .. a - 1 : lo = locals[s] /\ hi = locals[s + 1]
      BY <1>1, <1>2, <2>1 DEF Patterns
    <3>3. lo + a * hi \in 0 .. a * a - 1
      BY TwoDigits
    <3> QED
      BY <1>1, <2>1, <3>1, <3>3 DEF Pattern, Size, Patterns
  <2>2. CASE ~Wide(t)
    BY <1>2, <2>2 DEF Pattern, Size
  <2> QED
    BY <2>1, <2>2
<1>4. p \in Int /\ Signed(Size(t), p) \in Ints(Size(t)) /\ Signed(Size(t), p) \in Int
  BY <1>3, CastsTyped, SizesAreWidths
<1> HIDE DEF p
<1>5. Decode(t, p) \in Int
  BY <1>4 DEF Decode
<1>6. t = "R" => Decode(t, p) \in Patterns(2 * Width)
  BY <1>3 DEF Decode, Size, Wide
<1>7. t = "I" => Decode(t, p) \in Ints(Width)
  BY <1>4 DEF Decode, Size, Wide
<1> QED
  BY <1>3, <1>5, <1>6, <1>7 DEF p

(* What is written to a frame is of slots, whatever the value.              *)
LEMMA WrittenTyped ==
  ASSUME NEW locals \in [0 .. Slots - 1 -> Patterns(Width)],
         NEW t, NEW d \in 0 .. Slots - 1, NEW x \in Int
  PROVE  Written(locals, t, d, x) \in [0 .. Slots - 1 -> Patterns(Width)]
<1>1. PICK a \in Nat \ {0} : a = 2 ^ Width /\ 2 ^ (2 * Width) = a * a
  <2>1. Width \in 0 .. 2 * Width
    BY ExecutorAssumption
  <2> QED
    BY <2>1, PowersArePositive, TwoSlots
<1>2. PICK e \in Nat : e = Encode(t, x) /\ (Wide(t) => e < a * a)
  <2>1. \A y \in Int : Unsigned(Size(t), y) \in Patterns(Size(t))
    BY CastsTyped, SizesAreWidths
  <2>2. Encode(t, x) \in Patterns(Size(t))
    BY <2>1 DEF Encode
  <2>3. Patterns(Size(t)) \subseteq Nat
    BY CastsTyped, SizesAreWidths
  <2>4. Wide(t) => Patterns(Size(t)) = 0 .. a * a - 1
    BY <1>1 DEF Patterns, Size
  <2> QED
    BY <1>1, <2>2, <2>3, <2>4
<1>3. e % a \in 0 .. a - 1
  BY <1>1, <1>2
<1>4. Wide(t) => e \div a \in 0 .. a - 1
  BY <1>1, <1>2, UpperDigit
<1>5. Patterns(Width) = 0 .. a - 1
  BY <1>1 DEF Patterns
<1>6. \A s \in 0 .. Slots - 1 : locals[s] \in Patterns(Width)
  OBVIOUS
<1> QED
  BY <1>1, <1>2, <1>3, <1>4, <1>5, <1>6 DEF Written

(* A pattern of bits read as a number is an integer.                        *)
LEMMA OfBitsTyped ==
  ASSUME NEW w \in Widths, NEW bits
  PROVE  OfBits(w, bits) \in Int
<1>1. PICK h \in Nat \ {0} : h = 2 ^ (w - 1) /\ 2 ^ w = 2 * h
  BY HalfAndWhole
<1>2. \A p \in Int : Signed(w, p) \in Int
  BY <1>1 DEF Signed
<1>3. w \in Nat /\ w \in 0 .. w /\ Doubling(w)
  BY ExecutorAssumption, PowersAssumption DEF Widths, Doubling
<1>4. BitSum(w, bits)[w] \in Nat
  BY <1>3, BitSums
<1> QED
  BY <1>2, <1>4 DEF OfBits, BitSum

(* Shift counts are exponents of the width.                                 *)
LEMMA CountTyped ==
  ASSUME NEW w \in Widths, NEW b \in Int
  PROVE  2 ^ Count(w, b) \in Nat \ {0}
<1>1. w \in 1 .. 2 * Width
  BY ExecutorAssumption DEF Widths
<1>2. Unsigned(w, b) \in Nat
  BY CastsTyped
<1>3. Count(w, b) \in 0 .. w - 1
  BY <1>1, <1>2 DEF Count
<1>4. Count(w, b) \in 0 .. 2 * Width
  <2>1. Width \in Nat
    BY ExecutorAssumption
  <2> QED
    BY <1>1, <1>3, <2>1
<1> QED
  BY <1>4, PowersArePositive

NumericOps == {"ADD", "SUB", "RSUB", "MUL", "AND", "OR", "XOR", "SLL", "SRL", "SRA"}

(* Every operation on integers answers an integer, shifts included.         *)
LEMMA ComputeTyped ==
  ASSUME NEW w \in Widths, NEW a \in Int, NEW b \in Int, NEW op \in NumericOps
  PROVE  Compute(op, w, a, b) \in Int
<1>1. \A x \in Int : Wrap(w, x) \in Int /\ Unsigned(w, x) \in Int
  BY CastsTyped
<1>2. PICK c \in Nat \ {0} : c = 2 ^ Count(w, b)
  BY CountTyped
<1>3. \A p \in Int : Signed(w, p) \in Int
  <2>1. PICK h \in Nat \ {0} : h = 2 ^ (w - 1) /\ 2 ^ w = 2 * h
    BY HalfAndWhole
  <2> QED
    BY <2>1 DEF Signed
<1>4. PICK ua \in Int, ub \in Int : ua = Unsigned(w, a) /\ ub = Unsigned(w, b)
  BY <1>1
<1>5. AddSafe(w, a, b) \in Int /\ SubSafe(w, a, b) \in Int /\ SubSafe(w, b, a) \in Int
  BY <1>1, <1>4 DEF AddSafe, SubSafe
<1>6. MulSafe(w, a, b) \in Int
  <2>1. ua * ub \in Int
    OBVIOUS
  <2> QED
    BY <1>1, <1>4, <2>1 DEF MulSafe
<1>7. SllSafe(w, a, b) \in Int
  <2>1. ua * c \in Int
    OBVIOUS
  <2> QED
    BY <1>1, <1>2, <1>4, <2>1 DEF SllSafe
<1>8. SrlSafe(w, a, b) \in Int
  <2>1. ua \div c \in Int
    OBVIOUS
  <2> QED
    BY <1>2, <1>3, <1>4, <2>1 DEF SrlSafe
<1>9. SraSafe(w, a, b) \in Int
  <2>1. a \div c \in Int
    OBVIOUS
  <2> QED
    BY <1>2, <2>1 DEF SraSafe
<1>10. AndSafe(w, a, b) \in Int /\ OrSafe(w, a, b) \in Int /\ XorSafe(w, a, b) \in Int
  BY OfBitsTyped DEF AndSafe, OrSafe, XorSafe
<1> QED
  BY <1>5, <1>6, <1>7, <1>8, <1>9, <1>10 DEF Compute, NumericOps

(* A quotient or a remainder that is answered is a number.                  *)
LEMMA DivisionTyped ==
  ASSUME NEW w \in Widths, NEW a \in Int, NEW b \in Int
  PROVE  /\ DivSafe(w, a, b).tag \in {"none", "trap", "some"}
         /\ ModSafe(w, a, b).tag \in {"none", "trap", "some"}
         /\ DivSafe(w, a, b).tag = "some" => DivSafe(w, a, b).v \in Int
         /\ ModSafe(w, a, b).tag = "some" => ModSafe(w, a, b).v \in Int
<1>1. ASSUME b # 0 PROVE Quotient(a, b) \in Int
  <2>1. Magnitude(a) \in Nat /\ Magnitude(b) \in Nat \ {0}
    BY <1>1 DEF Magnitude
  <2>2. PICK q \in Nat : q = Magnitude(a) \div Magnitude(b)
    BY <2>1
  <2> QED
    BY <2>2 DEF Quotient
<1>2. ASSUME b # 0 PROVE Remainder(a, b) \in Int
  <2>1. PICK q \in Int : q = Quotient(a, b)
    BY <1>1, <1>2
  <2>2. a - b * q \in Int
    OBVIOUS
  <2> QED
    BY <2>1, <2>2 DEF Remainder
<1>3. CASE b = 0
  BY <1>3 DEF DivSafe, ModSafe, None
<1>4. CASE b # 0
  <2>1. PICK q \in Int, m \in Int : q = Quotient(a, b) /\ m = Remainder(a, b)
    BY <1>1, <1>2, <1>4
  <2>2. CASE Overflows(w, a, b)
    BY <1>4, <2>2 DEF DivSafe, ModSafe, Trap
  <2>3. CASE ~Overflows(w, a, b)
    BY <1>4, <2>1, <2>3 DEF DivSafe, ModSafe, Some
  <2> QED
    BY <2>2, <2>3
<1> QED
  BY <1>3, <1>4

(* The bounds test lets through only indices of the array: one that is      *)
(* negative is at least half the range when it is unsigned, and no array    *)
(* is so long.                                                              *)
LEMMA InRangeIsIndex ==
  ASSUME NEW i \in Ints(Width), NEW length \in Nat, length < 2 ^ (Width - 1),
         InRange(length, i)
  PROVE  i + 1 \in 1 .. length
<1>1. PICK h \in Nat \ {0} : h = 2 ^ (Width - 1) /\ 2 ^ Width = 2 * h
  BY HalfAndWhole DEF Widths
<1>2. i \in -h .. h - 1 /\ length < h
  BY <1>1 DEF Ints, MinInt
<1>3. i % (2 * h) < length % (2 * h)
  BY <1>1 DEF InRange, Unsigned
<1>4. length % (2 * h) = length
  BY <1>2
<1>5. CASE i >= 0
  <2>1. i % (2 * h) = i
    BY <1>2, <1>5
  <2> QED
    BY <1>2, <1>3, <1>4, <1>5, <2>1
<1>6. CASE i < 0
  <2>1. i % (2 * h) = i + 2 * h
    BY <1>2, <1>6
  <2> QED
    BY <1>2, <1>3, <1>4, <1>6, <2>1
<1> QED
  BY <1>2, <1>5, <1>6

----------------------------------------------------------------------------
(* The inductive invariant.  Beside MachineSound: a frame ends no sooner    *)
(* than its number says, which is why as many as the stack has units fit;   *)
(* arrays are no longer than an int counts; and what access has strayed is  *)
(* wider than a byte.                                                       *)

FramesEnd == \A i \in DOMAIN stack : stack[i].end >= i

Control ==
  /\ stack \in Seq(Frames)
  /\ FramesEnd
  /\ pc \in 0 .. PcLimit - 1
  /\ depth \in {0, 1} /\ depth <= Len(stack)
  /\ raised \in {"no", "thrown", "forgot"}
  /\ PcAtInstruction
  /\ OnlyWidthsStray

Objects == {RawObject} \cup Arrays \cup Instances

ShortArrays ==
  \A r \in DOMAIN heap : heap[r] \in Arrays => Len(heap[r].cells) < 2 ^ (Width - 1)

World ==
  /\ heap \in Seq(Objects) /\ Len(heap) <= MaxObjects
  /\ ShortArrays
  /\ loaded \subseteq Loadable
  /\ DOMAIN statics = DOMAIN StaticFields
  /\ \A c \in DOMAIN statics : statics[c] \in [StaticFields[c] -> Ints(Width)]

IInv == Control /\ World

(* What the loop has when it runs: a frame, and an instruction of which the *)
(* assumption speaks.                                                       *)
LEMMA Fetches ==
  ASSUME Control, Running
  PROVE  /\ Len(stack) \in DOMAIN stack /\ stack # <<>> /\ Current \in Frames
         /\ Current.method \in DOMAIN Code
         /\ Current.locals \in [0 .. Slots - 1 -> Patterns(Width)]
         /\ \A o \in Operands(Instr) : InFrame(o[1], o[2])
         /\ Instr.op # "ARGS"
         /\ Instr.dest \in 0 .. Slots - 1 /\ Instr.imm \in Int
         /\ Instr.op \in {"BLT", "BLE", "BEQ", "BNULL", "BU"} =>
              IsInstruction(Current.method, Instr.target)
         /\ Instr.op \notin {"BU", "RET", "SCALL", "VCALL", "DCALL", "ARGS"} =>
              IsInstruction(Current.method, NextPc)
<1>1. Len(stack) \in DOMAIN stack /\ stack # <<>> /\ Current \in Frames
  BY DEF Control, Running, Current
<1>2. Current.method \in DOMAIN Code /\ Current.locals \in [0 .. Slots - 1 -> Patterns(Width)]
  BY <1>1 DEF Frames
<1>3. pc \in DOMAIN Code[Current.method] /\ Instr.op # "ARGS"
  BY DEF Control, PcAtInstruction, IsInstruction, Instr
<1>4. LET i == Code[Current.method][pc] IN
        /\ \A o \in Operands(i) : InFrame(o[1], o[2])
        /\ i.dest \in 0 .. Slots - 1 /\ i.imm \in Int
        /\ i.op \in {"BLT", "BLE", "BEQ", "BNULL", "BU"} =>
             IsInstruction(Current.method, i.target)
        /\ i.op \notin {"BU", "RET", "SCALL", "VCALL", "DCALL", "ARGS"} =>
             IsInstruction(Current.method, (pc + 1) % PcLimit)
  BY <1>2, <1>3, CodeAssumption
<1> QED
  BY <1>1, <1>2, <1>3, <1>4 DEF Instr, NextPc

(* A word after another, and the place of an instruction, are places.       *)
LEMMA Places ==
  ASSUME Control
  PROVE  /\ NextPc \in 0 .. PcLimit - 1
         /\ \A m \in DOMAIN Code : \A at : IsInstruction(m, at) => at \in 0 .. PcLimit - 1
<1>1. PcLimit \in Nat \ {0} /\ pc \in Nat
  BY ExecutorAssumption DEF Control
<1>2. NextPc \in 0 .. PcLimit - 1
  BY <1>1 DEF NextPc
<1>3. ASSUME NEW m \in DOMAIN Code, NEW at, IsInstruction(m, at)
      PROVE  at \in 0 .. PcLimit - 1
  BY <1>3, CodeAssumption DEF IsInstruction
<1> QED
  BY <1>2, <1>3

(* What an instruction reads of the current frame has the type it reads.    *)
LEMMA ReadsTyped ==
  ASSUME Control, Running, NEW t, NEW s, <<t, s>> \in Operands(Instr)
  PROVE  /\ Read(t, s) \in Int
         /\ t = "R" => Read(t, s) \in Patterns(2 * Width)
         /\ t = "I" => Read(t, s) \in Ints(Width)
<1>1. InFrame(t, s)
  <2>1. \A o \in Operands(Instr) : InFrame(o[1], o[2])
    BY Fetches
  <2> QED
    BY <2>1
<1> QED
  BY <1>1, Fetches, ReadTyped DEF Read

----------------------------------------------------------------------------
(* The ways an instruction ends.                                            *)

(* A result is written and the next instruction follows.                    *)
LEMMA WriteBackKeeps ==
  ASSUME Control, Running, NEW t, NEW x \in Int, WriteBack(t, x),
         Instr.op \notin {"BU", "RET", "SCALL", "VCALL", "DCALL", "ARGS"}
  PROVE  Control'
<1>1. PICK n \in Nat \ {0} : n = Len(stack) /\ n \in DOMAIN stack
  BY Fetches DEF Control
<1>2. PICK f \in [0 .. Slots - 1 -> Patterns(Width)] :
        f = Written(stack[n].locals, t, Instr.dest, x)
  BY <1>1, Fetches, WrittenTyped DEF Current
<1>3. stack' = [stack EXCEPT ![n].locals = f]
  BY <1>1, <1>2 DEF WriteBack
<1>5. PICK g \in Frames : g = [stack[n] EXCEPT !.locals = f] /\ g.end = stack[n].end
                          /\ g.method = stack[n].method
  <2>1. PICK r \in Frames : r = stack[n]
    BY <1>1 DEF Control
  <2>2. r = [method |-> r.method, end |-> r.end, address |-> r.address,
             offset |-> r.offset, locals |-> r.locals]
    BY DEF Frames
  <2>3. [r EXCEPT !.locals = f] =
          [method |-> r.method, end |-> r.end, address |-> r.address,
           offset |-> r.offset, locals |-> f]
    BY <2>2
  <2>4. [method |-> r.method, end |-> r.end, address |-> r.address,
         offset |-> r.offset, locals |-> f] \in Frames
    BY DEF Frames
  <2> QED
    BY <2>1, <2>3, <2>4
<1>6. stack' = [stack EXCEPT ![n] = g]
  BY <1>3, <1>5
<1>7. stack' \in Seq(Frames) /\ Len(stack') = Len(stack) /\ DOMAIN stack' = DOMAIN stack
      /\ stack'[n] = g /\ \A i \in DOMAIN stack : i # n => stack'[i] = stack[i]
  BY <1>1, <1>5, <1>6 DEF Control
<1>8. FramesEnd'
  BY <1>5, <1>7 DEF Control, FramesEnd
<1>9. PcAtInstruction'
  <2>1. Current'.method = Current.method
    BY <1>1, <1>5, <1>7 DEF Current
  <2>2. IsInstruction(Current.method, NextPc) /\ pc' = NextPc
    BY Fetches DEF WriteBack
  <2> QED
    BY <2>1, <2>2 DEF PcAtInstruction, IsInstruction
<1>10. pc' \in 0 .. PcLimit - 1
  BY Places DEF WriteBack
<1>11. UNCHANGED <<depth, raised, outcome, crash>>
  BY DEF WriteBack
<1> QED
  BY <1>7, <1>8, <1>9, <1>10, <1>11 DEF Control, OnlyWidthsStray, Running

(* Control goes on at a target that is an instruction.                      *)
LEMMA ContinueKeeps ==
  ASSUME Control, Running, NEW target, Continue(target),
         IsInstruction(Current.method, target)
  PROVE  Control'
<1>1. stack' = stack /\ pc' = target /\ UNCHANGED <<depth, raised, crash>>
  BY DEF Continue
<1>2. pc' \in 0 .. PcLimit - 1
  BY <1>1, Fetches, Places
<1>3. PcAtInstruction'
  BY <1>1 DEF PcAtInstruction, Current, IsInstruction
<1> QED
  BY <1>1, <1>2, <1>3 DEF Control, FramesEnd, OnlyWidthsStray, Running

(* An exception moves nothing but the instruction pointer, by one.          *)
LEMMA RaiseKeeps ==
  ASSUME Control, Running, Raise
  PROVE  Control'
<1>1. stack' = stack /\ pc' = NextPc /\ raised' = "thrown" /\ UNCHANGED <<depth, crash>>
  BY DEF Raise
<1> QED
  BY <1>1, Places DEF Control, FramesEnd, OnlyWidthsStray, PcAtInstruction, Running

(* A crash leaves everything else as it is.                                 *)
LEMMA StopKeeps ==
  ASSUME Control, Running, NEW why, why # "stray", Stop(why)
  PROVE  Control'
<1>1. crash' = why /\ UNCHANGED <<stack, pc, depth, raised>>
  BY DEF Stop
<1>2. PcAtInstruction'
  BY <1>1 DEF Control, PcAtInstruction, IsInstruction, Current, Running
<1> QED
  BY <1>1, <1>2 DEF Control, FramesEnd, OnlyWidthsStray

(* Nothing strays in a step after which the process runs on.                *)
LEMMA NoneStrays ==
  ASSUME crash' # "stray"
  PROVE  OnlyWidthsStray'
BY DEF OnlyWidthsStray

(* So does an access that strays because it is wide.                        *)
LEMMA StrayKeeps ==
  ASSUME Control, Running, Stop("stray"), Instr.op \in {"ALD", "ASR"},
         Bytes(Instr.ty) > 1, Read("I", Instr.src2) >= 0
  PROVE  Control'
<1>1. crash' = "stray" /\ UNCHANGED <<stack, pc, depth, raised>>
  BY DEF Stop
<1>2. PcAtInstruction'
  BY <1>1 DEF PcAtInstruction, Running
<1>3. Current' = Current /\ Instr' = Instr
  BY <1>1 DEF Current, Instr
<1>4. Read("I", Instr.src2)' = Read("I", Instr.src2)
  BY <1>3 DEF Read, Pattern, Decode, Wide, Size
<1>5. OnlyWidthsStray'
  BY <1>3, <1>4 DEF OnlyWidthsStray, Bytes
<1> QED
  BY <1>1, <1>2, <1>5 DEF Control, FramesEnd

(* A frame that fits keeps the ends in order, whoever pushes it.            *)
LEMMA PushKeepsFrames ==
  ASSUME Control, NEW m \in DOMAIN Code, NEW arg \in Patterns(Width),
         NEW address \in Nat, NEW offset \in 0 .. Slots - 1, Fits(m),
         stack' = Append(stack, Frame(m, arg, address, offset))
  PROVE  /\ stack' \in Seq(Frames) /\ FramesEnd'
         /\ Len(stack') = Len(stack) + 1
         /\ Current'.method = m
<1>1. End \in Nat /\ End >= Len(stack)
  <2>1. CASE stack = <<>>
    BY <2>1 DEF End
  <2>2. CASE stack # <<>>
    <3>1. Len(stack) \in DOMAIN stack /\ Current \in Frames
      BY <2>2 DEF Control, Current
    <3>2. Current.end >= Len(stack) /\ Current.end \in Nat
      <4>1. Current.end \in 1 .. StackSize
        BY <3>1 DEF Frames
      <4> QED
        BY <3>1, <4>1, ExecutorAssumption DEF Control, FramesEnd, Current
    <3> QED
      BY <2>2, <3>2 DEF End
  <2> QED
    BY <2>1, <2>2
<1>2. PICK e \in 1 .. StackSize : e = End + FrameSize[m] /\ e >= Len(stack) + 1
  <2>1. FrameSize[m] \in Nat \ {0} /\ StackSize \in Nat /\ Len(stack) \in Nat
    BY ExecutorAssumption DEF Control
  <2>2. PICK a \in Nat, b \in Nat \ {0}, n \in Nat :
          a = End /\ b = FrameSize[m] /\ n = Len(stack)
    BY <1>1, <2>1
  <2>3. a + b <= StackSize /\ a >= n
    BY <1>1, <2>2 DEF Fits
  <2>4. a + b \in 1 .. StackSize /\ a + b >= n + 1
    BY <2>1, <2>3
  <2> QED
    BY <2>2, <2>4
<1>3. [s \in 0 .. Slots - 1 |-> IF s = 0 THEN arg ELSE 0] \in [0 .. Slots - 1 -> Patterns(Width)]
  <2>1. 0 \in Patterns(Width)
    <3>1. Width \in 0 .. 2 * Width
      BY ExecutorAssumption
    <3>2. 2 ^ Width \in Nat \ {0}
      BY <3>1, PowersArePositive
    <3> QED
      BY <3>2 DEF Patterns
  <2> QED
    BY <2>1
<1>4. PICK f \in Frames : f = Frame(m, arg, address, offset) /\ f.end = e /\ f.method = m
  <2>1. Frame(m, arg, address, offset) =
          [method |-> m, end |-> e, address |-> address, offset |-> offset,
           locals |-> [s \in 0 .. Slots - 1 |-> IF s = 0 THEN arg ELSE 0]]
    BY <1>2 DEF Frame
  <2>2. PICK locals \in [0 .. Slots - 1 -> Patterns(Width)] :
          locals = [s \in 0 .. Slots - 1 |-> IF s = 0 THEN arg ELSE 0]
    BY <1>3
  <2>3. Frame(m, arg, address, offset)
          = [method |-> m, end |-> e, address |-> address, offset |-> offset, locals |-> locals]
    BY <2>1, <2>2
  <2>4. [method |-> m, end |-> e, address |-> address, offset |-> offset, locals |-> locals]
          \in Frames
    BY <1>2 DEF Frames
  <2> QED
    BY <2>3, <2>4
<1>5. PICK n \in Nat : n = Len(stack)
  BY DEF Control
<1>6. stack' = Append(stack, f)
  BY <1>4
<1>7. stack' \in Seq(Frames) /\ Len(stack') = n + 1 /\ stack'[n + 1] = f
      /\ \A i \in 1 .. n : stack'[i] = stack[i]
  BY <1>5, <1>6 DEF Control
<1>8. FramesEnd'
  <2>1. \A i \in 1 .. n : stack[i].end >= i
    BY <1>5 DEF Control, FramesEnd
  <2>2. \A i \in 1 .. n : stack'[i].end >= i
    BY <1>7, <2>1
  <2>3. stack'[n + 1].end >= n + 1
    BY <1>2, <1>4, <1>5, <1>7
  <2>4. DOMAIN stack' = 1 .. n + 1 /\ \A i \in 1 .. n + 1 : i \in 1 .. n \/ i = n + 1
    BY <1>5, <1>7
  <2> QED
    BY <2>2, <2>3, <2>4 DEF FramesEnd
<1> QED
  BY <1>4, <1>5, <1>7, <1>8 DEF Current

(* A call puts one frame on the others, or raises an overflow.              *)
LEMMA CallKeeps ==
  ASSUME Control, Running, NEW m \in DOMAIN Code, NEW arg \in Patterns(Width), Call(m, arg)
  PROVE  Control'
<1>1. CASE Raise
  BY <1>1, RaiseKeeps
<1>2. CASE /\ Fits(m)
           /\ stack' = Append(stack, Frame(m, arg, ReturnAddress(m), Instr.dest))
           /\ pc' = 0
           /\ UNCHANGED <<depth, raised, outcome, crash>>
  <2>1. ReturnAddress(m) \in Nat
    <3>1. ArgCount[m] \in Nat /\ pc \in Nat
      BY ExecutorAssumption DEF Control
    <3> QED
      BY <3>1 DEF ReturnAddress
  <2>2. Instr.dest \in 0 .. Slots - 1
    BY Fetches
  <2>3. /\ stack' \in Seq(Frames) /\ FramesEnd'
        /\ Len(stack') = Len(stack) + 1
        /\ Current'.method = m
    BY <1>2, <2>1, <2>2, PushKeepsFrames
  <2>4. PcAtInstruction'
    <3>1. IsInstruction(m, 0)
      BY CodeAssumption
    <3> QED
      BY <1>2, <2>3, <3>1 DEF PcAtInstruction, IsInstruction
  <2>5. pc' \in 0 .. PcLimit - 1
    BY <1>2, ExecutorAssumption
  <2>6. depth' \in {0, 1} /\ depth' <= Len(stack')
    <3>1. Len(stack) \in Nat /\ depth \in {0, 1} /\ depth <= Len(stack) /\ depth' = depth
      BY <1>2 DEF Control
    <3> QED
      BY <2>3, <3>1
  <2> QED
    BY <1>2, <2>3, <2>4, <2>5, <2>6 DEF Control, OnlyWidthsStray, Running
<1> QED
  BY <1>1, <1>2 DEF Call

(* Only classes that can be loaded are.                                     *)
LEMMA LoadKeeps ==
  ASSUME loaded \subseteq Loadable, NEW c, Load(c)
  PROVE  loaded' \subseteq Loadable
BY DEF Load, Resolved

(* What objects, fields and classes hold, when none of them changes.        *)
LEMMA WorldKept ==
  ASSUME World, UNCHANGED world
  PROVE  World'
BY DEF World, world, ShortArrays

(* One more object, within the limit.                                       *)
LEMMA AppendKeeps ==
  ASSUME World, NEW x \in Objects, Len(heap) + 1 <= MaxObjects,
         x \in Arrays => Len(x.cells) < 2 ^ (Width - 1),
         heap' = Append(heap, x)
  PROVE  /\ heap' \in Seq(Objects) /\ Len(heap') <= MaxObjects /\ ShortArrays'
         /\ Len(heap') = Len(heap) + 1
<1>1. PICK n \in Nat : n = Len(heap)
  BY DEF World
<1>2. heap' \in Seq(Objects) /\ Len(heap') = n + 1 /\ heap'[n + 1] = x
      /\ \A r \in 1 .. n : heap'[r] = heap[r]
  BY <1>1 DEF World
<1>3. \A r \in 1 .. n + 1 : r \in 1 .. n \/ r = n + 1
  BY <1>1
<1>4. DOMAIN heap' = 1 .. n + 1 /\ DOMAIN heap = 1 .. n
  BY <1>1, <1>2 DEF World
<1>5. ShortArrays'
  <2>1. \A r \in 1 .. n : heap'[r] \in Arrays => Len(heap'[r].cells) < 2 ^ (Width - 1)
    BY <1>2, <1>4 DEF World, ShortArrays
  <2>2. Arrays' = Arrays
    BY DEF Arrays, Ints, MinInt
  <2> QED
    BY <1>2, <1>3, <1>4, <2>1, <2>2 DEF ShortArrays
<1> QED
  BY <1>1, <1>2, <1>5

----------------------------------------------------------------------------
(* Every action.                                                            *)

(* The numeric instructions, divisions by zero included.                    *)
LEMMA ArithmeticSteps ==
  ASSUME IInv, NumericOp \/ DivMod \/ FloatOp
  PROVE  IInv'
<1>0. Control /\ World
  BY DEF IInv
<1>1. World'
  BY <1>0, WorldKept DEF NumericOp, DivMod, FloatOp
<1>2. Running /\ Instr.op \in NumericOps \cup {"DIV", "RDIV", "MOD", "FADD", "FSUB", "FMUL", "FDIV", "FMOD"}
  BY DEF NumericOp, DivMod, FloatOp, Fetched, NumericOps
<1>3. Instr.imm \in Int /\ Size(Instr.ty) \in Widths
  BY <1>0, <1>2, Fetches, SizesAreWidths
<1>4. /\ <<Instr.ty, Instr.src1>> \in Operands(Instr)
      /\ ~Instr.immediate => <<Instr.ty, Instr.src2>> \in Operands(Instr)
  BY <1>2 DEF Operands, NumericOps
<1>5. PICK a \in Int : a = Read(Instr.ty, Instr.src1)
  BY <1>0, <1>2, <1>4, ReadsTyped
<1>6. PICK b \in Int : b = Operand2
  <2>1. CASE Instr.immediate
    BY <1>3, <2>1, CastsTyped DEF Operand2
  <2>2. CASE ~Instr.immediate
    BY <1>0, <1>2, <1>4, <2>2, ReadsTyped DEF Operand2
  <2> QED
    BY <2>1, <2>2
<1>7. CASE NumericOp
  <2>1. Instr.op \in NumericOps
    BY <1>7 DEF NumericOp, Fetched, NumericOps
  <2>2. PICK x \in Int : x = Compute(Instr.op, Size(Instr.ty), a, b)
    BY <1>3, <2>1, ComputeTyped
  <2>3. WriteBack(Instr.ty, x)
    BY <1>5, <1>6, <1>7, <2>2 DEF NumericOp
  <2>4. Control'
    BY <1>0, <1>2, <2>1, <2>3, WriteBackKeeps DEF NumericOps
  <2> QED
    BY <1>1, <2>4 DEF IInv
<1>8. CASE DivMod
  <2>1. Instr.op \in {"DIV", "RDIV", "MOD"}
    BY <1>8 DEF DivMod, Fetched
  <2>2. PICK r : r = DivideOutcome(Size(Instr.ty), a, b)
    OBVIOUS
  <2>3. r.tag = "some" => r.v \in Int
    BY <1>3, <2>1, <2>2, DivisionTyped DEF DivideOutcome
  <2>4. \/ Raise
        \/ Stop("overflow")
        \/ r.tag = "some" /\ WriteBack(Instr.ty, r.v)
    BY <1>5, <1>6, <1>8, <2>2 DEF DivMod
  <2>5. CASE Raise
    BY <1>0, <1>1, <1>2, <2>5, RaiseKeeps DEF IInv
  <2>6. CASE Stop("overflow")
    BY <1>0, <1>1, <1>2, <2>6, StopKeeps DEF IInv
  <2>7. CASE r.tag = "some" /\ WriteBack(Instr.ty, r.v)
    BY <1>0, <1>1, <1>2, <2>1, <2>3, <2>7, WriteBackKeeps DEF IInv
  <2> QED
    BY <2>4, <2>5, <2>6, <2>7
<1>9. CASE FloatOp
  <2>1. Instr.op \in {"FADD", "FSUB", "FMUL", "FDIV", "FMOD"}
    BY <1>9 DEF FloatOp, Fetched
  <2>2. PICK x \in Ints(Size(Instr.ty)) : WriteBack(Instr.ty, x)
    BY <1>9 DEF FloatOp
  <2>3. x \in Int
    BY <1>3, <2>2, CastsTyped
  <2> QED
    BY <1>0, <1>1, <1>2, <2>1, <2>2, <2>3, WriteBackKeeps DEF IInv
<1> QED
  BY <1>7, <1>8, <1>9

(* The branches, the jump and EXC.                                          *)
LEMMA ControlSteps ==
  ASSUME IInv, Branch \/ BranchNull \/ Jump \/ Exc
  PROVE  IInv'
<1>0. Control /\ World /\ Running
  BY DEF IInv, Branch, BranchNull, Jump, Exc, Fetched
<1>1. World'
  BY <1>0, WorldKept DEF Branch, BranchNull, Jump, Exc
<1>2. PICK target : Continue(target) /\ IsInstruction(Current.method, target)
  <2>1. CASE Branch
    BY <1>0, <2>1, Fetches DEF Branch, Fetched
  <2>2. CASE BranchNull
    BY <1>0, <2>2, Fetches DEF BranchNull, Fetched
  <2>3. CASE Jump
    BY <1>0, <2>3, Fetches DEF Jump, Fetched
  <2>4. CASE Exc
    BY <1>0, <2>4, Fetches DEF Exc, Fetched
  <2> QED
    BY <2>1, <2>2, <2>3, <2>4
<1> QED
  BY <1>0, <1>1, <1>2, ContinueKeeps DEF IInv

(* The casts, and the constants of the instruction itself.                  *)
LEMMA ConversionSteps ==
  ASSUME IInv, Cast \/ Reinterpret \/ LoadConstant
  PROVE  IInv'
<1>0. Control /\ World /\ Running /\ Instr.op \in {"CAST", "AS", "LUI", "LDI", "LNUL"}
  BY DEF IInv, Cast, Reinterpret, LoadConstant, Fetched
<1>1. World'
  BY <1>0, WorldKept DEF Cast, Reinterpret, LoadConstant
<1>2. \E t : \E x \in Int : WriteBack(t, x)
  <2>1. CASE Cast
    <3>1. <<Instr.ty, Instr.src1>> \in Operands(Instr)
      BY <2>1 DEF Cast, Fetched, Operands
    <3> QED
      BY <1>0, <2>1, <3>1, ReadsTyped DEF Cast
  <2>2. CASE Reinterpret
    <3>1. <<Instr.ty, Instr.src1>> \in Operands(Instr)
      BY <2>2 DEF Reinterpret, Fetched, Operands
    <3>2. PICK a \in Int : a = Read(Instr.ty, Instr.src1)
      BY <1>0, <3>1, ReadsTyped
    <3>3. PICK p \in Int : p = Encode(Instr.ty, a)
      <4>1. \A y \in Int : Unsigned(Size(Instr.ty), y) \in Int
        BY CastsTyped, SizesAreWidths
      <4> QED
        BY <4>1 DEF Encode
    <3>4. Decode(Instr.to, p) \in Int
      <4>1. Signed(Size(Instr.to), p) \in Int
        <5>1. Size(Instr.to) \in Widths
          BY SizesAreWidths
        <5>2. PICK h \in Nat \ {0} : h = 2 ^ (Size(Instr.to) - 1) /\ 2 ^ Size(Instr.to) = 2 * h
          BY <5>1, HalfAndWhole
        <5> QED
          BY <5>2 DEF Signed
      <4> QED
        BY <4>1 DEF Decode
    <3>5. WriteBack(Instr.to, Decode(Instr.to, p))
      BY <2>2, <3>2, <3>3 DEF Reinterpret
    <3> QED
      BY <3>4, <3>5
  <2>3. CASE LoadConstant
    <3>1. Instr.imm \in Int /\ 0 \in Int
      BY <1>0, Fetches
    <3>2. Instr.op \in {"LUI", "LDI", "LNUL"}
      BY <2>3 DEF LoadConstant, Fetched
    <3>3. WriteBack("L", Instr.imm) \/ WriteBack("I", Instr.imm) \/ WriteBack("R", 0)
      BY <2>3, <3>2 DEF LoadConstant
    <3> QED
      BY <3>1, <3>3
  <2> QED
    BY <2>1, <2>2, <2>3
<1>3. Control'
  <2>1. PICK t : \E x \in Int : WriteBack(t, x)
    BY <1>2
  <2> QED
    BY <1>0, <2>1, WriteBackKeeps
<1> QED
  BY <1>1, <1>3 DEF IInv

(* What a reference that leads to an array or to an object leads to.        *)
LEMMA KindOf ==
  ASSUME World, NEW r
  PROVE  /\ Kind(r) = "array" => r \in DOMAIN heap /\ heap[r] \in Arrays
         /\ Kind(r) = "object" => r \in DOMAIN heap /\ heap[r] \in Instances
<1>1. CASE r = 0
  BY <1>1 DEF Kind
<1>2. CASE r # 0 /\ r \notin 1 .. Len(heap)
  BY <1>2 DEF Kind
<1>3. CASE r # 0 /\ r \in 1 .. Len(heap)
  <2>1. r \in DOMAIN heap /\ heap[r] \in Objects
    BY <1>3 DEF World
  <2>2. Kind(r) = heap[r].kind
    BY <1>3 DEF Kind
  <2>3. /\ RawObject.kind = "raw"
        /\ \A x \in Arrays : x.kind = "array"
        /\ \A x \in Instances : x.kind = "object"
    BY DEF RawObject, Arrays, Instances
  <2> QED
    BY <2>1, <2>2, <2>3 DEF Objects
<1> QED
  BY <1>1, <1>2, <1>3

(* An object in the place of another of its kind.                           *)
LEMMA ReplaceKeeps ==
  ASSUME World, NEW r \in DOMAIN heap, NEW x \in Objects,
         x \in Arrays => Len(x.cells) < 2 ^ (Width - 1),
         heap' = [heap EXCEPT ![r] = x]
  PROVE  heap' \in Seq(Objects) /\ Len(heap') <= MaxObjects /\ ShortArrays'
<1>1. heap' \in Seq(Objects) /\ Len(heap') = Len(heap) /\ DOMAIN heap' = DOMAIN heap
      /\ \A k \in DOMAIN heap : heap'[k] = IF k = r THEN x ELSE heap[k]
  BY DEF World
<1>2. ShortArrays'
  <2>1. Arrays' = Arrays
    BY DEF Arrays, Ints, MinInt
  <2> QED
    BY <1>1, <2>1 DEF World, ShortArrays
<1> QED
  BY <1>1, <1>2 DEF World

(* A byte of a pattern is a pattern of a byte.                              *)
LEMMA ByteTyped ==
  ASSUME NEW p \in Nat, NEW k \in 0 .. 7
  PROVE  Byte(p, k) \in Patterns(ByteWidth)
<1>1. ByteWidth * k \in 0 .. 2 * Width
  <2>1. ByteWidth \in Nat /\ Width = 4 * ByteWidth
    BY ExecutorAssumption
  <2>2. k = 0 \/ k = 1 \/ k = 2 \/ k = 3 \/ k = 4 \/ k = 5 \/ k = 6 \/ k = 7
    OBVIOUS
  <2> QED
    BY <2>1, <2>2
<1>2. ByteWidth \in 0 .. 2 * Width
  BY ExecutorAssumption
<1>3. PICK d \in Nat \ {0} : d = 2 ^ (ByteWidth * k)
  BY <1>1, PowersArePositive
<1>4. PICK e \in Nat \ {0} : e = 2 ^ ByteWidth
  BY <1>2, PowersArePositive
<1>5. p \div d \in Nat
  BY <1>3
<1>6. (p \div d) % e \in 0 .. e - 1
  BY <1>4, <1>5
<1> QED
  BY <1>3, <1>4, <1>6 DEF Byte, Patterns

(* An element that is read is an integer, whatever the pattern.             *)
LEMMA ElementTyped ==
  ASSUME NEW t, NEW p \in Patterns(ByteWidth * Bytes(t))
  PROVE  Element(t, p) \in Int
<1>1. ByteWidth * Bytes(t) \in Widths
  <2>1. ByteWidth \in Nat /\ Width = 4 * ByteWidth
    BY ExecutorAssumption
  <2>2. Bytes(t) = 1 \/ Bytes(t) = 2 \/ Bytes(t) = 4 \/ Bytes(t) = 8
    BY DEF Bytes
  <2> QED
    BY <2>1, <2>2 DEF Widths
<1>2. p \in Nat
  BY <1>1, CastsTyped
<1>3. \A w \in Widths : Signed(w, p) \in Int
  <2> SUFFICES ASSUME NEW w \in Widths PROVE Signed(w, p) \in Int
    OBVIOUS
  <2>1. PICK h \in Nat \ {0} : h = 2 ^ (w - 1) /\ 2 ^ w = 2 * h
    BY HalfAndWhole
  <2> QED
    BY <1>2, <2>1 DEF Signed
<1> QED
  BY <1>1, <1>2, <1>3, SizesAreWidths DEF Element, Decode

(* A byte that is stored is one of an array of bytes.                       *)
LEMMA StoredTyped ==
  ASSUME NEW p \in Nat, NEW at \in Int, NEW n \in 0 .. 8, NEW c \in at + 1 .. at + n
  PROVE  Signed(ByteWidth, Byte(p, c - (at + 1))) \in Ints(ByteWidth)
<1>1. c - (at + 1) \in 0 .. 7
  OBVIOUS
<1>2. Byte(p, c - (at + 1)) \in Patterns(ByteWidth)
  BY <1>1, ByteTyped
<1>3. Byte(p, c - (at + 1)) \in Int
  BY <1>2, CastsTyped DEF Widths
<1> QED
  BY <1>2, <1>3, CastsTyped DEF Widths

(* A sequence and its length.                                               *)
LEMMA SequenceOf ==
  ASSUME NEW S, NEW m \in Nat, NEW f \in [1 .. m -> S]
  PROVE  f \in Seq(S) /\ Len(f) = m
OBVIOUS

(* Where an index that passes the bounds test leads: to bytes of the array, *)
(* unless the element is wider than one.                                    *)
LEMMA AccessPlaced ==
  ASSUME World, NEW r, NEW i \in Ints(Width), Kind(r) = "array",
         InRange(Len(heap[r].cells), i)
  PROVE  /\ r \in DOMAIN heap /\ heap[r] \in Arrays
         /\ heap[r].cells \in Seq(Ints(ByteWidth))
         /\ Len(heap[r].cells) < 2 ^ (Width - 1)
         /\ i >= 0
         /\ \A t : ~(Place(t, i) \subseteq DOMAIN heap[r].cells) => Bytes(t) > 1
<1>1. r \in DOMAIN heap /\ heap[r] \in Arrays
  BY KindOf
<1>2. heap[r].cells \in Seq(Ints(ByteWidth)) /\ Len(heap[r].cells) < 2 ^ (Width - 1)
  BY <1>1 DEF World, ShortArrays, Arrays
<1>3. i + 1 \in 1 .. Len(heap[r].cells)
  BY <1>2, InRangeIsIndex
<1>4. i \in Int
  BY CastsTyped DEF Widths
<1>5. i >= 0
  BY <1>3, <1>4
<1>6. ASSUME NEW t, ~(Place(t, i) \subseteq DOMAIN heap[r].cells)
      PROVE  Bytes(t) > 1
  <2>1. Bytes(t) = 1 \/ Bytes(t) > 1
    BY DEF Bytes
  <2>2. ASSUME Bytes(t) = 1 PROVE FALSE
    <3>1. Place(t, i) = {i + 1}
      BY <1>4, <2>2 DEF Place
    <3>2. i + 1 \in DOMAIN heap[r].cells
      BY <1>2, <1>3
    <3> QED
      BY <1>6, <3>1, <3>2
  <2> QED
    BY <2>1, <2>2
<1> QED
  BY <1>1, <1>2, <1>5, <1>6

(* An array loaded from is left as it was, and what is read is a number.    *)
LEMMA ArrayLoadStep ==
  ASSUME IInv, ArrayLoad
  PROVE  IInv'
<1>0. Control /\ World /\ Running /\ Instr.op = "ALD"
  BY DEF IInv, ArrayLoad, Fetched
<1> DEFINE r == Read("R", Instr.src1)
           i == Read("I", Instr.src2)
           t == Instr.ty
<1>1. i \in Ints(Width)
  <2>1. <<"I", Instr.src2>> \in Operands(Instr)
    BY <1>0 DEF Operands
  <2> QED
    BY <1>0, <2>1, ReadsTyped
<1>2. World'
  BY <1>0, WorldKept DEF ArrayLoad
<1>3. \/ Stop("wild")
      \/ Raise
      \/ \E p \in Patterns(ByteWidth * Bytes(t)) : WriteBack(SlotType(t), Element(t, p))
      \/ /\ Kind(r) = "array"
         /\ InRange(Len(heap[r].cells), i)
         /\ ~(Place(t, i) \subseteq DOMAIN heap[r].cells)
         /\ Stop("stray")
  BY DEF ArrayLoad
<1>4. CASE Stop("wild")
  BY <1>0, <1>2, <1>4, StopKeeps DEF IInv
<1>5. CASE Raise
  BY <1>0, <1>2, <1>5, RaiseKeeps DEF IInv
<1>6. CASE \E p \in Patterns(ByteWidth * Bytes(t)) : WriteBack(SlotType(t), Element(t, p))
  <2>1. PICK p \in Patterns(ByteWidth * Bytes(t)) : WriteBack(SlotType(t), Element(t, p))
    BY <1>6
  <2>2. Element(t, p) \in Int
    BY ElementTyped
  <2>3. Control'
    BY <1>0, <2>1, <2>2, WriteBackKeeps
  <2> QED
    BY <1>2, <2>3 DEF IInv
<1>7. CASE /\ Kind(r) = "array"
           /\ InRange(Len(heap[r].cells), i)
           /\ ~(Place(t, i) \subseteq DOMAIN heap[r].cells)
           /\ Stop("stray")
  <2>1. i >= 0 /\ Bytes(t) > 1
    BY <1>0, <1>1, <1>7, AccessPlaced
  <2>2. Control'
    BY <1>0, <1>7, <2>1, StrayKeeps
  <2> QED
    BY <1>2, <2>2 DEF IInv
<1> QED
  BY <1>3, <1>4, <1>5, <1>6, <1>7

(* One stored to keeps its length and has bytes for elements.               *)
LEMMA ArrayStoreStep ==
  ASSUME IInv, ArrayStore
  PROVE  IInv'
<1>0. Control /\ World /\ Running /\ Instr.op = "ASR" /\ UNCHANGED <<statics, loaded>>
  BY DEF IInv, ArrayStore, Fetched
<1> DEFINE r == Read("R", Instr.dest)
           i == Read("I", Instr.src2)
           t == Instr.ty
           x == Encode(SlotType(t), Read(SlotType(t), Instr.src1))
           put(cells) == [c \in DOMAIN cells |->
                            IF c \in Place(t, i)
                            THEN Signed(ByteWidth, Byte(x, c - (Bytes(t) * i + 1)))
                            ELSE cells[c]]
<1>1. i \in Ints(Width) /\ i \in Int /\ Read(SlotType(t), Instr.src1) \in Int
  <2>1. <<"I", Instr.src2>> \in Operands(Instr)
        /\ <<SlotType(t), Instr.src1>> \in Operands(Instr)
    BY <1>0 DEF Operands
  <2> QED
    BY <1>0, <2>1, ReadsTyped
<1>2. x \in Nat
  <2>1. \A y \in Int : Unsigned(Size(SlotType(t)), y) \in Nat
    BY CastsTyped, SizesAreWidths
  <2> QED
    BY <1>1, <2>1 DEF Encode
<1>3. \/ (Stop("wild") \/ Raise) /\ UNCHANGED heap
      \/ /\ Kind(r) = "array"
         /\ InRange(Len(heap[r].cells), i)
         /\ heap' = [heap EXCEPT ![r].cells = put(@)]
         /\ Continue(NextPc)
      \/ /\ Kind(r) = "array"
         /\ InRange(Len(heap[r].cells), i)
         /\ ~(Place(t, i) \subseteq DOMAIN heap[r].cells)
         /\ Stop("stray")
         /\ UNCHANGED heap
  BY DEF ArrayStore
<1>4. CASE (Stop("wild") \/ Raise) /\ UNCHANGED heap
  BY <1>0, <1>4, StopKeeps, RaiseKeeps, WorldKept DEF IInv, world
<1>5. CASE /\ Kind(r) = "array"
           /\ InRange(Len(heap[r].cells), i)
           /\ ~(Place(t, i) \subseteq DOMAIN heap[r].cells)
           /\ Stop("stray")
           /\ UNCHANGED heap
  <2>1. i >= 0 /\ Bytes(t) > 1
    BY <1>0, <1>1, <1>5, AccessPlaced
  <2>2. Control'
    BY <1>0, <1>5, <2>1, StrayKeeps
  <2> QED
    BY <1>0, <1>5, <2>2, WorldKept DEF IInv, world
<1>6. CASE /\ Kind(r) = "array"
           /\ InRange(Len(heap[r].cells), i)
           /\ heap' = [heap EXCEPT ![r].cells = put(@)]
           /\ Continue(NextPc)
  <2>1. PICK a \in Arrays : /\ a = heap[r] /\ r \in DOMAIN heap
                            /\ a.cells \in Seq(Ints(ByteWidth))
                            /\ Len(a.cells) < 2 ^ (Width - 1)
    BY <1>0, <1>1, <1>6, AccessPlaced
  <2>2. PICK cells \in Seq(Ints(ByteWidth)) : cells = put(a.cells) /\ Len(cells) = Len(a.cells)
    <3>1. PICK at \in Int : at = Bytes(t) * i
      <4>1. Bytes(t) \in Int
        BY DEF Bytes
      <4> QED
        BY <1>1, <4>1
    <3>2. PICK n \in 0 .. 8 : n = Bytes(t)
      BY DEF Bytes
    <3>3. Place(t, i) = at + 1 .. at + n
      BY <3>1, <3>2 DEF Place
    <3>4. put(a.cells) = [c \in DOMAIN a.cells |->
                            IF c \in at + 1 .. at + n
                            THEN Signed(ByteWidth, Byte(x, c - (at + 1))) ELSE a.cells[c]]
      BY <3>1, <3>3
    <3>5. /\ Len(a.cells) \in Nat /\ DOMAIN a.cells = 1 .. Len(a.cells)
          /\ \A c \in 1 .. Len(a.cells) : a.cells[c] \in Ints(ByteWidth)
      BY <2>1
    <3> HIDE DEF x
    <3>6. \A c \in at + 1 .. at + n :
            Signed(ByteWidth, Byte(x, c - (at + 1))) \in Ints(ByteWidth)
      BY <1>2, StoredTyped
    <3>7. put(a.cells) \in [1 .. Len(a.cells) -> Ints(ByteWidth)]
      <4> HIDE DEF put
      <4> QED
        BY <3>4, <3>5, <3>6
    <3> HIDE DEF put
    <3>8. put(a.cells) \in Seq(Ints(ByteWidth)) /\ Len(put(a.cells)) = Len(a.cells)
      BY <3>5, <3>7, SequenceOf
    <3> QED
      BY <3>8, Zenon
  <2>3. PICK b \in Arrays : b = [kind |-> "array", cells |-> cells] /\ b.cells = cells
    <3>1. [kind |-> "array", cells |-> cells] \in Arrays
      BY <2>2 DEF Arrays
    <3>2. [kind |-> "array", cells |-> cells].cells = cells
      OBVIOUS
    <3> QED
      BY <3>1, <3>2, Zenon
  <2>4. [a EXCEPT !.cells = cells] = b
    <3>1. a = [kind |-> "array", cells |-> a.cells]
      BY DEF Arrays
    <3> QED
      BY <2>3, <3>1
  <2>5. heap' = [heap EXCEPT ![r] = b]
    <3> HIDE DEF put, r
    <3>1. heap' = [heap EXCEPT ![r] = [heap[r] EXCEPT !.cells = put(heap[r].cells)]]
      BY <1>6, <2>1
    <3> QED
      BY <2>1, <2>2, <2>4, <3>1
  <2>6. b \in Objects /\ Len(b.cells) < 2 ^ (Width - 1)
    BY <2>1, <2>2, <2>3 DEF Objects
  <2>7. World'
    <3> HIDE DEF r
    <3> QED
      BY <1>0, <2>1, <2>5, <2>6, ReplaceKeeps DEF World
  <2>8. Continue(NextPc) /\ IsInstruction(Current.method, NextPc)
    BY <1>0, <1>6, Fetches
  <2> QED
    BY <1>0, <2>7, <2>8, ContinueKeeps DEF IInv
<1> QED
  BY <1>3, <1>4, <1>5, <1>6

(* A string constant: an object and its bytes, or no memory.                *)
LEMMA StringStep ==
  ASSUME IInv, LoadString
  PROVE  IInv'
<1>0. Control /\ World /\ Running /\ Instr.op = "LCS" /\ UNCHANGED <<statics, loaded>>
  BY DEF IInv, LoadString, Fetched
<1>1. CASE Raise /\ UNCHANGED heap
  BY <1>0, <1>1, RaiseKeeps, WorldKept DEF IInv, world
<1>2. CASE /\ Instr.imm \in DOMAIN Strings
           /\ Len(heap) + 2 <= MaxObjects
           /\ heap' = heap \o <<StringAt(Len(heap) + 2), ArrayOf(Strings[Instr.imm])>>
           /\ WriteBack("R", Len(heap) + 1)
  <2>1. PICK n \in Nat : n = Len(heap)
    BY <1>0 DEF World
  <2>2. n + 2 \in Patterns(2 * Width)
    <3>1. Width \in 0 .. 2 * Width
      BY ExecutorAssumption
    <3>2. PICK a \in Nat \ {0} : a = 2 ^ Width /\ 2 ^ (2 * Width) = a * a
      BY <3>1, PowersArePositive, TwoSlots
    <3>3. n + 2 \in 0 .. a - 1
      BY <1>2, <2>1, <3>2, ExecutorAssumption
    <3>4. a <= a * a
      <4>1. PICK z \in Nat : a = 1 + z
        <5>1. a - 1 \in Nat /\ a = 1 + (a - 1)
          OBVIOUS
        <5> QED
          BY <5>1
      <4>2. a * (1 + z) = a + a * z /\ a * z \in Nat
        BY <4>1
      <4> QED
        BY <4>1, <4>2
    <3>5. a * a \in Nat
      OBVIOUS
    <3>6. n + 2 \in 0 .. a * a - 1
      BY <3>3, <3>4, <3>5
    <3> QED
      BY <3>2, <3>6 DEF Patterns
  <2>3. PICK x \in Instances : x = StringAt(n + 2)
    BY <2>2 DEF StringAt, Instances
  <2>4. PICK y \in Arrays : y = ArrayOf(Strings[Instr.imm]) /\ y.cells = Strings[Instr.imm]
    <3>1. Strings[Instr.imm] \in Seq(Ints(ByteWidth))
      BY <1>2, ClassesAssumption
    <3>2. ArrayOf(Strings[Instr.imm]) \in Arrays
      BY <3>1 DEF ArrayOf, Arrays
    <3>3. ArrayOf(Strings[Instr.imm]).cells = Strings[Instr.imm]
      BY DEF ArrayOf
    <3> QED
      BY <3>2, <3>3, Zenon
  <2>5. Len(y.cells) < 2 ^ (Width - 1)
    BY <1>2, <2>4, ClassesAssumption
  <2>6. heap' = heap \o <<x, y>>
    BY <1>2, <2>1, <2>3, <2>4
  <2>7. x \in Objects /\ y \in Objects /\ x \notin Arrays
    BY DEF Objects, Arrays, Instances
  <2>8. /\ heap' \in Seq(Objects) /\ Len(heap') = n + 2
        /\ heap'[n + 1] = x /\ heap'[n + 2] = y
        /\ \A r \in 1 .. n : heap'[r] = heap[r]
    <3>1. <<x, y>> \in Seq(Objects) /\ Len(<<x, y>>) = 2
      BY <2>7
    <3>2. heap \in Seq(Objects)
      BY <1>0 DEF World
    <3>3. heap' \in Seq(Objects) /\ Len(heap') = n + 2
      BY <2>1, <2>6, <3>1, <3>2
    <3>4. \A r \in 1 .. n : heap'[r] = heap[r]
      BY <2>1, <2>6, <3>1, <3>2
    <3>5. heap'[n + 1] = x /\ heap'[n + 2] = y
      <4>1. \A k \in 1 .. 2 : heap'[n + k] = <<x, y>>[k]
        BY <2>1, <2>6, <3>1, <3>2
      <4> QED
        BY <4>1
    <3> QED
      BY <3>3, <3>4, <3>5
  <2>9. ShortArrays'
    <3>1. DOMAIN heap' = 1 .. n + 2 /\ DOMAIN heap = 1 .. n
      BY <1>0, <2>1, <2>8 DEF World
    <3>2. \A r \in 1 .. n + 2 : r \in 1 .. n \/ r = n + 1 \/ r = n + 2
      BY <2>1
    <3>3. \A r \in 1 .. n : heap'[r] \in Arrays => Len(heap'[r].cells) < 2 ^ (Width - 1)
      BY <1>0, <2>8, <3>1 DEF World, ShortArrays
    <3>4. Arrays' = Arrays
      BY DEF Arrays, Ints, MinInt
    <3> QED
      BY <2>5, <2>7, <2>8, <3>1, <3>2, <3>3, <3>4 DEF ShortArrays
  <2>10. World'
    BY <1>0, <1>2, <2>1, <2>8, <2>9 DEF World
  <2>11. Control'
    <3>1. n + 1 \in Int /\ WriteBack("R", n + 1)
      BY <1>2, <2>1
    <3> QED
      BY <1>0, <3>1, WriteBackKeeps
  <2> QED
    BY <2>10, <2>11 DEF IInv
<1> QED
  BY <1>1, <1>2 DEF LoadString

(* The static fields.                                                       *)
LEMMA FieldStep ==
  ASSUME IInv, ClassField
  PROVE  IInv'
<1>0. Control /\ World /\ Running /\ Instr.op \in {"CLD", "CSR"} /\ UNCHANGED heap
  BY DEF IInv, ClassField, Fetched
<1>1. loaded' \subseteq Loadable
  BY <1>0, LoadKeeps DEF World, ClassField
<1>2. heap' \in Seq(Objects) /\ Len(heap') <= MaxObjects /\ ShortArrays'
  BY <1>0 DEF World, ShortArrays
<1>3. CASE Raise /\ UNCHANGED statics
  BY <1>0, <1>1, <1>2, <1>3, RaiseKeeps DEF IInv, World
<1>4. ASSUME Resolved(Instr.class), Instr.name \in StaticFields[Instr.class]
      PROVE  Instr.class \in DOMAIN statics /\ statics[Instr.class][Instr.name] \in Ints(Width)
  BY <1>0, <1>4, ClassesAssumption DEF World, Resolved
<1>5. CASE /\ Resolved(Instr.class) /\ Instr.name \in StaticFields[Instr.class]
           /\ Instr.op = "CLD"
           /\ WriteBack("I", statics[Instr.class][Instr.name])
           /\ UNCHANGED statics
  <2>1. statics[Instr.class][Instr.name] \in Int
    BY <1>4, <1>5, CastsTyped DEF Widths
  <2>2. Control'
    BY <1>0, <1>5, <2>1, WriteBackKeeps
  <2> QED
    BY <1>0, <1>1, <1>2, <1>5, <2>2 DEF IInv, World
<1>6. CASE /\ Resolved(Instr.class) /\ Instr.name \in StaticFields[Instr.class]
           /\ Instr.op = "CSR"
           /\ statics' = [statics EXCEPT ![Instr.class][Instr.name] = Read("I", Instr.src1)]
           /\ Continue(NextPc)
  <2>1. PICK x \in Ints(Width) : x = Read("I", Instr.src1)
    <3>1. <<"I", Instr.src1>> \in Operands(Instr)
      BY <1>6 DEF Operands
    <3> QED
      BY <1>0, <3>1, ReadsTyped
  <2>2. PICK c \in DOMAIN statics : c = Instr.class
    BY <1>4, <1>6
  <2>3. PICK g \in [StaticFields[c] -> Ints(Width)] : g = [statics[c] EXCEPT ![Instr.name] = x]
    BY <1>0, <1>6, <2>1, <2>2 DEF World
  <2>4. statics' = [statics EXCEPT ![c] = g]
    BY <1>6, <2>1, <2>2, <2>3
  <2>5. DOMAIN statics' = DOMAIN statics
        /\ \A d \in DOMAIN statics : statics'[d] = IF d = c THEN g ELSE statics[d]
    BY <2>4
  <2>6. World'
    BY <1>0, <1>1, <1>2, <2>3, <2>5 DEF World
  <2>7. IsInstruction(Current.method, NextPc)
    BY <1>0, <1>6, Fetches
  <2> QED
    BY <1>0, <1>6, <2>6, <2>7, ContinueKeeps DEF IInv
<1> QED
  BY <1>3, <1>5, <1>6 DEF ClassField

(* What is read of an object, and the test of its class.                    *)
LEMMA ObjectLoadStep ==
  ASSUME IInv, ObjectLoad \/ InstanceOf
  PROVE  IInv'
<1>0. Control /\ World /\ Running /\ Instr.op \in {"OLD", "IOF"} /\ UNCHANGED <<heap, statics>>
  BY DEF IInv, ObjectLoad, InstanceOf, Fetched
<1>1. World'
  <2>1. loaded' \subseteq Loadable
    BY <1>0, LoadKeeps DEF World, ObjectLoad, InstanceOf
  <2> QED
    BY <1>0, <2>1 DEF World, ShortArrays
<1>2. \/ Raise
      \/ Stop("no class") \/ Stop("wild")
      \/ \E x \in Int : WriteBack("R", x) \/ WriteBack("I", x)
  <2>1. CASE ObjectLoad
    <3>1. ASSUME Kind(Read("R", Instr.src1)) = "object"
          PROVE  heap[Read("R", Instr.src1)].chars \in Int
      <4>1. heap[Read("R", Instr.src1)] \in Instances
        BY <1>0, <3>1, KindOf
      <4>2. heap[Read("R", Instr.src1)].chars \in Patterns(2 * Width)
        BY <4>1 DEF Instances
      <4>3. Patterns(2 * Width) \subseteq Int
        BY CastsTyped DEF Widths
      <4> QED
        BY <4>2, <4>3
    <3> QED
      BY <2>1, <3>1 DEF ObjectLoad, Misread
  <2>2. CASE InstanceOf
    <3>1. PICK yes \in Int : yes = Truth(Instr.class = "Bytes")
      BY DEF Truth
    <3>2. PICK super \in Int :
            super = Truth(<<Instr.class, ClassOf(Read("R", Instr.src1))>> \in IsSuperclass)
      BY DEF Truth
    <3>3. \/ Raise
          \/ Stop("no class") \/ Stop("wild")
          \/ WriteBack("I", 0) \/ WriteBack("I", yes) \/ WriteBack("I", super)
      BY <2>2, <3>1, <3>2 DEF InstanceOf, Misread
    <3>4. 0 \in Int
      OBVIOUS
    <3> QED
      BY <3>3, <3>4, Zenon
  <2> QED
    BY <2>1, <2>2
<1>3. Control'
  <2>1. CASE Raise \/ Stop("no class") \/ Stop("wild")
    BY <1>0, <2>1, RaiseKeeps, StopKeeps
  <2>2. CASE \E x \in Int : WriteBack("R", x) \/ WriteBack("I", x)
    BY <1>0, <2>2, WriteBackKeeps
  <2> QED
    BY <1>2, <2>1, <2>2
<1> QED
  BY <1>1, <1>3 DEF IInv

(* What is written into an object or an array.                              *)
LEMMA ObjectStoreStep ==
  ASSUME IInv, ObjectStore
  PROVE  IInv'
<1>0. Control /\ World /\ Running /\ Instr.op = "OSR" /\ UNCHANGED statics
  BY DEF IInv, ObjectStore, Fetched
<1>1. loaded' \subseteq Loadable
  BY <1>0, LoadKeeps DEF World, ObjectStore
<1> DEFINE r == Read("R", Instr.dest)
<1>2. \/ (Raise \/ Stop("no class") \/ Stop("wild")) /\ UNCHANGED heap
      \/ /\ Kind(r) = "object"
         /\ heap' = [heap EXCEPT ![r].chars = Read("R", Instr.src1)]
         /\ Continue(NextPc)
  BY DEF ObjectStore, Misread
<1> HIDE DEF r
<1>3. CASE (Raise \/ Stop("no class") \/ Stop("wild")) /\ UNCHANGED heap
  <2>1. World'
    BY <1>0, <1>1, <1>3 DEF World, ShortArrays
  <2>2. Control'
    BY <1>0, <1>3, RaiseKeeps, StopKeeps
  <2> QED
    BY <2>1, <2>2 DEF IInv
<1>4. CASE /\ Kind(r) = "object"
           /\ heap' = [heap EXCEPT ![r].chars = Read("R", Instr.src1)]
           /\ Continue(NextPc)
  <2>1. PICK x \in Patterns(2 * Width) : x = Read("R", Instr.src1)
    <3>1. <<"R", Instr.src1>> \in Operands(Instr)
      BY <1>0 DEF Operands
    <3> QED
      BY <1>0, <3>1, ReadsTyped
  <2>2. PICK a \in Instances : a = heap[r] /\ r \in DOMAIN heap
    BY <1>0, <1>4, KindOf
  <2>3. [a EXCEPT !.chars = x] = [kind |-> "object", class |-> "String", chars |-> x]
    <3>1. a = [kind |-> "object", class |-> "String", chars |-> a.chars]
      BY DEF Instances
    <3> QED
      BY <3>1
  <2>4. PICK b \in Instances : b = [kind |-> "object", class |-> "String", chars |-> x]
    BY <2>1 DEF Instances
  <2>5. heap' = [heap EXCEPT ![r] = b]
    BY <1>4, <2>1, <2>2, <2>3, <2>4
  <2>6. b \in Objects /\ b \notin Arrays
    BY DEF Objects, Arrays, Instances
  <2>7. World'
    BY <1>0, <1>1, <2>2, <2>5, <2>6, ReplaceKeeps DEF World
  <2>8. IsInstruction(Current.method, NextPc)
    BY <1>0, Fetches
  <2> QED
    BY <1>0, <1>4, <2>7, <2>8, ContinueKeeps DEF IInv
<1> QED
  BY <1>2, <1>3, <1>4

(* New objects and arrays, a size below zero included.                      *)
LEMMA AllocationSteps ==
  ASSUME IInv, New \/ NewArray
  PROVE  IInv'
<1>0. Control /\ World /\ Running /\ Instr.op \in {"NEW", "ANEW"} /\ UNCHANGED statics
  BY DEF IInv, New, NewArray, Fetched
<1>1. loaded' \subseteq Loadable
  BY <1>0, LoadKeeps DEF World, New, NewArray
<1>2. \/ Raise /\ UNCHANGED heap
      \/ /\ Len(heap) + 1 <= MaxObjects
         /\ heap' = Append(heap, RawObject)
         /\ WriteBack("R", Len(heap) + 1)
  BY DEF New, NewArray
<1>3. CASE Raise /\ UNCHANGED heap
  <2>1. World'
    BY <1>0, <1>1, <1>3 DEF World, ShortArrays
  <2>2. Control'
    BY <1>0, <1>3, RaiseKeeps
  <2> QED
    BY <2>1, <2>2 DEF IInv
<1>4. CASE /\ Len(heap) + 1 <= MaxObjects
           /\ heap' = Append(heap, RawObject)
           /\ WriteBack("R", Len(heap) + 1)
  <2>1. RawObject \in Objects /\ RawObject \notin Arrays
    <3>1. RawObject.kind = "raw" /\ \A x \in Arrays : x.kind = "array"
      BY DEF RawObject, Arrays
    <3> QED
      BY <3>1 DEF Objects
  <2>2. World'
    BY <1>0, <1>1, <1>4, <2>1, AppendKeeps DEF World
  <2>3. Len(heap) + 1 \in Int
    BY <1>0 DEF World
  <2>4. Control'
    BY <1>0, <1>4, <2>3, WriteBackKeeps
  <2> QED
    BY <2>2, <2>4 DEF IInv
<1> QED
  BY <1>2, <1>3, <1>4

(* The three calls.                                                         *)
LEMMA CallSteps ==
  ASSUME IInv, NEW arg \in Patterns(Width),
         CallStatic(arg) \/ CallVirtual(arg) \/ CallDynamic(arg)
  PROVE  IInv'
<1>0. Control /\ World /\ Running /\ UNCHANGED <<heap, statics>>
  BY DEF IInv, CallStatic, CallVirtual, CallDynamic, Fetched, world
<1>1. World'
  <2>1. loaded' \subseteq Loadable
    BY <1>0, LoadKeeps DEF World, CallStatic, CallVirtual, CallDynamic, world
  <2> QED
    BY <1>0, <2>1 DEF World, ShortArrays
<1>2. \/ Raise
      \/ Stop("no class") \/ Stop("wild") \/ Stop("no method") \/ Stop("null receiver")
      \/ \E m \in DOMAIN Code : Call(m, arg)
  <2> DEFINE r == Read("R", Instr.src1)
  <2>1. ASSUME Kind(r) \in {"object", "array"}, Instr.name \in DOMAIN Vmt[ClassOf(r)],
               Call(Vmt[ClassOf(r)][Instr.name], arg)
        PROVE  \E m \in DOMAIN Code : Call(m, arg)
    <3> HIDE DEF r
    <3>1. ClassOf(r) \in {"String", "Bytes"}
      <4>1. Kind(r) # "array" => heap[r] \in Instances
        BY <1>0, <2>1, KindOf
      <4> QED
        BY <4>1 DEF ClassOf, Instances
    <3>2. Vmt[ClassOf(r)][Instr.name] \in DOMAIN Code
      BY <2>1, <3>1, ClassesAssumption
    <3> QED
      BY <2>1, <3>2
  <2>2. CASE CallStatic(arg)
    <3>1. ASSUME Resolved(Instr.class), Instr.name \in DOMAIN StaticMethods[Instr.class]
          PROVE  StaticMethods[Instr.class][Instr.name] \in DOMAIN Code
      BY <3>1, ClassesAssumption DEF Resolved
    <3> QED
      BY <2>2, <3>1 DEF CallStatic
  <2>3. CASE CallVirtual(arg)
    <3>1. \/ Raise
          \/ Misread(Kind(r))
          \/ /\ Kind(r) \in {"object", "array"}
             /\ IF Instr.name \in DOMAIN Vmt[ClassOf(r)]
                THEN Call(Vmt[ClassOf(r)][Instr.name], arg) ELSE Stop("no method")
      BY <2>3 DEF CallVirtual
    <3> HIDE DEF r
    <3> QED
      BY <2>1, <3>1 DEF Misread
  <2>4. CASE CallDynamic(arg)
    <3>1. \/ Stop("null receiver")
          \/ Misread(Kind(r))
          \/ /\ Kind(r) \in {"object", "array"}
             /\ IF Instr.name \in DOMAIN Vmt[ClassOf(r)]
                THEN Call(Vmt[ClassOf(r)][Instr.name], arg) ELSE Raise
      BY <2>4 DEF CallDynamic
    <3> HIDE DEF r
    <3> QED
      BY <2>1, <3>1 DEF Misread
  <2> QED
    BY <2>2, <2>3, <2>4
<1>3. Control'
  BY <1>0, <1>2, RaiseKeeps, StopKeeps, CallKeeps
<1> QED
  BY <1>1, <1>3 DEF IInv

(* A return ends the invocation: depth is never more than one, so the       *)
(* branch that writes the result to the frame below is not taken.           *)
LEMMA ReturnStep ==
  ASSUME IInv, Return
  PROVE  IInv'
<1>0. Control /\ World /\ Running /\ depth = 1
  BY DEF IInv, Return, Fetched, Running, Control
<1>1. World'
  BY <1>0, WorldKept DEF Return, world
<1>2. /\ stack' = Popped /\ pc' = 0 /\ depth' = 0
      /\ UNCHANGED <<raised, crash>>
  BY <1>0 DEF Return
<1>3. PICK n \in Nat \ {0} : n = Len(stack)
  BY <1>0, Fetches DEF Control
<1>4. stack' \in Seq(Frames) /\ Len(stack') = n - 1 /\ \A i \in 1 .. n - 1 : stack'[i] = stack[i]
  BY <1>0, <1>2, <1>3 DEF Popped, Control
<1>5. FramesEnd'
  <2>1. DOMAIN stack' = 1 .. n - 1 /\ DOMAIN stack = 1 .. n
    BY <1>0, <1>3, <1>4 DEF Control
  <2>2. \A i \in 1 .. n - 1 : i \in 1 .. n
    BY <1>3
  <2> QED
    BY <1>0, <1>4, <2>1, <2>2 DEF Control, FramesEnd
<1>6. PcAtInstruction'
  BY <1>2 DEF PcAtInstruction, Running
<1>7. pc' \in 0 .. PcLimit - 1
  BY <1>2, ExecutorAssumption
<1>8. depth' <= Len(stack')
  BY <1>2, <1>3, <1>4
<1>9. OnlyWidthsStray'
  BY <1>0, NoneStrays DEF Return, Running
<1> QED
  BY <1>0, <1>1, <1>2, <1>4, <1>5, <1>6, <1>7, <1>8, <1>9 DEF IInv, Control

(* The label exception, which is reached again and again.                   *)
LEMMA SpinStep ==
  ASSUME IInv, Spin
  PROVE  IInv'
<1>1. raised' = "forgot" /\ UNCHANGED <<stack, pc, depth, outcome, heap, statics, loaded, crash>>
  BY DEF Spin
<1>2. World'
  BY <1>1, WorldKept DEF IInv, world
<1>3. OnlyWidthsStray'
  BY <1>1, NoneStrays DEF Spin
<1>4. Control'
  BY <1>1, <1>3 DEF IInv, Control, FramesEnd, PcAtInstruction, Running
<1> QED
  BY <1>2, <1>4 DEF IInv

(* A new invocation: one frame, and the first instruction of its method.    *)
LEMMA InvokeStep ==
  ASSUME IInv, NEW m \in Entry, NEW arg \in Patterns(Width), Invoke(m, arg)
  PROVE  IInv'
<1>0. Control /\ World /\ depth = 0 /\ UNCHANGED <<raised, crash>>
  BY DEF IInv, Invoke
<1>1. World'
  BY <1>0, WorldKept DEF Invoke, world
<1> OnlyWidthsStray'
  BY <1>0, NoneStrays DEF Invoke
<1>2. CASE UNCHANGED <<stack, pc, depth>>
  <2>1. Control'
    BY <1>0, <1>2 DEF Control, FramesEnd, PcAtInstruction, Running
  <2> QED
    BY <1>1, <2>1 DEF IInv
<1>3. CASE /\ Fits(m)
           /\ stack' = Append(stack, Frame(m, arg, 0, 0))
           /\ pc' = 0
           /\ depth' = 1
  <2>1. m \in DOMAIN Code
    BY ClassesAssumption
  <2>2. 0 \in Nat /\ 0 \in 0 .. Slots - 1
    BY ExecutorAssumption
  <2>3. /\ stack' \in Seq(Frames) /\ FramesEnd'
        /\ Len(stack') = Len(stack) + 1
        /\ Current'.method = m
    BY <1>0, <1>3, <2>1, <2>2, PushKeepsFrames
  <2>4. PcAtInstruction'
    <3>1. IsInstruction(m, 0)
      BY <2>1, CodeAssumption
    <3> QED
      BY <1>3, <2>3, <3>1 DEF PcAtInstruction, IsInstruction
  <2>5. pc' \in 0 .. PcLimit - 1
    BY <1>3, ExecutorAssumption
  <2>6. Len(stack) \in Nat
    BY <1>0 DEF Control
  <2>7. Control'
    BY <1>0, <1>3, <2>3, <2>4, <2>5, <2>6 DEF Control
  <2> QED
    BY <1>1, <2>7 DEF IInv
<1> QED
  BY <1>2, <1>3 DEF Invoke

----------------------------------------------------------------------------
(* The theorems.                                                            *)

(* The invariant holds before the first invocation...                       *)
LEMMA InitHolds == Init => IInv
<1> SUFFICES ASSUME Init PROVE IInv
  OBVIOUS
<1>1. Control
  <2>1. stack = <<>> /\ pc = 0 /\ depth = 0 /\ raised = "no" /\ crash = "no"
    BY DEF Init
  <2>2. stack \in Seq(Frames) /\ Len(stack) = 0 /\ FramesEnd
    BY <2>1 DEF FramesEnd
  <2>3. PcAtInstruction
    BY <2>1 DEF PcAtInstruction, Running
  <2> QED
    BY <2>1, <2>2, <2>3, ExecutorAssumption DEF Control, OnlyWidthsStray
<1>2. World
  <2>1. 0 \in Ints(Width)
    <3>1. PICK h \in Nat \ {0} : h = 2 ^ (Width - 1) /\ 2 ^ Width = 2 * h
      BY HalfAndWhole DEF Widths
    <3> QED
      BY <3>1 DEF Ints, MinInt
  <2>2. heap = <<>> /\ loaded = {}
        /\ statics = [c \in DOMAIN StaticFields |-> [f \in StaticFields[c] |-> 0]]
    BY DEF Init
  <2>3. heap \in Seq(Objects) /\ Len(heap) <= MaxObjects /\ ShortArrays
    <3>1. MaxObjects \in Nat
      <4>1. Width \in 0 .. 2 * Width
        BY ExecutorAssumption
      <4>2. 2 ^ Width \in Nat
        BY <4>1, PowersArePositive
      <4> QED
        BY <4>2, ExecutorAssumption
    <3> QED
      BY <2>2, <3>1 DEF ShortArrays
  <2> QED
    BY <2>1, <2>2, <2>3 DEF World
<1> QED
  BY <1>1, <1>2 DEF IInv

(* ...and every step keeps it.                                              *)
LEMMA StepHolds == IInv /\ [Next]_vars => IInv'
<1> SUFFICES ASSUME IInv, [Next]_vars PROVE IInv'
  OBVIOUS
<1>1. CASE Execute
  <2>1. CASE NumericOp \/ DivMod \/ FloatOp
    BY <2>1, ArithmeticSteps
  <2>2. CASE Branch \/ BranchNull \/ Jump \/ Exc
    BY <2>2, ControlSteps
  <2>3. CASE Cast \/ Reinterpret \/ LoadConstant
    BY <2>3, ConversionSteps
  <2>4. CASE LoadString
    BY <2>4, StringStep
  <2>5. CASE ArrayLoad \/ ArrayStore
    BY <2>5, ArrayLoadStep, ArrayStoreStep
  <2>6. CASE ClassField
    BY <2>6, FieldStep
  <2>7. CASE ObjectLoad \/ InstanceOf
    BY <2>7, ObjectLoadStep
  <2>8. CASE ObjectStore
    BY <2>8, ObjectStoreStep
  <2>9. CASE New \/ NewArray
    BY <2>9, AllocationSteps
  <2>10. CASE \E arg \in Patterns(Width) : CallStatic(arg) \/ CallVirtual(arg) \/ CallDynamic(arg)
    BY <2>10, CallSteps
  <2>11. CASE Return
    BY <2>11, ReturnStep
  <2>12. CASE Spin
    BY <2>12, SpinStep
  <2> QED
    BY <1>1, <2>1, <2>2, <2>3, <2>4, <2>5, <2>6, <2>7, <2>8, <2>9, <2>10, <2>11, <2>12
       DEF Execute
<1>2. CASE \E m \in Entry, arg \in Patterns(Width) : Invoke(m, arg)
  BY <1>2, InvokeStep
<1>3. CASE UNCHANGED vars
  <2>1. World'
    BY <1>3, WorldKept DEF IInv, vars, world
  <2>2. Current' = Current /\ Instr' = Instr
    BY <1>3 DEF vars, Current, Instr
  <2>3. OnlyWidthsStray'
    <3>1. Read("I", Instr.src2)' = Read("I", Instr.src2)
      BY <2>2 DEF Read, Pattern, Decode, Wide, Size
    <3> QED
      BY <1>3, <2>2, <3>1 DEF vars, IInv, Control, OnlyWidthsStray, Bytes
  <2>4. Control'
    BY <1>3, <2>2, <2>3 DEF vars, IInv, Control, FramesEnd, PcAtInstruction, Running,
                            IsInstruction
  <2> QED
    BY <2>1, <2>4 DEF IInv
<1> QED
  BY <1>1, <1>2, <1>3 DEF Next

(* The inductive invariant holds in every state, for any code of which the  *)
(* assumption speaks, any widths and any sizes.                             *)
THEOREM ExecutorInvariance == Spec => []IInv
BY InitHolds, StepHolds, PTL DEF Spec

(* What the interpreter takes for granted holds at each step, whatever the  *)
(* program computes, writes, calls and fails at.                            *)
THEOREM TheMachineIsSound == Spec => []MachineSound
<1>1. IInv => MachineSound
  <2> SUFFICES ASSUME IInv PROVE MachineSound
    OBVIOUS
  <2>1. Len(stack) <= StackSize
    <3>1. CASE stack = <<>>
      BY <3>1, ExecutorAssumption
    <3>2. CASE stack # <<>>
      <4>1. Len(stack) \in DOMAIN stack /\ Len(stack) \in Nat /\ stack[Len(stack)] \in Frames
        BY <3>2 DEF IInv, Control
      <4>2. stack[Len(stack)].end \in 1 .. StackSize /\ stack[Len(stack)].end >= Len(stack)
        BY <4>1 DEF IInv, Control, FramesEnd, Frames
      <4> QED
        BY <4>1, <4>2, ExecutorAssumption
    <3> QED
      BY <3>1, <3>2
  <2>2. TypeOK
    BY <2>1 DEF IInv, Control, World, TypeOK, Objects
  <2> QED
    BY <2>2 DEF MachineSound, IInv, Control
<1> QED
  BY <1>1, ExecutorInvariance, PTL

(* No index that the bounds test lets through is outside of its array: an   *)
(* access that leaves it does so because it is wider than the elements.     *)
THEOREM NoIndexGoesAstray == Spec => []OnlyWidthsStray
<1>1. IInv => OnlyWidthsStray
  BY DEF IInv, Control
<1> QED
  BY <1>1, ExecutorInvariance, PTL

(* How an instruction ends tells what the message is afterwards.            *)
LEMMA OnlyRaiseThrows ==
  ASSUME raised = "no", raised' = "thrown"
  PROVE  /\ \A t, x : ~WriteBack(t, x)
         /\ \A target : ~Continue(target)
         /\ \A why : ~Stop(why)
         /\ Raise => UNCHANGED <<stack, depth, outcome>>
         /\ \A m, arg : Call(m, arg) => UNCHANGED <<stack, depth, outcome>>
BY DEF WriteBack, Continue, Stop, Raise, Call

(* A step that throws is the Raise of its instruction, and an instruction   *)
(* that raises has not written, allocated, pushed or returned before.       *)
LEMMA FailureStep ==
  ASSUME Next, raised = "no", raised' = "thrown"
  PROVE  UNCHANGED <<stack, heap, statics, depth, outcome>>
<1> USE OnlyRaiseThrows
<1>1. CASE NumericOp \/ FloatOp \/ Branch \/ BranchNull \/ Jump \/ Cast \/ Reinterpret \/ Exc
  BY <1>1 DEF NumericOp, FloatOp, Branch, BranchNull, Jump, Cast, Reinterpret, Exc
<1>2. CASE LoadConstant
  <2>1. Instr.op \in {"LUI", "LDI", "LNUL"}
    BY <1>2 DEF LoadConstant, Fetched
  <2> QED
    BY <1>2, <2>1 DEF LoadConstant
<1>3. CASE DivMod
  BY <1>3 DEF DivMod, world
<1>4. CASE LoadString
  BY <1>4 DEF LoadString
<1>5. CASE ArrayLoad
  BY <1>5 DEF ArrayLoad, world
<1>6. CASE ArrayStore
  BY <1>6 DEF ArrayStore
<1>7. CASE ClassField
  BY <1>7 DEF ClassField
<1>8. CASE ObjectLoad \/ InstanceOf
  BY <1>8 DEF ObjectLoad, InstanceOf, Misread
<1>9. CASE ObjectStore
  BY <1>9 DEF ObjectStore, Misread
<1>10. CASE New \/ NewArray
  BY <1>10 DEF New, NewArray
<1>11. CASE \E arg \in Patterns(Width) : CallStatic(arg) \/ CallVirtual(arg) \/ CallDynamic(arg)
  <2>1. PICK arg \in Patterns(Width) : CallStatic(arg) \/ CallVirtual(arg) \/ CallDynamic(arg)
    BY <1>11
  <2>2. CASE CallStatic(arg)
    BY <2>2 DEF CallStatic
  <2>3. CASE CallVirtual(arg)
    BY <2>3 DEF CallVirtual, Misread
  <2>4. CASE CallDynamic(arg)
    BY <2>4 DEF CallDynamic, Misread, world
  <2> QED
    BY <2>1, <2>2, <2>3, <2>4
<1>12. CASE Return \/ Spin \/ \E m \in Entry, arg \in Patterns(Width) : Invoke(m, arg)
  BY <1>12 DEF Return, Spin, Invoke
<1> QED
  BY <1>1, <1>2, <1>3, <1>4, <1>5, <1>6, <1>7, <1>8, <1>9, <1>10, <1>11, <1>12
     DEF Next, Execute

(* An instruction that raises an exception has left frames, heap, static    *)
(* fields and the result as they were.                                      *)
THEOREM FailuresLeaveNoTrace == Spec => FailedHasNoEffect
<1>1. [Next]_vars => [(raised = "no" /\ raised' = "thrown") =>
                        UNCHANGED <<stack, heap, statics, depth, outcome>>]_vars
  BY FailureStep
<1> QED
  BY <1>1, PTL DEF Spec, FailedHasNoEffect

(* What every step leaves of the frames below the innermost.                *)
Callers ==
  \A i \in DOMAIN stack : i < Len(stack) => i \in DOMAIN stack' /\ stack'[i] = stack[i]

(* No way an instruction can end changes a frame below the last.            *)
LEMMA EndsKeepCallers ==
  ASSUME Control
  PROVE  /\ \A t, x : WriteBack(t, x) => Callers
         /\ \A target : Continue(target) => Callers
         /\ \A why : Stop(why) => Callers
         /\ Raise => Callers
         /\ \A m, arg : Call(m, arg) => Callers
<1>1. stack \in Seq(Frames) /\ Len(stack) \in Nat /\ DOMAIN stack = 1 .. Len(stack)
  BY DEF Control
<1>2. UNCHANGED stack => Callers
  BY DEF Callers
<1>3. \A g : stack' = [stack EXCEPT ![Len(stack)] = g] => Callers
  BY <1>1 DEF Callers
<1>4. \A f : stack' = Append(stack, f) => Callers
  <2>1. SUFFICES ASSUME NEW f, stack' = Append(stack, f) PROVE Callers
    OBVIOUS
  <2>2. DOMAIN stack' = 1 .. Len(stack) + 1 /\ \A i \in 1 .. Len(stack) : stack'[i] = stack[i]
    BY <1>1, <2>1
  <2> QED
    BY <1>1, <2>2 DEF Callers
<1>5. \A t, x : WriteBack(t, x) => Callers
  <2>1. SUFFICES ASSUME NEW t, NEW x, WriteBack(t, x) PROVE Callers
    OBVIOUS
  <2>2. stack' = [stack EXCEPT ![Len(stack)].locals = Written(@, t, Instr.dest, x)]
    BY <2>1 DEF WriteBack
  <2> QED
    BY <1>1, <2>2 DEF Callers
<1>6. \A m, arg : Call(m, arg) => Callers
  BY <1>2, <1>4 DEF Call, Raise
<1> QED
  BY <1>2, <1>5, <1>6 DEF Continue, Stop, Raise

(* Hence no action does.                                                    *)
LEMMA CallersStep ==
  ASSUME IInv, Next
  PROVE  Callers
<1>0. Control
  BY DEF IInv
<1> USE <1>0, EndsKeepCallers
<1>1. CASE NumericOp \/ FloatOp \/ Branch \/ BranchNull \/ Jump \/ Cast \/ Reinterpret \/ Exc
  BY <1>1 DEF NumericOp, FloatOp, Branch, BranchNull, Jump, Cast, Reinterpret, Exc
<1>2. CASE LoadConstant
  <2>1. Instr.op \in {"LUI", "LDI", "LNUL"}
    BY <1>2 DEF LoadConstant, Fetched
  <2> QED
    BY <1>2, <2>1 DEF LoadConstant
<1>3. CASE DivMod
  BY <1>3 DEF DivMod
<1>4. CASE LoadString
  BY <1>4 DEF LoadString
<1>5. CASE ArrayLoad
  BY <1>5 DEF ArrayLoad
<1>6. CASE ArrayStore
  BY <1>6 DEF ArrayStore
<1>7. CASE ClassField
  BY <1>7 DEF ClassField
<1>8. CASE ObjectLoad \/ InstanceOf
  BY <1>8 DEF ObjectLoad, InstanceOf, Misread
<1>9. CASE ObjectStore
  BY <1>9 DEF ObjectStore, Misread
<1>10. CASE New \/ NewArray
  BY <1>10 DEF New, NewArray
<1>11. CASE \E arg \in Patterns(Width) : CallStatic(arg) \/ CallVirtual(arg) \/ CallDynamic(arg)
  <2>1. PICK arg \in Patterns(Width) : CallStatic(arg) \/ CallVirtual(arg) \/ CallDynamic(arg)
    BY <1>11
  <2>2. CASE CallStatic(arg)
    BY <2>2 DEF CallStatic
  <2>3. CASE CallVirtual(arg)
    BY <2>3 DEF CallVirtual, Misread
  <2>4. CASE CallDynamic(arg)
    BY <2>4 DEF CallDynamic, Misread
  <2> QED
    BY <2>1, <2>2, <2>3, <2>4
<1>12. CASE Return
  <2>1. depth = 1
    BY <1>12 DEF Return, Fetched, Running, Control
  <2>2. stack' = Popped
    BY <1>12, <2>1 DEF Return
  <2>3. PICK n \in Nat : n = Len(stack)
    BY DEF Control
  <2>4. n > 0
    BY <2>1, <2>3 DEF Control
  <2>5. DOMAIN stack' = 1 .. n - 1 /\ \A i \in 1 .. n - 1 : stack'[i] = stack[i]
    BY <2>2, <2>3, <2>4 DEF Popped, Control
  <2>6. DOMAIN stack = 1 .. n
    BY <2>3 DEF Control
  <2>7. \A i \in 1 .. n : i < n => i \in 1 .. n - 1
    BY <2>3
  <2> QED
    BY <2>3, <2>5, <2>6, <2>7 DEF Callers
<1>13. CASE Spin
  BY <1>13 DEF Spin, Callers
<1>14. CASE \E m \in Entry, arg \in Patterns(Width) : Invoke(m, arg)
  <2>1. PICK m \in Entry, arg \in Patterns(Width) : Invoke(m, arg)
    BY <1>14
  <2>2. UNCHANGED stack \/ stack' = Append(stack, Frame(m, arg, 0, 0))
    BY <2>1 DEF Invoke
  <2>3. PICK n \in Nat : n = Len(stack) /\ DOMAIN stack = 1 .. n
    BY DEF Control
  <2>4. CASE UNCHANGED stack
    BY <2>4 DEF Callers
  <2>5. CASE stack' = Append(stack, Frame(m, arg, 0, 0))
    <3>1. DOMAIN stack' = 1 .. n + 1 /\ \A i \in 1 .. n : stack'[i] = stack[i]
      BY <2>3, <2>5 DEF Control
    <3> QED
      BY <2>3, <3>1 DEF Callers
  <2> QED
    BY <2>2, <2>4, <2>5
<1> QED
  BY <1>1, <1>2, <1>3, <1>4, <1>5, <1>6, <1>7, <1>8, <1>9, <1>10, <1>11, <1>12, <1>13, <1>14
     DEF Next, Execute

(* No step changes a frame below the innermost: what is called, and what    *)
(* fails in it, leaves the variables of its callers alone.                  *)
THEOREM CallersAreUntouched == Spec => CallersUntouched
<1>1. IInv /\ [Next]_vars => [\A i \in DOMAIN stack : i < Len(stack) =>
                                i \in DOMAIN stack' /\ stack'[i] = stack[i]]_vars
  BY CallersStep DEF Callers
<1> QED
  BY <1>1, ExecutorInvariance, PTL DEF Spec, CallersUntouched
=============================================================================
