-------------------------- MODULE VMWordArithProofs --------------------------
(***************************************************************************)
(* Proofs that two of the interpreter's word computations agree with the  *)
(* reference definitions of spec section 4.1 at every width, not only at  *)
(* the widths MCVMWords checks:                                           *)
(*   - opSdiv and opSmod (sign handling over math.S256 and big.Int's      *)
(*     Euclidean Div/Mod) compute truncating division, whose quotient    *)
(*     and remainder TruncQuot characterises without the code's steps;   *)
(*   - the memory-size step (calcMemSize, the 64-bit check, toWordSize   *)
(*     with its guard, SafeMul) yields offset+length rounded up to whole *)
(*     words, or an overflow exactly when that does not fit a uint64.    *)
(* The provers treat ^ as uninterpreted, so the facts about 2^n used     *)
(* (MaxUint is a natural number; 2^WordBits is even and at least 2) are  *)
(* hypotheses of the lemmas; every width satisfies them.                 *)
(***************************************************************************)
EXTENDS VMWordArith, TLAPS

-----------------------------------------------------------------------------
(* Integer division facts the provers need spelled out. *)

LEMMA DivMod == ASSUME NEW n \in Nat, NEW d \in Nat \ {0}
               PROVE n = (n \div d) * d + (n % d) /\ n \div d \in Nat /\ n % d \in 0..(d - 1)
  OBVIOUS

LEMMA MulGe == ASSUME NEW q \in Nat, NEW d \in Nat, d >= 1 PROVE q * d >= q
  OBVIOUS

(* Truncating division by its parts: the quotient of the magnitudes     *)
(* with the sign of x*y leaves the remainder of the magnitudes with the  *)
(* sign of x.                                                            *)
LEMMA DivParts == ASSUME NEW x \in Int, NEW y \in Int, y # 0
  PROVE /\ Abs(x) \div Abs(y) \in Nat
        /\ Abs(x) % Abs(y) \in 0..(Abs(y) - 1)
        /\ x - (Abs(x) \div Abs(y)) * (IF x * y < 0 THEN -1 ELSE 1) * y
              = (Abs(x) % Abs(y)) * (IF x < 0 THEN -1 ELSE 1)
<1> DEFINE Q == Abs(x) \div Abs(y)  R == Abs(x) % Abs(y)
<1>1. Abs(x) \in Nat /\ Abs(y) \in Nat \ {0}
  BY DEF Abs
<1>2. Abs(x) = Q * Abs(y) + R /\ Q \in Nat /\ R \in 0..(Abs(y) - 1)
  BY <1>1, DivMod
<1>3. CASE x >= 0 /\ y > 0
  BY <1>2, <1>3 DEF Abs
<1>4. CASE x >= 0 /\ y < 0
  BY <1>2, <1>4 DEF Abs
<1>5. CASE x < 0 /\ y > 0
  BY <1>2, <1>5 DEF Abs
<1>6. CASE x < 0 /\ y < 0
  BY <1>2, <1>6 DEF Abs
<1> QED
  BY <1>2, <1>3, <1>4, <1>5, <1>6

(* The truncated quotient is unique: two quotients whose remainders are *)
(* both smaller than the divisor and of the dividend's sign are equal.   *)
LEMMA TruncUnique == ASSUME NEW x \in Int, NEW y \in Int, y # 0,
                            NEW q1 \in Int, NEW q2 \in Int,
                            IsTruncQuot(x, y, q1), IsTruncQuot(x, y, q2)
                     PROVE q1 = q2
<1> DEFINE r1 == x - q1 * y  r2 == x - q2 * y
<1>1. r1 - r2 = (q2 - q1) * y
  OBVIOUS
<1>2. Abs(r1 - r2) < Abs(y)
  BY DEF IsTruncQuot, Abs
<1>3. SUFFICES ASSUME q1 # q2 PROVE FALSE
  OBVIOUS
<1>4. Abs((q2 - q1) * y) >= Abs(y)
  BY <1>3 DEF Abs
<1>5. Abs(r1 - r2) = Abs((q2 - q1) * y)
  BY <1>1
<1> QED
  BY <1>2, <1>4, <1>5 DEF Abs

-----------------------------------------------------------------------------
(* opSdiv and opSmod, which take the magnitudes of the signed operands,  *)
(* divide them and restore a sign (the quotient's from x*y, the          *)
(* remainder's from the dividend), return what spec 4.1's SDIV and SMOD  *)
(* define by truncating division, for every pair of words, the most      *)
(* negative word divided by -1 and a zero divisor included.             *)
THEOREM SignedDivisionMatchesRef ==
    ASSUME Modulus \in Nat, Modulus >= 2, Modulus % 2 = 0,
           NEW a \in Word, NEW b \in Word
    PROVE  /\ opSdiv(a, b) = IF b = 0 THEN 0 ELSE TruncQuot(Signed(a), Signed(b)) % Modulus
           /\ opSmod(a, b) = IF b = 0 THEN 0
                             ELSE (Signed(a) - TruncQuot(Signed(a), Signed(b)) * Signed(b)) % Modulus
<1> DEFINE x == S256(a)  y == S256(b)
           Q == Abs(x) \div Abs(y)  R == Abs(x) % Abs(y)
           q0 == Q * (IF x * y < 0 THEN -1 ELSE 1)
<1>1. /\ x = Signed(a) /\ y = Signed(b)
      /\ x \in Int /\ y \in Int /\ Abs(x) \in 0..Modulus
      /\ (y = 0) <=> (b = 0)
  BY DEF S256, Signed, Word, Abs
<1>2. CASE b = 0
  BY <1>1, <1>2 DEF opSdiv, opSmod
<1>3. CASE b # 0
  <2>1. /\ Q \in Nat /\ R \in 0..(Abs(y) - 1)
        /\ x - q0 * y = R * (IF x < 0 THEN -1 ELSE 1)
    BY <1>1, <1>3, DivParts
  <2>2. Q <= Abs(x)
    <3>1. Abs(x) \in Nat /\ Abs(y) \in Nat \ {0}
      BY <1>1, <1>3 DEF Abs
    <3>2. Abs(x) = Q * Abs(y) + R
      BY <3>1, DivMod, Zenon
    <3>3. Q * Abs(y) >= Q
      <4>1. Abs(y) \in Nat /\ Abs(y) >= 1
        BY <3>1
      <4> QED
        BY <2>1, <4>1, MulGe
    <3> QED
      BY <2>1, <3>1, <3>2, <3>3
  <2>3. q0 \in -Modulus..Modulus
    <3>1. q0 = Q \/ q0 = -Q
      BY <2>1
    <3>2. Q \in 0..Modulus
      BY <1>1, <2>1, <2>2
    <3> QED
      BY <3>1, <3>2
  <2>4. IsTruncQuot(x, y, q0)
    <3>1. Abs(R * (IF x < 0 THEN -1 ELSE 1)) = R
      BY <2>1 DEF Abs
    <3>2. R # 0 => x # 0
      BY <2>1, <1>1 DEF Abs
    <3> QED
      BY <1>1, <2>1, <3>1, <3>2 DEF IsTruncQuot, Abs
  <2>5. TruncQuot(x, y) = q0
    <3>1. TruncQuot(x, y) \in -Modulus..Modulus /\ IsTruncQuot(x, y, TruncQuot(x, y))
      BY <2>3, <2>4, Zenon DEF TruncQuot
    <3> QED
      BY <1>1, <1>3, <2>1, <2>3, <2>4, <3>1, TruncUnique
  <2>6. opSdiv(a, b) = q0 % Modulus /\ opSmod(a, b) = (x - q0 * y) % Modulus
    BY <1>1, <1>3, <2>1 DEF opSdiv, opSmod, U256
  <2> QED
    BY <1>1, <1>3, <2>5, <2>6
<1> QED
  BY <1>2, <1>3

-----------------------------------------------------------------------------
(* The signed comparisons: opSlt compares S256(x) with S256(S256(y)),     *)
(* applying math.S256 twice to the second operand, and opSgt compares    *)
(* S256(x) with S256(y).  Both agree with spec 4.1's SLT and SGT on the  *)
(* two's-complement values, because S256 leaves every value it returns   *)
(* for a word unchanged.                                                  *)
THEOREM SignedCompareMatchesRef ==
    ASSUME Modulus \in Nat, Modulus >= 2, Modulus % 2 = 0,
           NEW a \in Word, NEW b \in Word
    PROVE  /\ opSlt(a, b) = IF Signed(a) < Signed(b) THEN 1 ELSE 0
           /\ opSgt(a, b) = IF Signed(a) > Signed(b) THEN 1 ELSE 0
<1>1. S256(a) = Signed(a) /\ S256(b) = Signed(b)
  BY DEF S256, Signed, Word
<1>2. S256(S256(b)) = S256(b)
  BY DEF S256, Word
<1> QED
  BY <1>1, <1>2 DEF opSlt, opSgt

-----------------------------------------------------------------------------
(* Rounding up to whole words never rounds below the size. *)
LEMMA RoundUp == ASSUME NEW v \in Nat PROVE ((v + WordBytes - 1) \div WordBytes) * WordBytes >= v
  BY WidthAssumption

(* toWordSize's saturated branch, MaxUint/32 + 1 words, is exactly the   *)
(* uint64 range in bytes when a word divides it.                         *)
LEMMA TopWord == ASSUME MaxUint \in Nat
  PROVE (MaxUint \div WordBytes + 1) * WordBytes = MaxUint + 1
<1> DEFINE k == (MaxUint + 1) \div WordBytes
<1>1. k \in Nat /\ k * WordBytes = MaxUint + 1
  BY WidthAssumption, WordSizeAssumption
<1>2. MaxUint = (k - 1) * WordBytes + (WordBytes - 1)
  BY <1>1, WidthAssumption
<1>3. MaxUint \div WordBytes = k - 1
  BY <1>1, <1>2, WidthAssumption
<1> QED
  BY <1>1, <1>3, WidthAssumption

(* A size in the last word below 2^64 rounds up to 2^64 itself. *)
LEMMA Near == ASSUME MaxUint \in Nat,
   NEW v \in Nat, v <= MaxUint, v > MaxUint - (WordBytes - 1)
  PROVE ((v + WordBytes - 1) \div WordBytes) * WordBytes = MaxUint + 1
<1> DEFINE k == (MaxUint + 1) \div WordBytes
<1>1. k \in Nat /\ k * WordBytes = MaxUint + 1
  BY WidthAssumption, WordSizeAssumption
<1>2. v + WordBytes - 1 \in (k * WordBytes)..(k * WordBytes + WordBytes - 1)
  BY <1>1, WidthAssumption
<1>3. (v + WordBytes - 1) \div WordBytes = k
  BY <1>2, WidthAssumption
<1> QED
  BY <1>1, <1>3

(* The interpreter loop's memory-size step (calcMemSize, bigUint64's    *)
(* 64-bit check, toWordSize with its guard against size+31 wrapping and  *)
(* SafeMul(words, 32)) returns offset+length rounded up to whole words, *)
(* and errGasUintOverflow exactly when that rounded size exceeds        *)
(* MaxUint64, for every offset and length.                              *)
THEOREM MemorySizeMatchesRef == ASSUME MaxUint \in Nat,
                        NEW off \in Nat, NEW l \in Nat
                 PROVE MemorySize(off, l) = MemRef(off, l)
<1> DEFINE v == calcMemSize(off, l)
           rounded == ((v + WordBytes - 1) \div WordBytes) * WordBytes
<1>1. v \in Nat
  BY DEF calcMemSize
<1>2. MemRef(off, l) = IF rounded > MaxUint THEN Overflow ELSE rounded
  BY DEF MemRef, calcMemSize
<1>3. CASE v > MaxUint
  <2>0. rounded >= v
    BY <1>1, RoundUp, Zenon
  <2>1. rounded > MaxUint
    BY <1>1, <1>3, <2>0, WidthAssumption
  <2> QED
    BY <1>2, <1>3, <2>1 DEF MemorySize
<1>4. CASE v <= MaxUint /\ v > MaxUint - (WordBytes - 1)
  <2>1. toWordSize(v) * WordBytes = MaxUint + 1
    BY <1>4, TopWord DEF toWordSize
  <2>2. rounded = MaxUint + 1
    BY <1>1, <1>4, Near
  <2> QED
    BY <1>2, <1>4, <2>1, <2>2 DEF MemorySize
<1>5. CASE v <= MaxUint - (WordBytes - 1)
  <2>0. ~(v > MaxUint - (WordBytes - 1)) /\ ~(v > MaxUint)
    BY <1>1, <1>5, WidthAssumption
  <2>1. toWordSize(v) = (v + WordBytes - 1) \div WordBytes
    BY <2>0, Zenon DEF toWordSize
  <2>2. MemorySize(off, l) = IF rounded > MaxUint THEN Overflow ELSE rounded
    BY <2>0, <2>1, Zenon DEF MemorySize
  <2> QED
    BY <1>2, <2>2
<1> QED
  BY <1>1, <1>3, <1>4, <1>5, WidthAssumption

=============================================================================
