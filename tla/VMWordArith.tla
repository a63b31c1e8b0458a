----------------------------- MODULE VMWordArith -----------------------------
(***************************************************************************)
(* The word widths of the interpreter and the operators on them that use  *)
(* no bitwise operation (src/core/vm/instructions.go, common.go,          *)
(* interpreter.go, and the common/math helpers they call): signed        *)
(* division, remainder and comparison, and the memory-size computation  *)
(* of the loop, beside the reference definitions they are compared      *)
(* with.  VMWords extends this module with the other opcodes and the     *)
(* interpreter steps; VMWordArithProofs proves, for every width, that    *)
(* these operators agree with their references.                          *)
(***************************************************************************)
EXTENDS Integers

CONSTANTS
    ByteBits,    \* bits per byte (8)
    WordBytes,   \* bytes per word (32)
    UintBits     \* bits of a Go uint64 (64)

ASSUME WidthAssumption ==
    /\ ByteBits \in Nat \ {0}
    /\ WordBytes \in Nat \ {0, 1}
    /\ UintBits \in Nat \ {0}

WordBits == ByteBits * WordBytes
Modulus  == 2 ^ WordBits                 \* tt256
Word     == 0..(Modulus - 1)
Byte     == 0..(2 ^ ByteBits - 1)
MaxUint  == 2 ^ UintBits - 1             \* math.MaxUint64

(* A word divides the uint64 range (32 divides 2^64): toWordSize's       *)
(* saturated branch, MaxUint/32 + 1, is then the exact word count.       *)
ASSUME WordSizeAssumption == (MaxUint + 1) % WordBytes = 0

Abs(x) == IF x < 0 THEN -x ELSE x

-----------------------------------------------------------------------------
(* common/math helpers used by every opcode. *)
U256(x) == x % Modulus
S256(x) == IF x < Modulus \div 2 THEN x ELSE x - Modulus

(* Variant: the sign of the quotient taken from the dividend alone. *)
opSdivDividendSign(a, b) ==
    LET x == S256(a)  y == S256(b)
    IN  IF y = 0 THEN 0
        ELSE U256((Abs(x) \div Abs(y)) * (IF x < 0 THEN -1 ELSE 1))

opSdiv(a, b) ==
    LET x == S256(a)  y == S256(b)
    IN  IF y = 0 THEN 0
        ELSE U256((Abs(x) \div Abs(y)) * (IF x * y < 0 THEN -1 ELSE 1))

opSmod(a, b) ==
    LET x == S256(a)  y == S256(b)
    IN  IF y = 0 THEN 0
        ELSE U256((Abs(x) % Abs(y)) * (IF x < 0 THEN -1 ELSE 1))

(* opSlt applies math.S256 a second time to the already signed y. *)
opSlt(a, b) == IF S256(a) < S256(S256(b)) THEN 1 ELSE 0
opSgt(a, b) == IF S256(a) > S256(b) THEN 1 ELSE 0

-----------------------------------------------------------------------------
(* The memory size an opcode needs, as the interpreter loop computes it *)
(* before charging gas: calcMemSize(offset, length) as a big integer,    *)
(* bigUint64 (overflow when it has more than 64 bits), toWordSize and    *)
(* math.SafeMul(words, 32).  Overflow is errGasUintOverflow.             *)
Overflow == -1

calcMemSize(off, l) == IF l = 0 THEN 0 ELSE off + l

(* Variant: toWordSize without its guard against size+31 wrapping. *)
toWordSizeUnguarded(size) == ((size + WordBytes - 1) % (MaxUint + 1)) \div WordBytes

toWordSize(size) ==
    IF size > MaxUint - (WordBytes - 1) THEN MaxUint \div WordBytes + 1
    ELSE (size + WordBytes - 1) \div WordBytes

MemorySize(off, l) ==
    LET v == calcMemSize(off, l)
    IN  IF v > MaxUint THEN Overflow
        ELSE IF toWordSize(v) * WordBytes > MaxUint THEN Overflow
        ELSE toWordSize(v) * WordBytes

-----------------------------------------------------------------------------
(* Reference definitions, written from spec section 4.1 rather than from *)
(* the code.                                                              *)
Signed(x) == IF x >= Modulus \div 2 THEN x - Modulus ELSE x

(* q is the quotient of truncating division of a by b: the remainder is *)
(* smaller than the divisor and has the sign of the dividend.            *)
IsTruncQuot(a, b, q) ==
    LET r == a - q * b
    IN  Abs(r) < Abs(b) /\ (r = 0 \/ (r > 0) = (a > 0))

TruncQuot(a, b) == CHOOSE q \in -Modulus..Modulus : IsTruncQuot(a, b, q)

(* Memory needed: offset+length rounded up to whole words, or an        *)
(* overflow when that does not fit in a uint64.                         *)
MemRef(off, l) ==
    LET need == IF l = 0 THEN 0 ELSE off + l
        rounded == ((need + WordBytes - 1) \div WordBytes) * WordBytes
    IN  IF rounded > MaxUint THEN Overflow ELSE rounded

=============================================================================
