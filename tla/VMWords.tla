------------------------------- MODULE VMWords -------------------------------
(***************************************************************************)
(* The word-level semantics of the interpreter's non-call instructions     *)
(* (src/core/vm/instructions.go, common.go, interpreter.go):               *)
(*   the arithmetic, comparison and bitwise opcodes on 256-bit words,      *)
(*   PUSHn and CALLDATALOAD, which read code / input through getData,     *)
(*   the memory-size computation of the interpreter loop before an        *)
(*   opcode that touches memory (calcMemSize, bigUint64, toWordSize).     *)
(*                                                                         *)
(* The widths and the operators without bitwise operations are in      *)
(* VMWordArith.  Widths are parameters: a word is WordBytes bytes of ByteBits bits (the  *)
(* code's 32 and 8) and Go's uint64 has UintBits bits.  The constants the  *)
(* code writes as 31, 32, 8 and 7 are WordBytes-1, WordBytes, ByteBits    *)
(* and ByteBits-1.                                                          *)
(*                                                                         *)
(* The state is the operand stack (top first) and the last instruction     *)
(* executed, so that every step can be compared with a reference           *)
(* definition of what the instruction should compute.                     *)
(***************************************************************************)
EXTENDS VMWordArith, Sequences, Bitwise

CONSTANTS
    Code,        \* contract code: a sequence of bytes
    Input,       \* call data: a sequence of bytes
    StackCap     \* bound: operand stack depth explored

ASSUME StackAssumption == StackCap \in Nat \ {0, 1, 2}

ASSUME DataAssumption == Code \in Seq(Byte) /\ Input \in Seq(Byte)

-----------------------------------------------------------------------------
(* math.PaddedBigBytes(v, n): the big-endian bytes of v, left-padded. *)
PaddedBigBytes(v, n) ==
    [i \in 1..n |-> (v \div 2 ^ (ByteBits * (n - i))) % 2 ^ ByteBits]

(* new(big.Int).SetBytes(b): big-endian bytes to a number. *)
SetBytes(b) ==
    LET val[k \in 0..Len(b)] ==
            IF k = 0 THEN 0 ELSE val[k - 1] * 2 ^ ByteBits + b[k]
    IN  val[Len(b)]

(* Variant: the slice padded on the left instead of the right. *)
GetDataLeftPad(data, start, size) ==
    LET dlen == Len(data)
        s == IF start < dlen THEN start ELSE dlen
        e == IF s + size < dlen THEN s + size ELSE dlen
    IN  [i \in 1..(size - (e - s)) |-> 0] \o SubSeq(data, s + 1, e)

(* getData: data[start:start+size], clamped to the data and right-padded *)
(* with zero bytes up to size.                                          *)
GetData(data, start, size) ==
    LET dlen == Len(data)
        s == IF start < dlen THEN start ELSE dlen
        e == IF s + size < dlen THEN s + size ELSE dlen
    IN  SubSeq(data, s + 1, e) \o [i \in 1..(size - (e - s)) |-> 0]

-----------------------------------------------------------------------------
(* The opcodes.  Each takes its operands in pop order: x is the top.    *)
opAdd(x, y) == U256(x + y)
opSub(x, y) == U256(x - y)
opMul(x, y) == U256(x * y)
opDiv(x, y) == IF y # 0 THEN U256(x \div y) ELSE 0
opMod(x, y) == IF y = 0 THEN 0 ELSE U256(x % y)

(* math.Exp: square-and-multiply over the bits of the exponent, reducing *)
(* modulo 2^256 after every product.                                    *)
opExp(base, exponent) ==
    LET sq[e \in 0..exponent, b \in Word] ==
            IF e = 0 THEN 1
            ELSE U256((IF e % 2 = 1 THEN b ELSE 1) * sq[e \div 2, U256(b * b)])
    IN  sq[exponent, base]

(* SIGNEXTEND with back < 31: copy bit back*8+7 into every higher bit.  *)
(* big.Int's Not(mask) is -mask-1, so the Or is taken modulo 2^256.     *)
opSignExtend(back, num) ==
    LET bit  == back * ByteBits + ByteBits - 1
        mask == 2 ^ bit - 1
    IN  IF (num \div 2 ^ bit) % 2 = 1 THEN U256(num | U256(-mask - 1))
        ELSE num & mask

(* Variant: the complement left unreduced (no math.U256). *)
opNotUnreduced(x) == -x - 1

opNot(x)    == U256(-x - 1)
opLt(x, y)  == IF x < y THEN 1 ELSE 0
opGt(x, y)  == IF x > y THEN 1 ELSE 0
opEq(x, y)  == IF x = y THEN 1 ELSE 0
opIszero(x) == IF x > 0 THEN 0 ELSE 1
opAnd(x, y) == x & y
opOr(x, y)  == x | y
opXor(x, y) == x ^^ y

opByte(th, val) ==
    IF th < WordBytes THEN PaddedBigBytes(val, WordBytes)[th + 1] ELSE 0

opAddmod(x, y, z) == IF z > 0 THEN U256((x + y) % z) ELSE 0
opMulmod(x, y, z) == IF z > 0 THEN U256((x * y) % z) ELSE 0

-----------------------------------------------------------------------------
Unary  == {"NOT", "ISZERO"}
Binary == {"ADD", "SUB", "MUL", "DIV", "SDIV", "MOD", "SMOD", "EXP",
           "SIGNEXTEND", "LT", "GT", "SLT", "SGT", "EQ", "AND", "OR", "XOR",
           "BYTE"}
Ternary == {"ADDMOD", "MULMOD"}
AluOps == Unary \cup Binary \cup Ternary
Arity(op) == IF op \in Unary THEN 1 ELSE IF op \in Binary THEN 2 ELSE 3

NoSize == -2     \* no memory-size computation has happened yet

VARIABLES
    stack,   \* the operand stack, top first
    last,    \* the last instruction: [op, n, at] (n, at for PUSHn)
    msize    \* result of the last memory-size computation

vars == <<stack, last, msize>>

Init ==
    /\ stack \in [1..StackCap -> Word]
    /\ last = [op |-> "none", n |-> 0, at |-> 0]
    /\ msize = NoSize

Did(op) == last' = [op |-> op, n |-> 0, at |-> 0]

(* The function table of the ALU opcodes, by arity: the opcode's         *)
(* execute function applied to the popped operands.                      *)
Apply1(op, x) == IF op = "NOT" THEN opNot(x) ELSE opIszero(x)

Apply2(op, x, y) ==
    CASE op = "ADD" -> opAdd(x, y)  [] op = "SUB" -> opSub(x, y)
      [] op = "MUL" -> opMul(x, y)  [] op = "DIV" -> opDiv(x, y)
      [] op = "SDIV" -> opSdiv(x, y) [] op = "MOD" -> opMod(x, y)
      [] op = "SMOD" -> opSmod(x, y) [] op = "EXP" -> opExp(x, y)
      [] op = "LT" -> opLt(x, y)    [] op = "GT" -> opGt(x, y)
      [] op = "SLT" -> opSlt(x, y)  [] op = "SGT" -> opSgt(x, y)
      [] op = "EQ" -> opEq(x, y)    [] op = "AND" -> opAnd(x, y)
      [] op = "OR" -> opOr(x, y)    [] op = "XOR" -> opXor(x, y)
      [] op = "BYTE" -> opByte(x, y)

Apply3(op, x, y, z) ==
    IF op = "ADDMOD" THEN opAddmod(x, y, z) ELSE opMulmod(x, y, z)

(* The stack effect shared by every ALU opcode: pop the operands, push   *)
(* the result.                                                           *)
Exec1(op) ==
    /\ Len(stack) >= 1
    /\ stack' = <<Apply1(op, stack[1])>> \o Tail(stack)
    /\ Did(op) /\ UNCHANGED msize

Exec2(op) ==
    /\ Len(stack) >= 2
    /\ stack' = <<Apply2(op, stack[1], stack[2])>> \o SubSeq(stack, 3, Len(stack))
    /\ Did(op) /\ UNCHANGED msize

Exec3(op) ==
    /\ Len(stack) >= 3
    /\ stack' = <<Apply3(op, stack[1], stack[2], stack[3])>> \o SubSeq(stack, 4, Len(stack))
    /\ Did(op) /\ UNCHANGED msize

(* opSignExtend pops num only when back < 31; otherwise num stays. *)
SignExtend ==
    /\ Len(stack) >= 2
    /\ stack' = IF stack[1] < WordBytes - 1
                THEN <<opSignExtend(stack[1], stack[2])>> \o SubSeq(stack, 3, Len(stack))
                ELSE Tail(stack)
    /\ Did("SIGNEXTEND") /\ UNCHANGED msize

(* makePush(n): push the n code bytes after pc, zero-padded past the end. *)
Push(n, pc) ==
    /\ Len(stack) < StackCap
    /\ stack' = <<SetBytes(GetData(Code, pc + 1, n))>> \o stack
    /\ last' = [op |-> "PUSH", n |-> n, at |-> pc]
    /\ UNCHANGED msize

(* opCalldataLoad: the 32 input bytes at the popped offset. *)
CalldataLoad ==
    /\ Len(stack) >= 1
    /\ stack' = <<SetBytes(GetData(Input, stack[1], WordBytes))>> \o Tail(stack)
    /\ Did("CALLDATALOAD") /\ UNCHANGED msize

(* The memory-size step of the loop for an opcode whose memorySize is   *)
(* calcMemSize(stack.Back(0), stack.Back(1)); the stack is left alone.  *)
SizeMemory ==
    /\ Len(stack) >= 2
    /\ msize' = MemorySize(stack[1], stack[2])
    /\ Did("MEMSIZE") /\ UNCHANGED stack

Next ==
    \/ \E op \in Unary : Exec1(op)
    \/ \E op \in Binary \ {"SIGNEXTEND"} : Exec2(op)
    \/ \E op \in Ternary : Exec3(op)
    \/ SignExtend
    \/ \E n \in 1..WordBytes, pc \in 0..Len(Code) : Push(n, pc)
    \/ CalldataLoad
    \/ SizeMemory

Spec == Init /\ [][Next]_vars

-----------------------------------------------------------------------------
(* Reference semantics, written from the definitions of spec section 4.1 *)
(* rather than from the code: digit by digit, by characterisation, or by *)
(* repeated multiplication.                                              *)
Bit(x, i) == (x \div 2 ^ i) % 2

BitsRef(x, y, F(_, _)) ==
    LET s[i \in 0..WordBits] ==
            IF i = 0 THEN 0 ELSE s[i - 1] + 2 ^ (i - 1) * F(Bit(x, i - 1), Bit(y, i - 1))
    IN  s[WordBits]
AndBit(a, b) == a * b
OrBit(a, b)  == IF a + b > 0 THEN 1 ELSE 0
XorBit(a, b) == (a + b) % 2

PowRef(b, e) ==
    LET p[k \in 0..e] == IF k = 0 THEN 1 ELSE U256(p[k - 1] * b)
    IN  p[e]

(* The low k+1 bytes read as a two's-complement number. *)
SignExtRef(k, x) ==
    IF k >= WordBytes - 1 THEN x
    ELSE LET n == ByteBits * (k + 1)
             low == x % 2 ^ n
         IN  U256(IF low >= 2 ^ (n - 1) THEN low - 2 ^ n ELSE low)

(* Byte i counted from the most significant end: shift it to the top. *)
ByteRef(i, x) ==
    IF i >= WordBytes THEN 0
    ELSE U256(x * 2 ^ (ByteBits * i)) \div 2 ^ (WordBits - ByteBits)

Ref(op, s) ==
    LET a == s[1]
        b == IF Len(s) >= 2 THEN s[2] ELSE 0
        c == IF Len(s) >= 3 THEN s[3] ELSE 0
    IN  CASE op = "ADD"        -> (a + b) % Modulus
          [] op = "SUB"        -> (a - b) % Modulus
          [] op = "MUL"        -> (a * b) % Modulus
          [] op = "DIV"        -> IF b = 0 THEN 0 ELSE a \div b
          [] op = "MOD"        -> IF b = 0 THEN 0 ELSE a % b
          [] op = "SDIV"       -> IF b = 0 THEN 0 ELSE TruncQuot(Signed(a), Signed(b)) % Modulus
          [] op = "SMOD"       -> IF b = 0 THEN 0
                                  ELSE (Signed(a) - TruncQuot(Signed(a), Signed(b)) * Signed(b)) % Modulus
          [] op = "EXP"        -> PowRef(a, b)
          [] op = "SIGNEXTEND" -> SignExtRef(a, b)
          [] op = "NOT"        -> Modulus - 1 - a
          [] op = "LT"         -> IF a < b THEN 1 ELSE 0
          [] op = "GT"         -> IF a > b THEN 1 ELSE 0
          [] op = "SLT"        -> IF Signed(a) < Signed(b) THEN 1 ELSE 0
          [] op = "SGT"        -> IF Signed(a) > Signed(b) THEN 1 ELSE 0
          [] op = "EQ"         -> IF a = b THEN 1 ELSE 0
          [] op = "ISZERO"     -> IF a = 0 THEN 1 ELSE 0
          [] op = "AND"        -> BitsRef(a, b, AndBit)
          [] op = "OR"         -> BitsRef(a, b, OrBit)
          [] op = "XOR"        -> BitsRef(a, b, XorBit)
          [] op = "BYTE"       -> ByteRef(a, b)
          [] op = "ADDMOD"     -> IF c = 0 THEN 0 ELSE (a + b) % c
          [] op = "MULMOD"     -> IF c = 0 THEN 0 ELSE (a * b) % c

(* n bytes of data from start, a missing byte reading as zero. *)
ReadRef(data, start, n) ==
    LET at(j) == IF j < Len(data) THEN data[j + 1] ELSE 0
        s[i \in 0..n] == IF i = 0 THEN 0 ELSE s[i - 1] * 2 ^ ByteBits + at(start + i - 1)
    IN  s[n]

-----------------------------------------------------------------------------
(* Every variable ranges over the values the code can give it: words    *)
(* stay reduced modulo 2^256.                                            *)
TypeOK ==
    /\ stack \in Seq(Word) /\ Len(stack) <= StackCap
    /\ last.op \in AluOps \cup {"none", "PUSH", "CALLDATALOAD", "MEMSIZE"}
    /\ msize \in {NoSize, Overflow} \cup 0..MaxUint

(* Every arithmetic, comparison and bitwise opcode replaces its operands *)
(* with the two's-complement result of spec 4.1 and leaves the words     *)
(* below them alone, on every operand including the signed extremes,     *)
(* division by zero and SIGNEXTEND/BYTE indices at and past the word.    *)
AluMatchesReference ==
    [][last'.op \in AluOps =>
         stack' = <<Ref(last'.op, stack)>> \o SubSeq(stack, Arity(last'.op) + 1, Len(stack))
      ]_vars

(* PUSHn and CALLDATALOAD read exactly the requested bytes, big-endian,  *)
(* with bytes past the end of the code or input reading as zero.         *)
ReadsZeroPadded ==
    [][/\ last'.op = "PUSH" =>
              stack' = <<ReadRef(Code, last'.at + 1, last'.n)>> \o stack
       /\ last'.op = "CALLDATALOAD" =>
              stack' = <<ReadRef(Input, stack[1], WordBytes)>> \o Tail(stack)
      ]_vars

(* The loop sizes memory to cover offset+length in whole words, and     *)
(* rejects with errGasUintOverflow exactly the sizes a uint64 cannot     *)
(* hold, including the ones where rounding up itself would wrap.         *)
MemorySizeCovers ==
    [][last'.op = "MEMSIZE" => msize' = MemRef(stack[1], stack[2])]_vars

=============================================================================
