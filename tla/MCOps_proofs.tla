----------------------------- MODULE MCOps_proofs -----------------------------
(***************************************************************************)
(* Proofs about the arithmetic blocks, the read-ahead contract and the ALU   *)
(* of the Rust model: what the run ops evaluates byte by byte follows from   *)
(* the definitions, for memories and screens of any size.                    *)
(***************************************************************************)
EXTENDS MCOps, TLAPS

Operands == a \in Byte /\ b \in Byte

LEMMA LfsrType == \A r \in Byte : LfsrNext(r) \in Byte
  BY DEF LfsrNext, Pick, Byte

(* The walk of the generator stays on bytes.                                 *)
LEMMA OperandsInv == Spec => []Operands
<1>1. Init => Operands
  BY DEF Init, Operands, Byte
<1>2. Operands /\ [Walk]_<<a, b, age>> => Operands'
  BY LfsrType DEF Operands, Walk
<1>. QED  BY <1>1, <1>2, PTL DEF Spec

-----------------------------------------------------------------------------
(* Results and flags of the ALU.                                             *)

LEMMA Flags == ASSUME Operands PROVE FlagsAreExact
<1>. a \in 0..255 /\ b \in 0..255
  BY DEF Operands, Byte
<1>1. 256 * AluFlagBit(4, a, b) + AluResult(4, a, b) = a + b
  <2>1. AluResult(4, a, b) = (a + b) % 256
    BY DEF AluResult
  <2>2. AluFlagBit(4, a, b) = IF a + b > 255 THEN 1 ELSE 0
    BY DEF AluFlagBit, Pick
  <2>. QED  BY <2>1, <2>2
<1>2. AluResult(5, a, b) = a - b + 256 * (1 - AluFlagBit(5, a, b))
  <2>1. AluResult(5, a, b) = (a - b) % 256
    BY DEF AluResult
  <2>2. AluFlagBit(5, a, b) = IF a >= b THEN 1 ELSE 0
    BY DEF AluFlagBit, Pick
  <2>. QED  BY <2>1, <2>2
<1>3. AluResult(7, a, b) = b - a + 256 * (1 - AluFlagBit(7, a, b))
  <2>1. AluResult(7, a, b) = (b - a) % 256
    BY DEF AluResult
  <2>2. AluFlagBit(7, a, b) = IF b >= a THEN 1 ELSE 0
    BY DEF AluFlagBit, Pick
  <2>. QED  BY <2>1, <2>2
<1>4. 2 * AluResult(6, a, b) + AluFlagBit(6, a, b) = a
  <2>1. AluResult(6, a, b) = a \div 2
    BY DEF AluResult
  <2>2. AluFlagBit(6, a, b) = IF a % 2 = 1 THEN 1 ELSE 0
    BY DEF AluFlagBit, Pick, HasBit
  <2>. QED  BY <2>1, <2>2
<1>5. 256 * AluFlagBit(14, a, b) + AluResult(14, a, b) = 2 * a
  <2>1. AluResult(14, a, b) = (2 * a) % 256
    BY DEF AluResult
  <2>2. AluFlagBit(14, a, b) = IF (a \div 128) % 2 = 1 THEN 1 ELSE 0
    BY DEF AluFlagBit, Pick, HasBit
  <2>. QED  BY <2>1, <2>2
<1>. QED  BY <1>1, <1>2, <1>3, <1>4, <1>5 DEF FlagsAreExact

(* Result and flag of the ALU together are exact.                            *)
THEOREM ExactFlags == Spec => []FlagsAreExact
  BY OperandsInv, Flags, PTL

-----------------------------------------------------------------------------
(* Bits.                                                                     *)

Sum(p1, p2, p4, p8, p16, p32, p64, p128) ==
  Pick(p1, 1) + Pick(p2, 2) + Pick(p4, 4) + Pick(p8, 8)
    + Pick(p16, 16) + Pick(p32, 32) + Pick(p64, 64) + Pick(p128, 128)

LEMMA ByteIsItsBits ==
  ASSUME NEW c \in Byte
  PROVE  c = Sum(HasBit(c, 1), HasBit(c, 2), HasBit(c, 4), HasBit(c, 8),
                 HasBit(c, 16), HasBit(c, 32), HasBit(c, 64), HasBit(c, 128))
  BY SMTT(60) DEF Sum, Pick, HasBit, Byte

Weight == {1, 2, 4, 8, 16, 32, 64, 128}

(* A byte put together from bits has just these bits.                        *)
LEMMA BitsOfBits ==
  ASSUME NEW x \in [Weight -> BOOLEAN]
  PROVE  \A w \in Weight :
           HasBit(Sum(x[1], x[2], x[4], x[8], x[16], x[32], x[64], x[128]), w) = x[w]
<1>1. /\ x[1] \in BOOLEAN /\ x[2] \in BOOLEAN /\ x[4] \in BOOLEAN /\ x[8] \in BOOLEAN
      /\ x[16] \in BOOLEAN /\ x[32] \in BOOLEAN /\ x[64] \in BOOLEAN /\ x[128] \in BOOLEAN
  BY DEF Weight
<1>. DEFINE s == Sum(x[1], x[2], x[4], x[8], x[16], x[32], x[64], x[128])
<1>2. /\ HasBit(s, 1) = x[1]   /\ HasBit(s, 2) = x[2]   /\ HasBit(s, 4) = x[4]
      /\ HasBit(s, 8) = x[8]   /\ HasBit(s, 16) = x[16] /\ HasBit(s, 32) = x[32]
      /\ HasBit(s, 64) = x[64] /\ HasBit(s, 128) = x[128]
  BY <1>1, SMTT(90) DEF Sum, Pick, HasBit
<1>. HIDE DEF s
<1>3. \A w \in Weight : HasBit(s, w) = x[w]
  BY <1>2 DEF Weight
<1>. QED  BY <1>3 DEF s

LEMMA BitsOfXor ==
  ASSUME NEW c \in Byte, NEW d \in Byte
  PROVE  \A w \in Weight : HasBit(BitXor(c, d), w) <=> (HasBit(c, w) # HasBit(d, w))
<1>. DEFINE x == [w \in Weight |-> HasBit(c, w) # HasBit(d, w)]
<1>1. x \in [Weight -> BOOLEAN]
  BY DEF HasBit
<1>2. BitXor(c, d) = Sum(x[1], x[2], x[4], x[8], x[16], x[32], x[64], x[128])
  BY DEF BitXor, FromBits, Sum, Weight
<1>3. \A w \in Weight : HasBit(BitXor(c, d), w) = x[w]
  <2>. HIDE DEF x
  <2>. QED  BY <1>1, <1>2, BitsOfBits
<1>. QED  BY <1>3

LEMMA BitsOfAnd ==
  ASSUME NEW c \in Byte, NEW d \in Byte
  PROVE  \A w \in Weight : HasBit(BitAnd(c, d), w) <=> (HasBit(c, w) /\ HasBit(d, w))
<1>. DEFINE x == [w \in Weight |-> HasBit(c, w) /\ HasBit(d, w)]
<1>1. x \in [Weight -> BOOLEAN]
  BY DEF HasBit
<1>2. BitAnd(c, d) = Sum(x[1], x[2], x[4], x[8], x[16], x[32], x[64], x[128])
  BY DEF BitAnd, FromBits, Sum, Weight
<1>3. \A w \in Weight : HasBit(BitAnd(c, d), w) = x[w]
  <2>. HIDE DEF x
  <2>. QED  BY <1>1, <1>2, BitsOfBits
<1>. QED  BY <1>3

LEMMA BitsOfOr ==
  ASSUME NEW c \in Byte, NEW d \in Byte
  PROVE  \A w \in Weight : HasBit(BitOr(c, d), w) <=> (HasBit(c, w) \/ HasBit(d, w))
<1>. DEFINE x == [w \in Weight |-> HasBit(c, w) \/ HasBit(d, w)]
<1>1. x \in [Weight -> BOOLEAN]
  BY DEF HasBit
<1>2. BitOr(c, d) = Sum(x[1], x[2], x[4], x[8], x[16], x[32], x[64], x[128])
  BY DEF BitOr, FromBits, Sum, Weight
<1>3. \A w \in Weight : HasBit(BitOr(c, d), w) = x[w]
  <2>. HIDE DEF x
  <2>. QED  BY <1>1, <1>2, BitsOfBits
<1>. QED  BY <1>3

LEMMA SameBits ==
  ASSUME NEW c \in Byte, NEW d \in Byte, \A w \in Weight : HasBit(c, w) <=> HasBit(d, w)
  PROVE  c = d
<1>1. /\ (HasBit(c, 1) <=> HasBit(d, 1)) /\ (HasBit(c, 2) <=> HasBit(d, 2))
      /\ (HasBit(c, 4) <=> HasBit(d, 4)) /\ (HasBit(c, 8) <=> HasBit(d, 8))
      /\ (HasBit(c, 16) <=> HasBit(d, 16)) /\ (HasBit(c, 32) <=> HasBit(d, 32))
      /\ (HasBit(c, 64) <=> HasBit(d, 64)) /\ (HasBit(c, 128) <=> HasBit(d, 128))
  BY DEF Weight
<1>. QED  BY <1>1, ByteIsItsBits DEF Sum, Pick

LEMMA BitResultTypes ==
  ASSUME NEW c, NEW d PROVE BitXor(c, d) \in Byte /\ BitAnd(c, d) \in Byte /\ BitOr(c, d) \in Byte
  BY DEF BitXor, BitAnd, BitOr, FromBits, Pick, Byte

LEMMA BitwiseSums ==
  ASSUME NEW c \in Byte, NEW d \in Byte
  PROVE  /\ BitXor(c, d) + BitAnd(c, d) = BitOr(c, d)
         /\ BitOr(c, d) + BitAnd(c, d) = c + d
<1>. DEFINE one(w)    == Pick(HasBit(c, w) # HasBit(d, w), w)
            both(w)   == Pick(HasBit(c, w) /\ HasBit(d, w), w)
            either(w) == Pick(HasBit(c, w) \/ HasBit(d, w), w)
            p(w)      == Pick(HasBit(c, w), w)
            q(w)      == Pick(HasBit(d, w), w)
<1>1. c = p(1) + p(2) + p(4) + p(8) + p(16) + p(32) + p(64) + p(128)
  BY ByteIsItsBits DEF Sum
<1>2. d = q(1) + q(2) + q(4) + q(8) + q(16) + q(32) + q(64) + q(128)
  BY ByteIsItsBits DEF Sum
<1>3. BitXor(c, d) = one(1) + one(2) + one(4) + one(8) + one(16) + one(32) + one(64) + one(128)
  BY DEF BitXor, FromBits
<1>4. BitAnd(c, d) = both(1) + both(2) + both(4) + both(8) + both(16) + both(32) + both(64) + both(128)
  BY DEF BitAnd, FromBits
<1>5. BitOr(c, d) = either(1) + either(2) + either(4) + either(8) + either(16) + either(32) + either(64) + either(128)
  BY DEF BitOr, FromBits
<1>6. ASSUME NEW w \in Nat
      PROVE  /\ one(w) \in Nat /\ both(w) \in Nat /\ either(w) \in Nat /\ p(w) \in Nat /\ q(w) \in Nat
             /\ one(w) + both(w) = either(w)
             /\ either(w) + both(w) = p(w) + q(w)
  BY SMTT(60) DEF Pick, HasBit
<1>. HIDE DEF one, both, either, p, q
<1>7. BitXor(c, d) + BitAnd(c, d) = BitOr(c, d)
  BY <1>3, <1>4, <1>5, <1>6
<1>8. BitOr(c, d) + BitAnd(c, d) = c + d
  <2>1. \A w \in Nat : /\ either(w) \in Nat /\ both(w) \in Nat /\ p(w) \in Nat /\ q(w) \in Nat
                       /\ either(w) = p(w) + q(w) - both(w)
    <3>. TAKE w \in Nat
    <3>1. /\ either(w) \in Nat /\ both(w) \in Nat /\ p(w) \in Nat /\ q(w) \in Nat
          /\ either(w) + both(w) = p(w) + q(w)
      BY <1>6
    <3>. QED  BY <3>1
  <2>. QED  BY <2>1, <1>1, <1>2, <1>4, <1>5
<1>. QED  BY <1>7, <1>8

LEMMA XorTwice ==
  ASSUME NEW c \in Byte, NEW d \in Byte PROVE BitXor(BitXor(c, d), d) = c
<1>1. BitXor(c, d) \in Byte
  BY BitResultTypes
<1>2. BitXor(BitXor(c, d), d) \in Byte
  BY BitResultTypes
<1>3. \A w \in Weight : HasBit(BitXor(c, d), w) <=> (HasBit(c, w) # HasBit(d, w))
  BY BitsOfXor
<1>4. \A w \in Weight : HasBit(BitXor(BitXor(c, d), d), w) <=> (HasBit(BitXor(c, d), w) # HasBit(d, w))
  BY <1>1, BitsOfXor
<1>5. \A w \in Weight : HasBit(BitXor(BitXor(c, d), d), w) <=> HasBit(c, w)
  BY <1>3, <1>4 DEF HasBit
<1>. QED  BY <1>2, <1>5, SameBits

(* The bitwise results satisfy the identities that determine them.           *)
THEOREM ExactBitwise == Spec => []BitwiseIsExact
<1>1. Operands => BitwiseIsExact
  <2>. SUFFICES ASSUME Operands PROVE BitwiseIsExact
    OBVIOUS
  <2>1. a \in Byte /\ b \in Byte
    BY DEF Operands
  <2>2. \A c, d : /\ AluResult(1, c, d) = BitOr(c, d)
                 /\ AluResult(2, c, d) = BitAnd(c, d)
                 /\ AluResult(3, c, d) = BitXor(c, d)
    BY DEF AluResult
  <2>. QED  BY <2>1, <2>2, BitwiseSums, XorTwice DEF BitwiseIsExact
<1>. QED  BY <1>1, OperandsInv, PTL

-----------------------------------------------------------------------------
(* Read-ahead.                                                               *)

LEMMA ReadAheadAgrees ==
  ASSUME NEW oc \in Nat, oc <= 65535 PROVE PrefetchEligible(oc) <=> Sequential(oc)
<1>1. oc \in Nat /\ Class(oc) \in 0..15 /\ Class(oc) = oc \div 4096
  BY DEF Class
<1>2. CASE Class(oc) = 0
  BY <1>1, <1>2 DEF PrefetchEligible, Sequential, Op, SysCls, ReadAhead
<1>3. CASE Class(oc) \in {1, 2, 3, 4, 5, 9, 11, 13, 14}
  <2>1. Op(oc) \in {"JUMP", "CALL", "SKIP_EQ_IMM", "SKIP_NE_IMM", "SKIP_EQ_REG",
                    "SKIP_NE_REG", "JUMP_V0", "DRAW", "KEY_SKIP"}
    BY <1>3 DEF Op
  <2>2. oc # 224
    BY <1>1, <1>3
  <2>. QED  BY <1>1, <1>3, <2>1, <2>2 DEF PrefetchEligible, Sequential, Op, SysCls, ReadAhead
<1>4. CASE Class(oc) \in {6, 7, 10, 12}
  BY <1>1, <1>4 DEF PrefetchEligible, Sequential, Op, SysCls, ReadAhead
<1>5. CASE Class(oc) = 8
  <2>1. Op(oc) = "ALU" /\ oc # 224
    BY <1>1, <1>5 DEF Op
  <2>2. Nib(oc) \in 0..15
    BY <1>1 DEF Nib
  <2>3. Nib(oc) <= 3 <=> AluSimple(oc)
    BY <2>2 DEF AluSimple
  <2>. QED  BY <1>5, <2>1, <2>3 DEF PrefetchEligible, Sequential, SysCls, ReadAhead
<1>6. CASE Class(oc) = 15
  BY <1>1, <1>6 DEF PrefetchEligible, Sequential, Op, SysCls, ReadAhead, MiscOp
<1>. QED  BY <1>1, <1>2, <1>3, <1>4, <1>5, <1>6

(* The core reads ahead exactly where microarchitecture.rs says it may.      *)
THEOREM ReadAheadAsStated == Spec => []ReadAheadContract
<1>1. Operands => ReadAheadContract
  <2>. SUFFICES ASSUME Operands PROVE ReadAheadContract
    OBVIOUS
  <2>. DEFINE oc == 256 * a + b
  <2>1. oc \in Nat /\ oc <= 65535
    BY DEF Operands, Byte
  <2>2. PrefetchEligible(oc) <=> Sequential(oc)
    BY <2>1, ReadAheadAgrees
  <2>. HIDE DEF oc
  <2>3. PrefetchFlushRequired(oc, FALSE) <=> ~Sequential(oc)
    BY <2>2 DEF PrefetchFlushRequired
  <2>4. OpcodePass(oc)[1] /\ OpcodePass(oc)[2]
    BY <2>2, <2>3 DEF OpcodePass
  <2>. QED  BY <2>4 DEF ReadAheadContract, oc
<1>. QED  BY <1>1, OperandsInv, PTL

-----------------------------------------------------------------------------
(* The ALU of the Rust model.                                                *)

LEMMA DefaultRegisters ==
  "v" \in DOMAIN Default /\ Default.v = [r \in Reg |-> 0]
  BY DEF Default

(* The machine AluPass starts from.                                          *)
Loaded == SetReg(SetReg(Default, 1, a), 2, b)

LEMMA LoadedRegisters ==
  ASSUME Operands
  PROVE  /\ "v" \in DOMAIN Loaded /\ DOMAIN Loaded.v = Reg
         /\ Loaded.v[1] = a /\ Loaded.v[2] = b /\ Loaded.v[VF] = 0
  BY DefaultRegisters DEF Loaded, SetReg, Reg, VF

LEMMA AluDecoded ==
  ASSUME NEW s, NEW oc, Class(oc) = 8, oc # 224, oc # 238, NEW rnd, NEW keys
  PROVE  ExecOp(s, oc, rnd, keys) = ExecAlu(s, Nib(oc), XReg(oc), YReg(oc))
  BY DEF ExecOp

LEMMA AluExecuted ==
  ASSUME NEW n \in 0..15, NEW s PROVE Exec(s, \h8120 + n) = ExecAlu(s, n, 1, 2)
<1>. DEFINE oc == \h8120 + n
<1>1. /\ Class(oc) = 8 /\ XReg(oc) = 1 /\ YReg(oc) = 2 /\ Nib(oc) = n
      /\ oc # 224 /\ oc # 238
  BY DEF Class, XReg, YReg, Nib
<1>. HIDE DEF oc
<1>2. Exec(s, oc) = ExecAlu(s, n, 1, 2)
  BY <1>1, AluDecoded DEF Exec
<1>. QED  BY <1>2 DEF oc

(* Result in VX, flag in VF.                                                 *)
LEMMA AluWrites ==
  ASSUME NEW s, "v" \in DOMAIN s, DOMAIN s.v = Reg, NEW r, NEW f
  PROVE  /\ SetReg(s, 1, r).v[1] = r /\ SetReg(s, 1, r).v[VF] = s.v[VF]
         /\ SetFlag(SetReg(s, 1, r), f).v[1] = r /\ SetFlag(SetReg(s, 1, r), f).v[VF] = f
         /\ SetReg(SetFlag(s, f), 1, r).v[1] = r /\ SetReg(SetFlag(s, f), 1, r).v[VF] = f
         /\ SetFlag(s, f).v[1] = s.v[1]
  BY DEF SetReg, SetFlag, Reg, VF

LEMMA AluAgrees ==
  ASSUME Operands, NEW n \in {0, 1, 2, 3, 4, 5, 6, 7, 14}
  PROVE  LET s == ExecAlu(Loaded, n, 1, 2) IN <<s.v[1], s.v[VF]>> = AluRef(n, a, b)
<1>. a \in 0..255 /\ b \in 0..255
  BY DEF Operands, Byte
<1>1. CASE n = 0
  <2>1. ExecAlu(Loaded, n, 1, 2) = SetReg(Loaded, 1, b)
    BY <1>1, LoadedRegisters, AluWrites DEF ExecAlu
  <2>2. AluRef(n, a, b) = <<b, 0>>
    BY <1>1 DEF AluRef
  <2>. QED  BY <2>1, <2>2, LoadedRegisters, AluWrites
<1>2. CASE n = 1
  <2>1. ExecAlu(Loaded, n, 1, 2) = SetReg(Loaded, 1, BitOr(a, b))
    BY <1>2, LoadedRegisters, AluWrites DEF ExecAlu
  <2>2. AluRef(n, a, b) = <<BitOr(a, b), 0>>
    BY <1>2 DEF AluRef
  <2>. QED  BY <2>1, <2>2, LoadedRegisters, AluWrites
<1>3. CASE n = 2
  <2>1. ExecAlu(Loaded, n, 1, 2) = SetReg(Loaded, 1, BitAnd(a, b))
    BY <1>3, LoadedRegisters, AluWrites DEF ExecAlu
  <2>2. AluRef(n, a, b) = <<BitAnd(a, b), 0>>
    BY <1>3 DEF AluRef
  <2>. QED  BY <2>1, <2>2, LoadedRegisters, AluWrites
<1>4. CASE n = 3
  <2>1. ExecAlu(Loaded, n, 1, 2) = SetReg(Loaded, 1, BitXor(a, b))
    BY <1>4, LoadedRegisters, AluWrites DEF ExecAlu
  <2>2. AluRef(n, a, b) = <<BitXor(a, b), 0>>
    BY <1>4 DEF AluRef
  <2>. QED  BY <2>1, <2>2, LoadedRegisters, AluWrites
<1>5. CASE n = 4
  <2>1. ExecAlu(Loaded, n, 1, 2) = SetFlag(SetReg(Loaded, 1, (a + b) % 256), (a + b) \div 256)
    BY <1>5, LoadedRegisters, AluWrites DEF ExecAlu
  <2>2. (IF a + b > 255 THEN 1 ELSE 0) = (a + b) \div 256
    OBVIOUS
  <2>3. AluRef(n, a, b) = <<(a + b) % 256, (a + b) \div 256>>
    BY <1>5, <2>2 DEF AluRef
  <2>. QED  BY <2>1, <2>3, LoadedRegisters, AluWrites
<1>6. CASE n = 5
  <2>1. ExecAlu(Loaded, n, 1, 2) = SetFlag(SetReg(Loaded, 1, (a - b) % 256), Pick(a >= b, 1))
    BY <1>6, LoadedRegisters, AluWrites DEF ExecAlu
  <2>2. NoBorrow(a, b) = Pick(a >= b, 1)
    BY DEF NoBorrow, Pick
  <2>3. AluRef(n, a, b) = <<(a - b) % 256, Pick(a >= b, 1)>>
    BY <1>6, <2>2 DEF AluRef
  <2>. QED  BY <2>1, <2>3, LoadedRegisters, AluWrites
<1>7. CASE n = 6
  <2>1. ExecAlu(Loaded, n, 1, 2) = SetReg(SetFlag(Loaded, a % 2), 1, a \div 2)
    BY <1>7, LoadedRegisters, AluWrites DEF ExecAlu
  <2>2. AluRef(n, a, b) = <<a \div 2, a % 2>>
    BY <1>7 DEF AluRef
  <2>. QED  BY <2>1, <2>2, LoadedRegisters, AluWrites
<1>8. CASE n = 7
  <2>1. ExecAlu(Loaded, n, 1, 2) = SetFlag(SetReg(Loaded, 1, (b - a) % 256), Pick(b >= a, 1))
    BY <1>8, LoadedRegisters, AluWrites DEF ExecAlu
  <2>2. NoBorrow(b, a) = Pick(b >= a, 1)
    BY DEF NoBorrow, Pick
  <2>3. AluRef(n, a, b) = <<(b - a) % 256, Pick(b >= a, 1)>>
    BY <1>8, <2>2 DEF AluRef
  <2>. QED  BY <2>1, <2>3, LoadedRegisters, AluWrites
<1>9. CASE n = 14
  <2>1. ExecAlu(Loaded, n, 1, 2) = SetReg(SetFlag(Loaded, a \div 128), 1, (2 * a) % 256)
    BY <1>9, LoadedRegisters, AluWrites DEF ExecAlu
  <2>2. AluRef(n, a, b) = <<(2 * a) % 256, a \div 128>>
    BY <1>9 DEF AluRef
  <2>. QED  BY <2>1, <2>2, LoadedRegisters, AluWrites
<1>. QED  BY <1>1, <1>2, <1>3, <1>4, <1>5, <1>6, <1>7, <1>8, <1>9

(* The instruction set of the model computes what the ALU of reference.rs    *)
(* computes.                                                                 *)
THEOREM AluAsReference == Spec => []AluMatchesReference
<1>1. Operands => AluMatchesReference
  <2>. SUFFICES ASSUME Operands, NEW k \in 1..9 PROVE AluPass(a, b)[k]
    BY DEF AluMatchesReference
  <2>1. AluOps[k] \in {0, 1, 2, 3, 4, 5, 6, 7, 14}
    BY DEF AluOps
  <2>2. Exec(Loaded, \h8120 + AluOps[k]) = ExecAlu(Loaded, AluOps[k], 1, 2)
    BY <2>1, AluExecuted
  <2>3. LET s == ExecAlu(Loaded, AluOps[k], 1, 2) IN <<s.v[1], s.v[VF]>> = AluRef(AluOps[k], a, b)
    BY <2>1, AluAgrees
  <2>4. LET s == Exec(Loaded, \h8120 + AluOps[k]) IN <<s.v[1], s.v[VF]>> = AluRef(AluOps[k], a, b)
    BY <2>2, <2>3
  <2>. DEFINE agrees(j) ==
         LET s == Exec(SetReg(SetReg(Default, 1, a), 2, b), \h8120 + AluOps[j])
         IN <<s.v[1], s.v[VF]>> = AluRef(AluOps[j], a, b)
  <2>5. AluPass(a, b) = [j \in 1..9 |-> agrees(j)]
    BY DEF AluPass
  <2>6. agrees(k)
    BY <2>4 DEF Loaded
  <2>. HIDE DEF agrees
  <2>. QED  BY <2>5, <2>6
<1>. QED  BY <1>1, OperandsInv, PTL

-----------------------------------------------------------------------------
(* Decimal digits.  After k of the eight shifts the digits are those of the  *)
(* top k bits; the function of these digits satisfies the equation of        *)
(* BcdShift, so BcdShift satisfies it too, and eight steps give its value.   *)

Digits(t) == [h |-> t \div 100, t |-> (t \div 10) % 10, o |-> t % 10]
(* One shift doubles the number and adds the next bit.                       *)
LEMMA ShiftDoubles ==
  ASSUME NEW t \in 0..127, NEW in \in 0..1
  PROVE  Shifted(Digits(t), in) = Digits(2 * t + in)
<1>. DEFINE h == t \div 100
            d == (t \div 10) % 10
            o == t % 10
<1>1. h \in 0..1 /\ d \in 0..9 /\ o \in 0..9 /\ t = 100 * h + 10 * d + o
  OBVIOUS
<1>2. /\ (2 * t + in) % 10 = (2 * Adjust(o) + in) % 16
      /\ ((2 * t + in) \div 10) % 10 = (2 * Adjust(d) + Adjust(o) \div 8) % 16
      /\ (2 * t + in) \div 100 = (2 * Adjust(h) + Adjust(d) \div 8) % 16
  <2>. HIDE DEF h, d, o
  <2>. QED  BY <1>1, SMTT(60) DEF Adjust
<1>. QED  BY <1>2 DEF Shifted, Digits

BitOfByte(c, k) == (c \div (<<128, 64, 32, 16, 8, 4, 2, 1>>[k])) % 2
Equation(f, c) ==
  f = [k \in 0..8 |->
         IF k = 0 THEN [h |-> 0, t |-> 0, o |-> 0]
         ELSE Shifted(f[k - 1], BitOfByte(c, k))]

(* The number the top k bits of c make.                                      *)
Top(c, k) == c \div (<<256, 128, 64, 32, 16, 8, 4, 2, 1>>[k + 1])

LEMMA TopStep ==
  ASSUME NEW c \in Byte, NEW k \in 1..8
  PROVE  /\ Top(c, k - 1) \in 0..127 /\ BitOfByte(c, k) \in 0..1
         /\ Top(c, k) = 2 * Top(c, k - 1) + BitOfByte(c, k)
<1>. c \in 0..255
  BY DEF Byte
<1>1. CASE k = 1
  <2>1. Top(c, k - 1) = c \div 256 /\ Top(c, k) = c \div 128 /\ BitOfByte(c, k) = (c \div 128) % 2
    BY <1>1 DEF Top, BitOfByte
  <2>. QED  BY <2>1
<1>2. CASE k = 2
  <2>1. Top(c, k - 1) = c \div 128 /\ Top(c, k) = c \div 64 /\ BitOfByte(c, k) = (c \div 64) % 2
    BY <1>2 DEF Top, BitOfByte
  <2>. QED  BY <2>1
<1>3. CASE k = 3
  <2>1. Top(c, k - 1) = c \div 64 /\ Top(c, k) = c \div 32 /\ BitOfByte(c, k) = (c \div 32) % 2
    BY <1>3 DEF Top, BitOfByte
  <2>. QED  BY <2>1
<1>4. CASE k = 4
  <2>1. Top(c, k - 1) = c \div 32 /\ Top(c, k) = c \div 16 /\ BitOfByte(c, k) = (c \div 16) % 2
    BY <1>4 DEF Top, BitOfByte
  <2>. QED  BY <2>1
<1>5. CASE k = 5
  <2>1. Top(c, k - 1) = c \div 16 /\ Top(c, k) = c \div 8 /\ BitOfByte(c, k) = (c \div 8) % 2
    BY <1>5 DEF Top, BitOfByte
  <2>. QED  BY <2>1
<1>6. CASE k = 6
  <2>1. Top(c, k - 1) = c \div 8 /\ Top(c, k) = c \div 4 /\ BitOfByte(c, k) = (c \div 4) % 2
    BY <1>6 DEF Top, BitOfByte
  <2>. QED  BY <2>1
<1>7. CASE k = 7
  <2>1. Top(c, k - 1) = c \div 4 /\ Top(c, k) = c \div 2 /\ BitOfByte(c, k) = (c \div 2) % 2
    BY <1>7 DEF Top, BitOfByte
  <2>. QED  BY <2>1
<1>8. CASE k = 8
  <2>1. Top(c, k - 1) = c \div 2 /\ Top(c, k) = c \div 1 /\ BitOfByte(c, k) = (c \div 1) % 2
    BY <1>8 DEF Top, BitOfByte
  <2>. QED  BY <2>1
<1>. QED  BY <1>1, <1>2, <1>3, <1>4, <1>5, <1>6, <1>7, <1>8

LEMMA DigitsSatisfy ==
  ASSUME NEW c \in Byte PROVE Equation([k \in 0..8 |-> Digits(Top(c, k))], c)
<1>. DEFINE f == [k \in 0..8 |-> Digits(Top(c, k))]
<1>1. Digits(Top(c, 0)) = [h |-> 0, t |-> 0, o |-> 0]
  <2>1. Top(c, 0) = 0
    BY DEF Top, Byte
  <2>. QED  BY <2>1 DEF Digits
<1>2. ASSUME NEW k \in 1..8
      PROVE  Digits(Top(c, k)) = Shifted(f[k - 1], BitOfByte(c, k))
  <2>1. f[k - 1] = Digits(Top(c, k - 1))
    OBVIOUS
  <2>2. Shifted(Digits(Top(c, k - 1)), BitOfByte(c, k)) = Digits(Top(c, k))
    <3>1. /\ Top(c, k - 1) \in 0..127 /\ BitOfByte(c, k) \in 0..1
          /\ Top(c, k) = 2 * Top(c, k - 1) + BitOfByte(c, k)
      BY TopStep
    <3>2. Shifted(Digits(Top(c, k - 1)), BitOfByte(c, k))
            = Digits(2 * Top(c, k - 1) + BitOfByte(c, k))
      BY <3>1, ShiftDoubles
    <3>. QED  BY <3>1, <3>2
  <2>. QED  BY <2>1, <2>2
<1>3. \A k \in 0..8 : f[k] = IF k = 0 THEN [h |-> 0, t |-> 0, o |-> 0]
                                      ELSE Shifted(f[k - 1], BitOfByte(c, k))
  <2>. TAKE k \in 0..8
  <2>1. f[k] = Digits(Top(c, k))
    OBVIOUS
  <2>2. CASE k = 0
    BY <2>1, <2>2, <1>1
  <2>3. CASE k \in 1..8
    BY <2>1, <2>3, <1>2
  <2>. QED  BY <2>2, <2>3
<1>4. f = [k \in 0..8 |-> f[k]]
  OBVIOUS
<1>. HIDE DEF f
<1>5. Equation(f, c)
  BY <1>3, <1>4 DEF Equation
<1>. QED  BY <1>5 DEF f

LEMMA BcdShiftRecurses == ASSUME NEW c \in Byte PROVE Equation(BcdShift(c), c)
<1>1. BcdShift(c) = CHOOSE f : Equation(f, c)
  BY Zenon DEF BcdShift, Equation, BitOfByte
<1>2. \E f : Equation(f, c)
  BY DigitsSatisfy, Zenon
<1>. QED  BY <1>1, <1>2, Zenon

LEMMA BcdSteps ==
  ASSUME NEW c \in Byte PROVE BcdShift(c)[8] = Digits(Top(c, 8))
<1>. DEFINE f == BcdShift(c)
<1>1. \A k \in 0..8 : f[k] = IF k = 0 THEN [h |-> 0, t |-> 0, o |-> 0]
                                      ELSE Shifted(f[k - 1], BitOfByte(c, k))
  BY BcdShiftRecurses DEF Equation
<1>. HIDE DEF f
<1>2. f[0] = Digits(Top(c, 0))
  <2>1. Top(c, 0) = 0
    BY DEF Top, Byte
  <2>. QED  BY <2>1, <1>1 DEF Digits
<1>3. ASSUME NEW k \in 1..8, f[k - 1] = Digits(Top(c, k - 1)) PROVE f[k] = Digits(Top(c, k))
  <2>1. f[k] = Shifted(f[k - 1], BitOfByte(c, k))
    BY <1>1
  <2>. QED  BY <2>1, <1>3, TopStep, ShiftDoubles
<1>4. f[1] = Digits(Top(c, 1)) /\ f[2] = Digits(Top(c, 2))
  BY <1>2, <1>3
<1>5. f[3] = Digits(Top(c, 3)) /\ f[4] = Digits(Top(c, 4))
  BY <1>3, <1>4
<1>6. f[5] = Digits(Top(c, 5)) /\ f[6] = Digits(Top(c, 6))
  BY <1>3, <1>5
<1>7. f[7] = Digits(Top(c, 7)) /\ f[8] = Digits(Top(c, 8))
  BY <1>3, <1>6
<1>. QED  BY <1>7 DEF f

(* Shift-and-add-3 yields the decimal digits of every byte.                  *)
THEOREM DecimalDigits == Spec => []BcdIsDecimal
<1>1. Operands => BcdIsDecimal
  <2>. SUFFICES ASSUME Operands PROVE BcdIsDecimal
    OBVIOUS
  <2>1. b \in Byte
    BY DEF Operands
  <2>2. Top(b, 8) = b
    BY <2>1 DEF Top, Byte
  <2>3. BcdShift(b)[8] = Digits(b)
    BY <2>1, <2>2, BcdSteps
  <2>4. Digits(b) = [h |-> BcdDigit(0, b), t |-> BcdDigit(1, b), o |-> BcdDigit(2, b)]
    BY DEF Digits, BcdDigit
  <2>. QED  BY <2>3, <2>4 DEF BcdIsDecimal
<1>. QED  BY <1>1, OperandsInv, PTL
===============================================================================
