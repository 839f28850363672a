------------------------------ MODULE Chip8Ops ------------------------------
(***************************************************************************)
(* The combinational blocks of the CHIP-8 core: opcode fields and decode,   *)
(* ALU, skip unit, binary-to-decimal, LFSR step and sprite geometry.        *)
(* Everything here is a pure operator; Chip8Core wires the blocks together. *)
(* An opcode is an integer in 0..65535, a byte an integer in 0..255.        *)
(* AddrSpace is the size of the memory (4096 in the hardware); a smaller    *)
(* power of two keeps the 12-bit masks of the code as a modulus.            *)
(***************************************************************************)
EXTENDS Integers

CONSTANTS AddrSpace,      \* number of memory bytes, 2^12 in the hardware
          Width, Height   \* display size, 64 x 32 in the hardware

ASSUME AddrSpaceAssumption == AddrSpace \in Nat /\ AddrSpace > 1
ASSUME DisplayAssumption ==
  /\ Width \in Nat /\ Width >= 8
  /\ Height \in Nat /\ Height >= 16

Byte   == 0..255
Addr   == 0..(AddrSpace - 1)
MaxOpcode == 65535
Opcode == 0..MaxOpcode
Reg    == 0..15
Pixel  == (0..(Width - 1)) \X (0..(Height - 1))
VF     == 15

Wrap(a) == a % AddrSpace

(* Opcode fields. *)
Class(oc) == oc \div 4096
XReg(oc)  == (oc \div 256) % 16
YReg(oc)  == (oc \div 16) % 16
Nib(oc)   == oc % 16
Imm(oc)   == oc % 256
NNN(oc)   == oc % 4096

(***************************************************************************)
(* Decode: the operation an opcode selects and whether it is legal.         *)
(***************************************************************************)
MiscOp(kk) ==
  CASE kk =   7 -> "TIMER_READ"
    [] kk =  10 -> "WAIT_KEY"
    [] kk =  21 -> "TIMER_DELAY_WRITE"
    [] kk =  24 -> "TIMER_SOUND_WRITE"
    [] kk =  30 -> "ADD_I"
    [] kk =  41 -> "FONT_ADDR"
    [] kk =  51 -> "BCD"
    [] kk =  85 -> "STORE_REGS"
    [] kk = 101 -> "LOAD_REGS"
    [] OTHER    -> "ILLEGAL"

Op(oc) ==
  IF Class(oc) = 15 THEN MiscOp(Imm(oc))
  ELSE << "SYS", "JUMP", "CALL", "SKIP_EQ_IMM", "SKIP_NE_IMM", "SKIP_EQ_REG",
          "LOAD_IMM", "ADD_IMM", "ALU", "SKIP_NE_REG", "LOAD_I", "JUMP_V0",
          "RANDOM", "DRAW", "KEY_SKIP" >>[Class(oc) + 1]

AluSimple(oc) == Nib(oc) \in 0..3
AluFlag(oc)   == Nib(oc) \in {4, 5, 6, 7, 14}
SysCls(oc)    == oc = 224            \* 00E0
SysRet(oc)    == oc = 238            \* 00EE

Legal(oc) ==
  /\ Op(oc) = "SYS" => SysCls(oc) \/ SysRet(oc)
  /\ Op(oc) \in {"SKIP_EQ_REG", "SKIP_NE_REG"} => Nib(oc) = 0
  /\ Op(oc) = "ALU" => AluSimple(oc) \/ AluFlag(oc)
  /\ Op(oc) = "KEY_SKIP" => Imm(oc) \in {158, 161}
  /\ Op(oc) # "ILLEGAL"

(* Operations after which the following opcode may be read ahead.  The      *)
(* mutant also reads ahead of a skip.                                       *)
ReadAheadMutant == {"LOAD_IMM", "ADD_IMM", "LOAD_I", "TIMER_READ", "SKIP_EQ_IMM"}
ReadAhead == {"LOAD_IMM", "ADD_IMM", "LOAD_I", "RANDOM", "TIMER_READ",
              "TIMER_DELAY_WRITE", "TIMER_SOUND_WRITE", "ADD_I", "FONT_ADDR"}
Sequential(oc) ==
  \/ SysCls(oc)
  \/ Op(oc) = "ALU" /\ AluSimple(oc)
  \/ Op(oc) \in ReadAhead

(***************************************************************************)
(* Bits of a byte: w is the weight of a bit, a power of two.                *)
(***************************************************************************)
HasBit(b, w) == (b \div w) % 2 = 1
Pick(c, w)   == IF c THEN w ELSE 0
FromBits(P(_)) == Pick(P(1), 1) + Pick(P(2), 2) + Pick(P(4), 4) + Pick(P(8), 8)
                + Pick(P(16), 16) + Pick(P(32), 32) + Pick(P(64), 64) + Pick(P(128), 128)

BitXorMutant(a, b) == FromBits(LAMBDA w : HasBit(a, w) /\ ~HasBit(b, w))
BitOr(a, b)  == FromBits(LAMBDA w : HasBit(a, w) \/ HasBit(b, w))
BitAnd(a, b) == FromBits(LAMBDA w : HasBit(a, w) /\ HasBit(b, w))
BitXor(a, b) == FromBits(LAMBDA w : HasBit(a, w) # HasBit(b, w))

(* The byte operations of the ALU, selected by the low nibble of 8xyN. *)
AluResult(n, a, b) ==
  CASE n = 0  -> b
    [] n = 1  -> BitOr(a, b)
    [] n = 2  -> BitAnd(a, b)
    [] n = 3  -> BitXor(a, b)
    [] n = 4  -> (a + b) % 256
    [] n = 5  -> (a - b) % 256
    [] n = 6  -> a \div 2
    [] n = 7  -> (b - a) % 256
    [] n = 14 -> (2 * a) % 256
    [] OTHER  -> b

AluFlagBitMutant(n, a, b) ==     \* equal operands borrow, no carry out
  Pick((n = 5 /\ a > b) \/ (n = 6 /\ HasBit(a, 1)) \/ (n = 7 /\ b > a), 1)
AluFlagBit(n, a, b) ==
  Pick(\/ n = 4  /\ a + b > 255
       \/ n = 5  /\ a >= b
       \/ n = 6  /\ HasBit(a, 1)
       \/ n = 7  /\ b >= a
       \/ n = 14 /\ HasBit(a, 128), 1)

SkipTaken(oc, vx, vy) ==
  CASE Op(oc) = "SKIP_EQ_IMM" -> vx = Imm(oc)
    [] Op(oc) = "SKIP_NE_IMM" -> vx # Imm(oc)
    [] Op(oc) = "SKIP_EQ_REG" -> Nib(oc) = 0 /\ vx = vy
    [] Op(oc) = "SKIP_NE_REG" -> Nib(oc) = 0 /\ vx # vy

(* Key opcodes; keys is the set of pressed keys. *)
KeySkipTaken(oc, vx, keys) ==
  \/ Imm(oc) = 158 /\ vx % 16 \in keys
  \/ Imm(oc) = 161 /\ vx % 16 \notin keys
FirstPressed(keys) == CHOOSE k \in keys : \A j \in keys : k <= j

(* The 8-bit shift register of the random generator. *)
LfsrNextMutant(r) == (2 * r) % 256                      \* no feedback
LfsrTapMutant(r)  == ((2 * r) % 256) + Pick(HasBit(r, 128) # HasBit(r, 32), 1)
LfsrNext(r) ==
  ((2 * r) % 256) + Pick((HasBit(r, 128) # HasBit(r, 32)) # (HasBit(r, 16) # HasBit(r, 8)), 1)

FontAddr(v) == Wrap((4 * (v % 16)) + (v % 16))

(***************************************************************************)
(* Decimal digits by shift-and-add-3, the way chip8_bcd computes them: the  *)
(* digits of the top k bits of b after k of the eight shifts.               *)
(***************************************************************************)
AdjustMutant(d) == IF d > 5 THEN (d + 3) % 16 ELSE d
Adjust(d) == IF d >= 5 THEN (d + 3) % 16 ELSE d
Shifted(p, in) ==
  [h |-> (2 * Adjust(p.h) + Adjust(p.t) \div 8) % 16,
   t |-> (2 * Adjust(p.t) + Adjust(p.o) \div 8) % 16,
   o |-> (2 * Adjust(p.o) + in) % 16]
BcdShift(b) ==
  LET digits[k \in 0..8] ==
        IF k = 0 THEN [h |-> 0, t |-> 0, o |-> 0]
        ELSE Shifted(digits[k - 1], (b \div (<<128, 64, 32, 16, 8, 4, 2, 1>>[k])) % 2)
  IN digits

(* The three digits Fx33 stores: their values, which BcdShift computes. *)
BcdDigit(k, b) == CASE k = 0 -> b \div 100
                    [] k = 1 -> (b \div 10) % 10
                    [] k = 2 -> b % 10

(* The pixel a sprite bit lands on, and whether the sprite lights it. *)
SpritePixel(x, y, bit, row) == <<(x + bit) % Width, (y + row) % Height>>
SpriteBit(byte, bit) == HasBit(byte, <<128, 64, 32, 16, 8, 4, 2, 1>>[bit + 1])
=============================================================================
