------------------------------- MODULE MCOps -------------------------------
(***************************************************************************)
(* The arithmetic blocks of the core and the Rust validation suite, over     *)
(* every pair of bytes: b is chosen, a walks the orbit of the random        *)
(* generator (and zero).                                                    *)
(***************************************************************************)
EXTENDS Chip8Validation

Video == INSTANCE Chip8VideoModel WITH FbWidth <- Width, FbHeight <- Height

VARIABLES a, b, age     \* age counts the steps since a was the seed

Init == a \in {0, 165} /\ b \in Byte /\ age = 0
Walk == /\ a' = LfsrNext(a)
        /\ age' = IF a = 0 \/ a' = 165 THEN 0 ELSE age + 1
        /\ UNCHANGED b
Spec == Init /\ [][Walk]_<<a, b, age>>

(* Shift-and-add-3 yields the decimal digits of every byte, each at most 9. *)
BcdIsDecimal ==
  BcdShift(b)[8] = [h |-> BcdDigit(0, b), t |-> BcdDigit(1, b), o |-> BcdDigit(2, b)]

(* Carry and no-borrow flags make the 8-bit results exact: result and flag  *)
(* together are the sum, the difference and the doubled or halved operand.  *)
FlagsAreExact ==
  LET res(n) == AluResult(n, a, b)
      flg(n) == AluFlagBit(n, a, b)
  IN /\ 256 * flg(4) + res(4) = a + b
     /\ res(5) = a - b + 256 * (1 - flg(5))
     /\ res(7) = b - a + 256 * (1 - flg(7))
     /\ 2 * res(6) + flg(6) = a
     /\ 256 * flg(14) + res(14) = 2 * a

(* The bitwise results satisfy the identities that determine them.          *)
BitwiseIsExact ==
  LET or == AluResult(1, a, b)  and == AluResult(2, a, b)  xor == AluResult(3, a, b)
  IN /\ xor + and = or
     /\ or + and = a + b
     /\ AluResult(3, xor, b) = a

(* The generator goes through all 255 nonzero bytes before it repeats.      *)
RngIsMaximal == a # 0 => (LfsrNext(a) = 165 <=> age = 254)

(* The core reads ahead exactly where microarchitecture.rs says it may: the *)
(* decoder and the contract agree on all 65536 opcodes.                     *)
ReadAheadContract == \A k \in 1..2 : OpcodePass(256 * a + b)[k]

(* The instruction set of model.rs computes result and flag as the ALU of   *)
(* reference.rs, for all pairs of bytes.                                    *)
AluMatchesReference == \A k \in 1..9 : AluPass(a, b)[k]

(* The stress and fuzz passes of the validation suite have no failing check *)
(* for any byte a with any of SuiteBytes, not only for those their generator *)
(* draws, and the fixed passes have none either.                            *)
SuiteBytes == {k \in Byte : k % 16 \in {0, 5, 10, 15}}
FixedReport == Merge(Merge(ReportOf(SmokePass), ReportOf(EdgePass)),
                     Merge(ReportOf(MicroPass), ReportOf(Video!VideoPass)))
SeededReport ==
  Merge(ReportOf(StressPass(a, b)),
        Merge(ReportOf(FuzzPass(a % 16, a \div 16, b, \h300)),
              ReportOf(FuzzPass(a % 16, a \div 16, b, \h30F))))
SuiteIsClean ==
  /\ a = 0 /\ b = 0 => FixedReport.failures = 0
  /\ b \in SuiteBytes => SeededReport.failures = 0
=============================================================================
