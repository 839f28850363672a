------------------------------ MODULE Chip8Asm ------------------------------
(***************************************************************************)
(* Small memories for the model-checking modules: 64 bytes, code from 16,   *)
(* data from 40, a subroutine at 56; a font of two characters.              *)
(***************************************************************************)
EXTENDS Integers, Sequences

SmallFont == [a \in 0..9 |-> <<240, 144, 144, 144, 240, 32, 96, 32, 32, 112>>[a + 1]]

ByteOf(code, k) == LET i == k \div 2 + 1 IN
  IF i > Len(code) THEN 0 ELSE IF k % 2 = 0 THEN code[i] \div 256 ELSE code[i] % 256

Image(code, sub) ==
  [a \in 0..63 |-> CASE a \in 16..39 -> ByteOf(code, a - 16)
                     [] a \in 40..55 -> (2 + 37 * (a - 40)) % 256
                     [] a \in 56..63 -> ByteOf(sub, a - 56)
                     [] OTHER -> 0]

JumpTo(a) == 4096 + a

(* The code, then a jump to itself; a skip at the end of the code lands on   *)
(* a second one.                                                            *)
Finish(code) == code \o <<JumpTo(16 + 2 * Len(code)), JumpTo(18 + 2 * Len(code))>>
=============================================================================
