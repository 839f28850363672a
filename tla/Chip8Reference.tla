--------------------------- MODULE Chip8Reference ---------------------------
(***************************************************************************)
(* The helper functions of the Rust crate: the independent ALU of           *)
(* reference.rs, the statements microarchitecture.rs makes about the RTL,   *)
(* the program and image builders of rom.rs and the font of constants.rs.   *)
(***************************************************************************)
EXTENDS Chip8Model, SequencesExt

CONSTANTS FramebufferBanks, BlockSize     \* 4 and 512 in the code

(* The mutant takes equal operands for a borrow. *)
NoBorrowMutant(a, b) == IF a <= b THEN 0 ELSE 1
NoBorrow(a, b)       == IF a < b THEN 0 ELSE 1

(* alu_ref: result and flag of 8xyN, computed apart from the model. *)
AluRef(n, a, b) ==
  CASE n = 0  -> <<b, 0>>
    [] n = 1  -> <<BitOr(a, b), 0>>
    [] n = 2  -> <<BitAnd(a, b), 0>>
    [] n = 3  -> <<BitXor(a, b), 0>>
    [] n = 4  -> <<(a + b) % 256, IF a + b > 255 THEN 1 ELSE 0>>
    [] n = 5  -> <<(a - b) % 256, NoBorrow(a, b)>>
    [] n = 6  -> <<a \div 2, a % 2>>
    [] n = 7  -> <<(b - a) % 256, NoBorrow(b, a)>>
    [] n = 14 -> <<(2 * a) % 256, a \div 128>>
    [] OTHER  -> <<a, 0>>

(* What the crate says of the read-ahead of the core.  The mutant forgets    *)
(* that the shifts and sums take a second cycle for their flag.             *)
PrefetchEligibleMutant(oc) ==
  \/ oc = \h00E0
  \/ Class(oc) \in {6, 7, 8, 10, 12}
  \/ Class(oc) = 15 /\ Imm(oc) \in {\h07, \h15, \h18, \h1E, \h29}
PrefetchEligible(oc) ==
  \/ oc = \h00E0
  \/ Class(oc) \in {6, 7, 10, 12}
  \/ Class(oc) = 8 /\ Nib(oc) <= 3
  \/ Class(oc) = 15 /\ Imm(oc) \in {\h07, \h15, \h18, \h1E, \h29}
PrefetchFlushRequired(oc, memoryWrite) == memoryWrite \/ ~PrefetchEligible(oc)

(* The bank of a pixel and its place in the bank. *)
BankBits == (Width * Height) \div FramebufferBanks
FramebufferBank(k) == <<k \div BankBits, k % BankBits>>

PrefixCount(predicates) == Cardinality({k \in DOMAIN predicates : predicates[k]})

(* A write accepted in one cycle is seen by reads from the next cycle on. *)
ElasticWriteLatency == 1
ElasticWriteVisible(accept, read) == read >= accept + ElasticWriteLatency

(* Programs and card images as sequences of bytes. *)
WordsToBytes(words) ==
  [k \in 1..(2 * Len(words)) |->
     IF k % 2 = 1 THEN words[(k + 1) \div 2] \div 256 ELSE words[k \div 2] % 256]
SmokeRom == WordsToBytes(<<\h00E0, \h6008, \h6108, \hA000, \hD015, \h7008, \h620A,
                           \h8024, \hA005, \hD015, \h1214>>)
SdBootImage(rom) ==
  LET used   == IF rom = <<>> THEN 1 ELSE Len(rom)
      blocks == (used + BlockSize - 1) \div BlockSize
  IN [k \in 1..(blocks * BlockSize) |-> IF k <= Len(rom) THEN rom[k] ELSE 0]

Font == <<\hF0, \h90, \h90, \h90, \hF0, \h20, \h60, \h20, \h20, \h70, \hF0, \h10, \hF0, \h80, \hF0,
          \hF0, \h10, \hF0, \h10, \hF0, \h90, \h90, \hF0, \h10, \h10, \hF0, \h80, \hF0, \h10, \hF0,
          \hF0, \h80, \hF0, \h90, \hF0, \hF0, \h10, \h20, \h40, \h40, \hF0, \h90, \hF0, \h90, \hF0,
          \hF0, \h90, \hF0, \h10, \hF0, \hF0, \h90, \hF0, \h90, \h90, \hE0, \h90, \hE0, \h90, \hE0,
          \hF0, \h80, \h80, \h80, \hF0, \hE0, \h90, \h90, \h90, \hE0, \hF0, \h80, \hF0, \h80, \hF0,
          \hF0, \h80, \hF0, \h80, \h80>>
=============================================================================
