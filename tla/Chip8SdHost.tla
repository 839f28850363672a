---------------------------- MODULE Chip8SdHost ----------------------------
(***************************************************************************)
(* The SD/SPI host: one read command, the data token, the bytes of the      *)
(* block and two CRC bytes, sampled every other clock cycle.  The card is   *)
(* the environment; what it sends is told apart only as far as the host     *)
(* looks: the start token or not, then byte number count of block lba.      *)
(***************************************************************************)
EXTENDS Naturals

CONSTANTS Lbas, ResetLba,        \* block addresses; the reset value of lba
          CountSpace,         \* 2^16 in the hardware: byte counts wrap here
          CmdBits, ByteBits,  \* 48 and 8 in the hardware
          Timeout,            \* bytes waited for the token
          DefaultLength,      \* reset value of the length register
          SimBootRom          \* bytes come from a table, without a card

Count == 0..(CountSpace - 1)

(* A register write of this cycle, to any page, or None. *)
None  == [reg |-> "none"]
ToSd  == {None, [reg |-> "SD_START"]}
         \cup [reg : {"SD_LBA"}, val : Lbas] \cup [reg : {"SD_LENGTH"}, val : Count]

ASSUME SdAssumption ==
  /\ ResetLba \in Lbas
  /\ CountSpace \in Nat /\ CountSpace > 1
  /\ CmdBits \in Nat /\ CmdBits > 0
  /\ ByteBits \in Nat /\ ByteBits > 0
  /\ Timeout \in Nat
  /\ DefaultLength \in Count
  /\ SimBootRom \in BOOLEAN

VARIABLES sd,         \* the registers of the host
          stream      \* the byte it presents in this cycle

NoByte == [valid |-> FALSE, offset |-> 0, lba |-> ResetLba]

SdCleared ==
  [state |-> "IDLE", clk |-> FALSE, bit |-> 0, lba |-> ResetLba, length |-> DefaultLength,
   count |-> 0, timeout |-> 0, done |-> FALSE, error |-> FALSE]

Busy   == sd.state \notin {"IDLE", "DONE", "ERROR"}
Sample == Busy /\ sd.clk
LastBitMutant(bits) == sd.bit = bits
LastBit(bits) == sd.bit = bits - 1

(* What every cycle does: pulses fall, the card clock toggles, registers    *)
(* take what software writes.                                               *)
SdClocked(w) ==
  [sd EXCEPT !.done = FALSE, !.error = FALSE, !.clk = Busy /\ ~sd.clk,
             !.lba    = IF w.reg = "SD_LBA" THEN w.val ELSE @,
             !.length = IF w.reg = "SD_LENGTH" THEN w.val ELSE @]
Quiet == stream' = [stream EXCEPT !.valid = FALSE]

(* A software start reads the host's own lba and length, and wins over a    *)
(* request of the bootloader.                                               *)
SdIdle(w, request) ==
  LET idle == [SdClocked(w) EXCEPT !.bit = 0, !.timeout = 0, !.count = 0]
  IN /\ sd.state = "IDLE" /\ Quiet
     /\ sd' = IF w.reg = "SD_START" THEN [idle EXCEPT !.state = "CMD"]
              ELSE IF request.start
              THEN [idle EXCEPT !.state = "CMD", !.lba = request.lba,
                                !.length = request.length]
              ELSE idle

(* One sampled bit; after the last one of a group, the next state. *)
Shift(w, bits, next) ==
  sd' = IF ~Sample THEN SdClocked(w)
        ELSE IF LastBit(bits) THEN [SdClocked(w) EXCEPT !.bit = 0, !.state = next]
        ELSE [SdClocked(w) EXCEPT !.bit = @ + 1]

SdCmd(w) == sd.state = "CMD" /\ Shift(w, CmdBits, "WAIT_TOKEN") /\ Quiet

SdWait(w, token) ==
  /\ sd.state = "WAIT_TOKEN" /\ Quiet
  /\ IF SimBootRom THEN sd' = [SdClocked(w) EXCEPT !.bit = 0, !.state = "DATA"]
     ELSE IF Sample /\ LastBit(ByteBits) /\ ~token /\ sd.timeout < Timeout
     THEN sd' = [SdClocked(w) EXCEPT !.bit = 0, !.timeout = @ + 1]
     ELSE Shift(w, ByteBits, IF token THEN "DATA" ELSE "ERROR")

LastByteMutant == sd.count = sd.length
LastByte == sd.count = (sd.length + CountSpace - 1) % CountSpace

SdData(w) ==
  /\ sd.state = "DATA"
  /\ IF Sample /\ LastBit(ByteBits)
     THEN /\ stream' = [valid |-> TRUE, offset |-> sd.count, lba |-> sd.lba]
          /\ sd' = [SdClocked(w) EXCEPT
                      !.bit = 0, !.count = (@ + 1) % CountSpace,
                      !.state = IF LastByte THEN "CRC0" ELSE "DATA"]
     ELSE Shift(w, ByteBits, "DATA") /\ Quiet

SdCrc(w) ==
  /\ sd.state \in {"CRC0", "CRC1"} /\ Quiet
  /\ Shift(w, ByteBits, IF sd.state = "CRC0" THEN "CRC1" ELSE "DONE")

SdDone(w) ==
  /\ sd.state = "DONE" /\ Quiet
  /\ sd' = [SdClocked(w) EXCEPT !.done = TRUE, !.state = "IDLE"]

SdErrorMutant(w) ==                            \* no error pulse
  /\ sd.state = "ERROR" /\ Quiet
  /\ sd' = [SdClocked(w) EXCEPT !.state = "IDLE"]
SdError(w) ==
  /\ sd.state = "ERROR" /\ Quiet
  /\ sd' = [SdClocked(w) EXCEPT !.error = TRUE, !.state = "IDLE"]

SdStep(w, request, token) ==
  \/ SdIdle(w, request) \/ SdCmd(w) \/ SdWait(w, token) \/ SdData(w)
  \/ SdCrc(w) \/ SdDone(w) \/ SdError(w)

SdTypeOK ==
  /\ sd \in [state : {"IDLE", "CMD", "WAIT_TOKEN", "DATA", "CRC0", "CRC1", "DONE", "ERROR"},
             clk : BOOLEAN, bit : Nat, lba : Lbas, length : Count, count : Count,
             timeout : 0..Timeout, done : BOOLEAN, error : BOOLEAN]
  /\ sd.bit < CmdBits \/ sd.bit < ByteBits
  /\ stream \in [valid : BOOLEAN, offset : Count, lba : Lbas]
=============================================================================
