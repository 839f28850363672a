-------------------------- MODULE Chip8Bootloader --------------------------
(***************************************************************************)
(* The bootloader: it logs, asks the SD host for the image, lets the bytes  *)
(* through to the ROM loader and releases the core.  One disjunct of        *)
(* BootStep is what one FSM state does in a cycle, on top of the register   *)
(* write of that cycle; where both assign a register, the FSM state wins.   *)
(***************************************************************************)
EXTENDS Naturals

CONSTANTS BootLbas, FirstLba,      \* block addresses; the reset value of lba
          BootSpace,               \* 2^16 in the hardware: lengths wrap here
          DefaultRomBytes          \* reset value of length

BootCount == 0..(BootSpace - 1)

(* A write to the control register carries the bits that are set in it.     *)
Control == SUBSET {"ENABLE", "START", "RELEASE"}
ToBoot  == [reg : {"BOOT_CTRL"}, bits : Control]
           \cup [reg : {"BOOT_LBA"}, val : BootLbas] \cup [reg : {"BOOT_LENGTH"}, val : BootCount]

VARIABLE boot

(* The log messages, by the number of their last byte.                      *)
Messages == [BOOT |-> 4, RUN |-> 3, ERR |-> 3]
NoLog    == [msg |-> "BOOT", idx |-> 0]

BootCleared ==
  [state |-> "RESET", enable |-> TRUE, released |-> FALSE, done |-> FALSE, error |-> FALSE,
   lba |-> FirstLba, length |-> DefaultRomBytes, loaded |-> 0, idx |-> 0,
   sdStart |-> FALSE, logValid |-> FALSE, log |-> NoLog]

CoreRuns    == ~boot.enable \/ boot.released
Start(w)    == w.reg = "BOOT_CTRL" /\ "START" \in w.bits
Request     == [start |-> boot.sdStart, lba |-> boot.lba, length |-> boot.length]

Clocked(w) ==
  [boot EXCEPT !.sdStart = FALSE, !.logValid = FALSE, !.done = FALSE, !.error = FALSE,
     !.enable   = IF w.reg = "BOOT_CTRL" THEN "ENABLE" \in w.bits ELSE @,
     !.released = @ \/ (w.reg = "BOOT_CTRL" /\ "RELEASE" \in w.bits),
     !.lba      = IF w.reg = "BOOT_LBA" THEN w.val ELSE @,
     !.length   = IF w.reg = "BOOT_LENGTH" THEN w.val ELSE @]

BootReset(w) ==
  /\ boot.state = "RESET"
  /\ boot' = [Clocked(w) EXCEPT !.released = ~boot.enable, !.loaded = 0, !.idx = 0,
                !.state = IF boot.enable \/ Start(w) THEN "LOG_BOOT" ELSE @]

(* One byte of a message when the UART is ready; done has the registers     *)
(* after the last byte.                                                     *)
Log(w, msg, ready, done) ==
  boot' = IF ~ready THEN Clocked(w)
          ELSE LET sent == [(IF boot.idx = Messages[msg] THEN done ELSE Clocked(w))
                             EXCEPT !.logValid = TRUE, !.log = [msg |-> msg, idx |-> boot.idx]]
               IN [sent EXCEPT !.idx = IF @ = Messages[msg] THEN 0 ELSE @ + 1]

BootLogBoot(w, ready) ==
  /\ boot.state = "LOG_BOOT"
  /\ Log(w, "BOOT", ready, [Clocked(w) EXCEPT !.state = "START_SD"])

BootStartSd(w, hostBusy) ==
  /\ boot.state = "START_SD"
  /\ boot' = IF hostBusy THEN Clocked(w)
             ELSE [Clocked(w) EXCEPT !.sdStart = TRUE, !.state = "LOAD"]

Taken(w, byte) ==
  [Clocked(w) EXCEPT !.loaded = IF byte.valid THEN (byte.offset + 1) % BootSpace ELSE @]
BootLoadMutant(w, host, byte) ==               \* an error counts as the end
  /\ boot.state = "LOAD"
  /\ boot' = IF host.error \/ host.done
             THEN [Taken(w, byte) EXCEPT !.idx = 0, !.state = "LOG_RUN"]
             ELSE Taken(w, byte)
BootLoad(w, host, byte) ==
  /\ boot.state = "LOAD"
  /\ LET taken == Taken(w, byte)
     IN boot' = IF host.error THEN [taken EXCEPT !.idx = 0, !.state = "LOG_ERROR"]
                ELSE IF host.done THEN [taken EXCEPT !.idx = 0, !.state = "LOG_RUN"]
                ELSE taken

BootLogRun(w, ready) ==
  /\ boot.state = "LOG_RUN"
  /\ Log(w, "RUN", ready,
         [Clocked(w) EXCEPT !.released = TRUE, !.done = TRUE, !.state = "RELEASE"])

BootReleaseMutant(w) ==                        \* a restart keeps the core running
  /\ boot.state = "RELEASE"
  /\ boot' = IF Start(w)
             THEN [Clocked(w) EXCEPT !.loaded = 0, !.state = "LOG_BOOT"]
             ELSE [Clocked(w) EXCEPT !.released = TRUE]
BootRelease(w) ==
  /\ boot.state = "RELEASE"
  /\ boot' = IF Start(w)
             THEN [Clocked(w) EXCEPT !.released = FALSE, !.loaded = 0, !.state = "LOG_BOOT"]
             ELSE [Clocked(w) EXCEPT !.released = TRUE]

BootLogErrorMutant(w, ready) ==                \* an error is not retried
  /\ boot.state = "LOG_ERROR"
  /\ Log(w, "ERR", ready, [Clocked(w) EXCEPT !.error = TRUE])
BootLogError(w, ready) ==
  /\ boot.state = "LOG_ERROR"
  /\ Log(w, "ERR", ready, [Clocked(w) EXCEPT !.error = TRUE, !.state = "RESET"])

BootStep(w, ready, hostBusy, host, byte) ==
  \/ BootReset(w) \/ BootLogBoot(w, ready) \/ BootStartSd(w, hostBusy)
  \/ BootLoad(w, host, byte) \/ BootLogRun(w, ready) \/ BootRelease(w)
  \/ BootLogError(w, ready)

BootTypeOK ==
  boot \in [state : {"RESET", "LOG_BOOT", "START_SD", "LOAD", "LOG_RUN", "RELEASE", "LOG_ERROR"},
            enable : BOOLEAN, released : BOOLEAN, done : BOOLEAN, error : BOOLEAN,
            lba : BootLbas, length : BootCount, loaded : BootCount, idx : 0..4,
            sdStart : BOOLEAN, logValid : BOOLEAN,
            log : [msg : DOMAIN Messages, idx : 0..4]]
=============================================================================
