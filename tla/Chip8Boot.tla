----------------------------- MODULE Chip8Boot -----------------------------
(***************************************************************************)
(* The boot path: bootloader, SD host, the log port of the debug UART and   *)
(* the ROM port of the core, all on one clock, under register writes of     *)
(* software at any cycle.  rom is the program memory behind the port; the   *)
(* bytes are drained through the loader pipeline of the core afterwards.    *)
(***************************************************************************)
EXTENDS Integers, Sequences, Chip8SdHost

CONSTANTS RomSize,        \* 2^12 in the hardware: offsets wrap here
          LoaderDepth,    \* cycles from the ROM port into the RAM
          FrameCycles,    \* clock cycles of a UART frame, ten bits
          Owned,          \* register writes of software that leaves the SD page alone
          Software,       \* every register write software may make
          MaxEvents,      \* bound on the number of writes and resets
          MaxForeign      \* the same once a write outside Owned was made

VARIABLES boot,           \* the bootloader's registers
          uart,           \* cycles left of the frame being sent
          rom,            \* source of each byte: block and byte number
          drain,          \* cycles until the loader pipeline is empty
          asked,          \* block and length of the last boot request
          alone,          \* no write outside Owned so far
          events          \* number of software writes and resets so far

INSTANCE Chip8Bootloader WITH
  BootLbas <- Lbas, FirstLba <- ResetLba, BootSpace <- CountSpace,
  DefaultRomBytes <- DefaultLength

ASSUME BootPathAssumption ==
  /\ RomSize \in Nat /\ RomSize > 0
  /\ LoaderDepth \in Nat
  /\ FrameCycles \in Nat /\ FrameCycles > 0
  /\ Software \subseteq ToSd \cup ToBoot \cup {[reg |-> "UART_TX"]}
  /\ Owned \subseteq Software /\ MaxEvents \in Nat /\ MaxForeign \in 0..MaxEvents

vars == <<sd, stream, boot, uart, rom, drain, asked, alone, events>>

Nothing == [lba |-> ResetLba, offset |-> CountSpace]      \* no byte of any block

Init ==
  /\ sd = SdCleared /\ stream = NoByte /\ boot = BootCleared
  /\ uart = 0
  /\ rom = [k \in 0..(RomSize - 1) |-> Nothing]
  /\ drain = 0 /\ asked = [lba |-> ResetLba, length |-> 0]
  /\ alone = TRUE /\ events = 0

(* The transmitter takes a byte only when it is idle, but log_ready and the *)
(* byte that answers it are a cycle apart.                                  *)
UartReady == uart = 0
Uart(w) ==
  uart' = IF uart > 0 THEN uart - 1
          ELSE IF boot.logValid \/ w.reg = "UART_TX" THEN FrameCycles ELSE 0

(* The bytes of the stream enter the ROM only while the bootloader loads.   *)
RomValid == boot.state = "LOAD" /\ stream.valid
RomPort ==
  /\ rom' = IF RomValid
            THEN [rom EXCEPT ![stream.offset % RomSize] =
                    [lba |-> stream.lba, offset |-> stream.offset]]
            ELSE rom
  /\ drain' = IF RomValid THEN LoaderDepth ELSE IF drain = 0 THEN 0 ELSE drain - 1

Ask == asked' = IF boot.sdStart THEN [lba |-> boot.lba, length |-> boot.length] ELSE asked

Cycle(w, token) ==
  /\ SdStep(w, Request, token)
  /\ BootStep(w, UartReady, Busy, sd, stream)
  /\ Uart(w) /\ RomPort /\ Ask

Counted == events < (IF alone' THEN MaxEvents ELSE MaxForeign) /\ events' = events + 1
Idle(token)   == Cycle(None, token) /\ UNCHANGED <<alone, events>>
Access(token) == \E w \in Software :
                   alone' = (alone /\ w \in Owned) /\ Counted /\ Cycle(w, token)

(* The card sends the start token, or anything else. *)
Tick  == \E token \in BOOLEAN : Idle(token) \/ Access(token)
Reset ==
  /\ UNCHANGED alone /\ Counted
  /\ sd' = SdCleared /\ stream' = NoByte /\ boot' = BootCleared /\ uart' = 0 /\ drain' = 0
  /\ UNCHANGED <<rom, asked>>
Next  == Tick \/ Reset
Spec  == Init /\ [][Next]_vars

(* The clock runs. *)
FairSpec == Spec /\ WF_vars(Tick)

(* A card that is asked again and again answers: the wait for the token     *)
(* does not time out for ever.                                              *)
Answer      == Tick /\ sd.state = "WAIT_TOKEN" /\ sd'.state = "DATA"
CardAnswers == SF_vars(Answer)

-----------------------------------------------------------------------------
TypeOK ==
  /\ SdTypeOK /\ BootTypeOK
  /\ uart \in 0..FrameCycles /\ drain \in 0..LoaderDepth
  /\ rom \in [0..(RomSize - 1) -> [lba : Lbas, offset : 0..CountSpace]]
  /\ asked \in [lba : Lbas, length : Count]
  /\ alone \in BOOLEAN /\ events \in 0..MaxEvents

(* The bootloader releases the core only when the block it asked for is     *)
(* completely in program memory, byte for byte, as long as software leaves  *)
(* the SD page alone.                                                       *)
ImageComplete ==
  alone /\ boot.state \in {"LOG_RUN", "RELEASE"} /\ asked.length <= RomSize =>
    \A k \in 0..(asked.length - 1) : rom[k] = [lba |-> asked.lba, offset |-> k]

(* While the core runs, no byte is presented at the ROM port or under way   *)
(* in the loader pipeline: what Chip8Core assumes of its environment when   *)
(* LoadsWhileRunning is FALSE.                                              *)
HeldWhileLoading == alone /\ CoreRuns => ~RomValid /\ drain = 0

(* The count software reads agrees with the request when the core starts.   *)
LoadedIsLength ==
  alone /\ boot.state \in {"LOG_RUN", "RELEASE"} => boot.loaded = asked.length

(* A load always ends, whatever software does to both pages and whether the *)
(* card answers or not: no request is lost without another transfer that    *)
(* ends in its place.                                                       *)
LoadEnds == boot.state = "LOAD" ~> boot.state # "LOAD"

(* With a card that answers, every boot gets to the release of the core,    *)
(* failed attempts being repeated.                                          *)
BootEnds ==
  CardAnswers =>
    (boot.state = "LOG_BOOT" ~> ~alone \/ (boot.state = "RELEASE" /\ boot.released))
=============================================================================
