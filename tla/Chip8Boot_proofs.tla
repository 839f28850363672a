--------------------------- MODULE Chip8Boot_proofs ---------------------------
(***************************************************************************)
(* The boot path releases the core with the whole image in memory and the   *)
(* loader empty, for blocks, lengths, card and log timings of any size, as  *)
(* long as software leaves the SD page to the bootloader.  The argument     *)
(* follows one request: while the bootloader is not in LOAD the host rests  *)
(* without a pulse; in LOAD the transfer under way is the one asked for,    *)
(* and the byte count of the host says which bytes are stored.              *)
(***************************************************************************)
EXTENDS Chip8Boot, TLAPS

SdPage == {"SD_START", "SD_LBA", "SD_LENGTH"}
SdLeftAlone == \A w \in Owned : w.reg \notin SdPage
(* Software neither disables the boot flow nor forces the release.          *)
HoldLeftAlone ==
  \A w \in Owned : w.reg = "BOOT_CTRL" => "ENABLE" \in w.bits /\ "RELEASE" \notin w.bits
(* The CRC bytes of a block take longer than the way into the RAM.          *)
LoaderIsShort == LoaderDepth <= 4 * ByteBits

AnyWrite == Software \cup {None}

LEMMA WriteShape ==
  ASSUME NEW w \in AnyWrite
  PROVE  /\ w.reg = "SD_LBA" => w.val \in Lbas
         /\ w.reg = "SD_LENGTH" => w.val \in Count
         /\ w.reg = "BOOT_LBA" => w.val \in Lbas
         /\ w.reg = "BOOT_LENGTH" => w.val \in Count
         /\ w.reg = "BOOT_CTRL" => w.bits \in SUBSET {"ENABLE", "START", "RELEASE"}
  <1>1. w \in ToSd \cup ToBoot \cup {[reg |-> "UART_TX"]}
    BY BootPathAssumption DEF AnyWrite, ToSd
  <1>2. CASE w \in ToSd BY <1>2 DEF ToSd, None
  <1>3. CASE w \in ToBoot BY <1>3 DEF ToBoot, Control, BootCount, Count
  <1>4. CASE w = [reg |-> "UART_TX"] BY <1>4
  <1>5. QED BY <1>1, <1>2, <1>3, <1>4

-----------------------------------------------------------------------------
(* The host: registers and the bits of a group.                             *)
SdStates == {"IDLE", "CMD", "WAIT_TOKEN", "DATA", "CRC0", "CRC1", "DONE", "ERROR"}
SdOK ==
  /\ SdTypeOK
  /\ sd.bit < IF sd.state = "CMD" THEN CmdBits ELSE ByteBits
  /\ stream.valid => sd.state \in {"DATA", "CRC0"}

LEMMA ClockedOK ==
  ASSUME SdTypeOK, NEW w \in AnyWrite
  PROVE  /\ SdClocked(w) \in [state : SdStates, clk : BOOLEAN, bit : Nat, lba : Lbas,
              length : Count, count : Count, timeout : 0..Timeout, done : BOOLEAN,
              error : BOOLEAN]
         /\ SdClocked(w).state = sd.state /\ SdClocked(w).bit = sd.bit
         /\ SdClocked(w).count = sd.count /\ SdClocked(w).timeout = sd.timeout
         /\ ~SdClocked(w).done /\ ~SdClocked(w).error
         /\ SdClocked(w).clk = (Busy /\ ~sd.clk)
         /\ w.reg \notin SdPage =>
              SdClocked(w).lba = sd.lba /\ SdClocked(w).length = sd.length
  <1>1. Busy \in BOOLEAN BY DEF Busy
  <1>2. QED BY <1>1, WriteShape DEF SdTypeOK, SdClocked, SdPage, SdStates

LEMMA CountFacts ==
  /\ 0 \in Count
  /\ \A n \in Count : (n + 1) % CountSpace \in Count
  /\ \A n \in Count : n # CountSpace - 1 => (n + 1) % CountSpace = n + 1
  /\ \A n \in Count : (n + CountSpace - 1) % CountSpace \in Count
  /\ \A n \in Count : (((n + CountSpace - 1) % CountSpace) + 1) % CountSpace = n
  /\ \A n \in Count : n > 0 => (n + CountSpace - 1) % CountSpace = n - 1
  /\ (0 + CountSpace - 1) % CountSpace = CountSpace - 1
  <1>1. CountSpace \in Nat /\ CountSpace > 1 BY SdAssumption
  <1>2. QED BY <1>1 DEF Count

(* What a cycle of the host is when software leaves its page alone.         *)
Kept    == sd'.lba = sd.lba /\ sd'.length = sd.length
NoPulse == ~sd'.done /\ ~sd'.error
Rests(r) ==
  /\ sd.state = "IDLE" /\ ~r.start /\ sd'.state = "IDLE"
  /\ Kept /\ NoPulse /\ ~stream'.valid
Begins(r) ==
  /\ sd.state = "IDLE" /\ r.start /\ sd'.state = "CMD"
  /\ sd'.lba = r.lba /\ sd'.length = r.length /\ sd'.count = 0 /\ NoPulse /\ ~stream'.valid
Waits ==
  /\ sd.state \in {"CMD", "WAIT_TOKEN"}
  /\ sd'.state \in {"CMD", "WAIT_TOKEN", "DATA", "ERROR"}
  /\ Kept /\ sd'.count = sd.count /\ NoPulse /\ ~stream'.valid
Between ==
  /\ sd.state = "DATA" /\ sd'.state = "DATA"
  /\ Kept /\ sd'.count = sd.count /\ NoPulse /\ ~stream'.valid
Sends ==
  /\ sd.state = "DATA" /\ Kept /\ NoPulse
  /\ stream' = [valid |-> TRUE, offset |-> sd.count, lba |-> sd.lba]
  /\ sd'.count = (sd.count + 1) % CountSpace
  /\ sd'.state = IF LastByte THEN "CRC0" ELSE "DATA"
  /\ sd'.bit = 0 /\ ~sd'.clk
Checks ==
  /\ sd.state \in {"CRC0", "CRC1"} /\ Kept /\ NoPulse /\ ~stream'.valid
  /\ \/ ~sd.clk /\ sd'.clk /\ sd'.bit = sd.bit /\ sd'.state = sd.state
     \/ sd.clk /\ ~sd'.clk /\ sd.bit # ByteBits - 1 /\ sd'.bit = sd.bit + 1
           /\ sd'.state = sd.state
     \/ sd.clk /\ ~sd'.clk /\ sd.bit = ByteBits - 1 /\ sd'.bit = 0
           /\ sd'.state = IF sd.state = "CRC0" THEN "CRC1" ELSE "DONE"
Ends  == sd.state = "DONE" /\ sd'.state = "IDLE" /\ Kept /\ sd'.done /\ ~sd'.error /\ ~stream'.valid
Fails == sd.state = "ERROR" /\ sd'.state = "IDLE" /\ Kept /\ ~sd'.done /\ sd'.error /\ ~stream'.valid
Moves(r) == \/ Rests(r) \/ Begins(r) \/ Waits \/ Between \/ Sends
            \/ Checks \/ Ends \/ Fails

LEMMA QuietStream == ASSUME SdTypeOK, Quiet PROVE ~stream'.valid /\ stream' \in [valid : BOOLEAN, offset : Count, lba : Lbas]
  BY DEF SdTypeOK, Quiet

(* One bit of a group, or none, in a busy state.                            *)
LEMMA ShiftShape ==
  ASSUME SdOK, NEW w \in AnyWrite, NEW bits \in Nat \ {0}, NEW next \in SdStates, Busy,
         sd.bit < bits, Shift(w, bits, next)
  PROVE  /\ sd' \in [state : SdStates, clk : BOOLEAN, bit : Nat, lba : Lbas, length : Count,
                     count : Count, timeout : 0..Timeout, done : BOOLEAN, error : BOOLEAN]
         /\ sd'.count = sd.count /\ NoPulse
         /\ w.reg \notin SdPage => Kept
         /\ \/ ~sd.clk /\ sd'.clk /\ sd'.bit = sd.bit /\ sd'.state = sd.state
            \/ sd.clk /\ ~sd'.clk /\ sd.bit # bits - 1 /\ sd'.bit = sd.bit + 1
                  /\ sd'.bit < bits /\ sd'.state = sd.state
            \/ sd.clk /\ ~sd'.clk /\ sd.bit = bits - 1 /\ sd'.bit = 0 /\ sd'.state = next
  <1> DEFINE c == SdClocked(w)
  <1>1. /\ c \in [state : SdStates, clk : BOOLEAN, bit : Nat, lba : Lbas, length : Count,
                  count : Count, timeout : 0..Timeout, done : BOOLEAN, error : BOOLEAN]
        /\ c.state = sd.state /\ c.bit = sd.bit /\ c.count = sd.count
        /\ ~c.done /\ ~c.error /\ c.clk = ~sd.clk
        /\ w.reg \notin SdPage => c.lba = sd.lba /\ c.length = sd.length
    BY ClockedOK DEF SdOK
  <1>2. sd.clk \in BOOLEAN /\ sd.bit \in Nat BY DEF SdOK, SdTypeOK
  <1>3. sd' = IF ~sd.clk THEN c
              ELSE IF sd.bit = bits - 1 THEN [c EXCEPT !.bit = 0, !.state = next]
              ELSE [c EXCEPT !.bit = @ + 1]
    BY DEF Shift, Sample, LastBit
  <1> HIDE DEF c
  <1>4. CASE ~sd.clk BY <1>1, <1>2, <1>3, <1>4 DEF NoPulse, Kept
  <1>5. CASE sd.clk /\ sd.bit = bits - 1 BY <1>1, <1>2, <1>3, <1>5 DEF NoPulse, Kept
  <1>6. CASE sd.clk /\ sd.bit # bits - 1 BY <1>1, <1>2, <1>3, <1>6 DEF NoPulse, Kept
  <1>7. QED BY <1>2, <1>4, <1>5, <1>6

LEMMA HostStep ==
  ASSUME SdOK, NEW w \in AnyWrite, NEW token \in BOOLEAN, NEW r,
         r.lba \in Lbas, r.length \in Count, SdStep(w, r, token)
  PROVE  SdOK' /\ (w.reg \notin SdPage => Moves(r))
  <1> DEFINE c == SdClocked(w)
             Typed(s) == s \in [state : SdStates, clk : BOOLEAN, bit : Nat, lba : Lbas,
                  length : Count, count : Count, timeout : 0..Timeout, done : BOOLEAN,
                  error : BOOLEAN]
  <1>0. /\ CmdBits \in Nat \ {0} /\ ByteBits \in Nat \ {0} /\ 0 \in 0..Timeout /\ 0 \in Count
    <2>1. /\ CmdBits \in Nat \ {0} /\ ByteBits \in Nat \ {0} /\ 0 \in 0..Timeout
      BY SdAssumption
    <2>2. QED BY <2>1, CountFacts
  <1>1. /\ Typed(c) /\ c.state = sd.state /\ c.bit = sd.bit /\ c.count = sd.count
        /\ c.timeout = sd.timeout /\ ~c.done /\ ~c.error
        /\ w.reg \notin SdPage => c.lba = sd.lba /\ c.length = sd.length
    BY ClockedOK DEF SdOK
  <1>2. /\ sd.bit \in Nat /\ sd.timeout \in 0..Timeout /\ sd.count \in Count /\ sd.lba \in Lbas
        /\ sd.clk \in BOOLEAN /\ sd.state \in SdStates /\ SdTypeOK
        /\ sd.bit < IF sd.state = "CMD" THEN CmdBits ELSE ByteBits
    BY DEF SdOK, SdTypeOK, SdStates
  <1>3. ASSUME Typed(sd'), stream' \in [valid : BOOLEAN, offset : Count, lba : Lbas],
               sd'.bit < IF sd'.state = "CMD" THEN CmdBits ELSE ByteBits,
               stream'.valid => sd'.state \in {"DATA", "CRC0"}
        PROVE  SdOK'
    BY <1>3 DEF SdOK, SdTypeOK, SdStates
  <1> HIDE DEF c
  <1>4. CASE SdIdle(w, r)
    <2> DEFINE i == [c EXCEPT !.bit = 0, !.timeout = 0, !.count = 0]
    <2>1. /\ sd.state = "IDLE" /\ Quiet
          /\ sd' = IF w.reg = "SD_START" THEN [i EXCEPT !.state = "CMD"]
                   ELSE IF r.start THEN [i EXCEPT !.state = "CMD", !.lba = r.lba, !.length = r.length]
                   ELSE i
      BY <1>4 DEF SdIdle, c
    <2>2. /\ Typed(i) /\ i.bit = 0 /\ i.count = 0 /\ i.state = "IDLE" /\ ~i.done /\ ~i.error
          /\ i.lba = c.lba /\ i.length = c.length
      <3>1. Typed(i) BY <1>0, <1>1
      <3>2. QED BY <1>1, <2>1, <3>1
    <2> HIDE DEF i
    <2>3. /\ Typed(sd') /\ sd'.bit = 0 BY <2>1, <2>2 DEF SdStates
    <2>4. w.reg \notin SdPage => Rests(r) \/ Begins(r)
      BY <1>1, <2>1, <2>2, QuietStream, <1>2 DEF Rests, Begins, Kept, NoPulse, SdPage
    <2>5. SdOK' BY <1>0, <1>2, <1>3, <2>1, <2>3, QuietStream
    <2>6. QED BY <2>4, <2>5 DEF Moves
  <1>5. CASE SdCmd(w)
    <2>1. sd.state = "CMD" /\ Busy /\ Quiet /\ Shift(w, CmdBits, "WAIT_TOKEN")
      BY <1>5 DEF SdCmd, Busy
    <2>2. /\ Typed(sd') /\ sd'.count = sd.count /\ NoPulse /\ (w.reg \notin SdPage => Kept)
          /\ \/ sd'.bit = sd.bit /\ sd'.state = sd.state
             \/ sd'.bit < CmdBits /\ sd'.state = sd.state
             \/ sd'.bit = 0 /\ sd'.state = "WAIT_TOKEN"
      BY <1>0, <1>2, <2>1, ShiftShape DEF SdStates
    <2>3. SdOK' BY <1>0, <1>2, <1>3, <2>1, <2>2, QuietStream
    <2>4. w.reg \notin SdPage => Waits BY <1>2, <2>1, <2>2, QuietStream DEF Waits
    <2>5. QED BY <2>3, <2>4 DEF Moves
  <1>6. CASE SdWait(w, token)
    <2>1. sd.state = "WAIT_TOKEN" /\ Busy /\ Quiet BY <1>6 DEF SdWait, Busy
    <2>2. /\ Typed(sd') /\ sd'.count = sd.count /\ NoPulse /\ (w.reg \notin SdPage => Kept)
          /\ sd'.bit < ByteBits /\ sd'.state \in {"WAIT_TOKEN", "DATA", "ERROR"}
      <3>1. CASE SimBootRom
        <4>1. sd' = [c EXCEPT !.bit = 0, !.state = "DATA"] BY <1>6, <3>1 DEF SdWait, c
        <4>2. Typed(sd') BY <1>1, <4>1 DEF SdStates
        <4>3. sd'.bit < ByteBits BY <1>0, <1>1, <4>1
        <4>4. QED BY <1>1, <4>1, <4>2, <4>3 DEF NoPulse, Kept
      <3>2. CASE ~SimBootRom /\ Sample /\ LastBit(ByteBits) /\ ~token /\ sd.timeout < Timeout
        <4>1. sd' = [c EXCEPT !.bit = 0, !.timeout = @ + 1] BY <1>6, <3>2 DEF SdWait, c
        <4>2. sd.timeout + 1 \in 0..Timeout BY <1>2, <3>2, SdAssumption
        <4>3. Typed(sd') BY <1>1, <4>1, <4>2
        <4>4. sd'.bit < ByteBits BY <1>0, <1>1, <4>1
        <4>5. QED BY <1>1, <2>1, <4>1, <4>3, <4>4 DEF NoPulse, Kept
      <3>3. CASE ~SimBootRom /\ ~(Sample /\ LastBit(ByteBits) /\ ~token /\ sd.timeout < Timeout)
        <4>1. Shift(w, ByteBits, IF token THEN "DATA" ELSE "ERROR") BY <1>6, <3>3 DEF SdWait
        <4>2. (IF token THEN "DATA" ELSE "ERROR") \in SdStates BY DEF SdStates
        <4>3. QED BY <1>0, <1>2, <2>1, <4>1, <4>2, ShiftShape
      <3>4. QED BY <3>1, <3>2, <3>3
    <2>3. SdOK' BY <1>2, <1>3, <2>1, <2>2, QuietStream
    <2>4. w.reg \notin SdPage => Waits BY <1>2, <2>1, <2>2, QuietStream DEF Waits
    <2>5. QED BY <2>3, <2>4 DEF Moves
  <1>7. CASE SdData(w)
    <2>1. sd.state = "DATA" /\ Busy BY <1>7 DEF SdData, Busy
    <2>2. CASE Sample /\ LastBit(ByteBits)
      <3>1. /\ stream' = [valid |-> TRUE, offset |-> sd.count, lba |-> sd.lba]
            /\ sd' = [c EXCEPT !.bit = 0, !.count = (@ + 1) % CountSpace,
                               !.state = IF LastByte THEN "CRC0" ELSE "DATA"]
        BY <1>7, <2>2 DEF SdData, c
      <3>2. (sd.count + 1) % CountSpace \in Count BY <1>2, CountFacts
      <3>3. c.clk = FALSE BY <1>2, <2>1, <2>2, ClockedOK DEF Sample, c
      <3>4. /\ Typed(sd') /\ sd'.bit = 0 /\ ~sd'.clk /\ sd'.count = (sd.count + 1) % CountSpace
            /\ sd'.state = IF LastByte THEN "CRC0" ELSE "DATA"
            /\ NoPulse /\ (w.reg \notin SdPage => Kept)
        BY <1>0, <1>1, <3>1, <3>2, <3>3 DEF NoPulse, Kept, SdStates
      <3>5. SdOK' BY <1>0, <1>2, <1>3, <3>1, <3>4
      <3>6. w.reg \notin SdPage => Sends BY <2>1, <3>1, <3>4 DEF Sends
      <3>7. QED BY <3>5, <3>6 DEF Moves
    <2>3. CASE ~(Sample /\ LastBit(ByteBits))
      <3>1. Shift(w, ByteBits, "DATA") /\ Quiet BY <1>7, <2>3 DEF SdData
      <3>2. /\ Typed(sd') /\ sd'.count = sd.count /\ NoPulse /\ (w.reg \notin SdPage => Kept)
            /\ sd'.bit < ByteBits /\ sd'.state = "DATA"
        BY <1>0, <1>2, <2>1, <3>1, ShiftShape DEF SdStates
      <3>3. SdOK' BY <1>2, <1>3, <3>1, <3>2, QuietStream
      <3>4. w.reg \notin SdPage => Between BY <1>2, <2>1, <3>1, <3>2, QuietStream DEF Between
      <3>5. QED BY <3>3, <3>4 DEF Moves
    <2>4. QED BY <2>2, <2>3
  <1>8. CASE SdCrc(w)
    <2> DEFINE n == IF sd.state = "CRC0" THEN "CRC1" ELSE "DONE"
    <2>1. /\ sd.state \in {"CRC0", "CRC1"} /\ Busy /\ Quiet /\ Shift(w, ByteBits, n)
          /\ n \in SdStates
      BY <1>8 DEF SdCrc, Busy, SdStates
    <2>2. /\ Typed(sd') /\ sd'.count = sd.count /\ NoPulse /\ (w.reg \notin SdPage => Kept)
          /\ \/ ~sd.clk /\ sd'.clk /\ sd'.bit = sd.bit /\ sd'.state = sd.state
             \/ sd.clk /\ ~sd'.clk /\ sd.bit # ByteBits - 1 /\ sd'.bit = sd.bit + 1
                   /\ sd'.bit < ByteBits /\ sd'.state = sd.state
             \/ sd.clk /\ ~sd'.clk /\ sd.bit = ByteBits - 1 /\ sd'.bit = 0 /\ sd'.state = n
      BY <1>0, <1>2, <2>1, ShiftShape
    <2>3. SdOK' BY <1>0, <1>2, <1>3, <2>1, <2>2, QuietStream
    <2>4. w.reg \notin SdPage => Checks BY <1>2, <2>1, <2>2, QuietStream DEF Checks
    <2>5. QED BY <2>3, <2>4 DEF Moves
  <1>9. CASE SdDone(w)
    <2>1. sd.state = "DONE" /\ Quiet /\ sd' = [c EXCEPT !.done = TRUE, !.state = "IDLE"]
      BY <1>9 DEF SdDone, c
    <2>2. /\ Typed(sd') /\ sd'.bit = sd.bit /\ sd'.state = "IDLE" /\ sd'.done /\ ~sd'.error
          /\ (w.reg \notin SdPage => Kept)
      BY <1>1, <2>1 DEF Kept, SdStates
    <2>3. SdOK' BY <1>2, <1>3, <2>1, <2>2, QuietStream
    <2>4. w.reg \notin SdPage => Ends BY <1>2, <2>1, <2>2, QuietStream DEF Ends
    <2>5. QED BY <2>3, <2>4 DEF Moves
  <1>10. CASE SdError(w)
    <2>1. sd.state = "ERROR" /\ Quiet /\ sd' = [c EXCEPT !.error = TRUE, !.state = "IDLE"]
      BY <1>10 DEF SdError, c
    <2>2. /\ Typed(sd') /\ sd'.bit = sd.bit /\ sd'.state = "IDLE" /\ ~sd'.done /\ sd'.error
          /\ (w.reg \notin SdPage => Kept)
      BY <1>1, <2>1 DEF Kept, SdStates
    <2>3. SdOK' BY <1>2, <1>3, <2>1, <2>2, QuietStream
    <2>4. w.reg \notin SdPage => Fails BY <1>2, <2>1, <2>2, QuietStream DEF Fails
    <2>5. QED BY <2>3, <2>4 DEF Moves
  <1>11. QED BY <1>4, <1>5, <1>6, <1>7, <1>8, <1>9, <1>10 DEF SdStep

-----------------------------------------------------------------------------
(* The bootloader. *)
BootStates == {"RESET", "LOG_BOOT", "START_SD", "LOAD", "LOG_RUN", "RELEASE", "LOG_ERROR"}
BootRegs ==
  [state : BootStates, enable : BOOLEAN, released : BOOLEAN, done : BOOLEAN, error : BOOLEAN,
   lba : Lbas, length : Count, loaded : Count, idx : 0..4, sdStart : BOOLEAN,
   logValid : BOOLEAN, log : [msg : {"BOOT", "RUN", "ERR"}, idx : 0..4]]
BootOK == boot \in BootRegs /\ (boot.state # "LOG_BOOT" => boot.idx <= 3)
Holds(w) == w.reg = "BOOT_CTRL" => "ENABLE" \in w.bits /\ "RELEASE" \notin w.bits

LEMMA Enters ==
  ASSUME NEW b \in BootRegs, NEW s \in BootStates
  PROVE  LET e == [b EXCEPT !.idx = 0, !.state = s]
         IN /\ e \in BootRegs /\ e.idx = 0 /\ e.state = s /\ e.sdStart = b.sdStart
            /\ e.loaded = b.loaded /\ e.enable = b.enable /\ e.released = b.released
  <1> DEFINE i == [b EXCEPT !.idx = 0]
             e == [i EXCEPT !.state = s]
  <1>1. i \in BootRegs /\ i.idx = 0 BY DEF BootRegs
  <1>2. /\ i.sdStart = b.sdStart /\ i.loaded = b.loaded /\ i.enable = b.enable
        /\ i.released = b.released
    BY DEF BootRegs
  <1>3. e = [b EXCEPT !.idx = 0, !.state = s] BY DEF BootRegs
  <1> HIDE DEF i
  <1>4. e \in BootRegs /\ e.state = s BY <1>1 DEF BootRegs
  <1>5. /\ e.idx = i.idx /\ e.sdStart = i.sdStart /\ e.loaded = i.loaded
        /\ e.enable = i.enable /\ e.released = i.released
    BY <1>1 DEF BootRegs
  <1> HIDE DEF e
  <1>6. QED BY <1>1, <1>2, <1>3, <1>4, <1>5

LEMMA BootTyped == BootOK => BootTypeOK
  BY DEF BootOK, BootTypeOK, BootRegs, BootStates, BootCount, Count, Messages

LEMMA BootClockedOK ==
  ASSUME BootOK, NEW w \in AnyWrite
  PROVE  /\ Clocked(w) \in BootRegs
         /\ Clocked(w).state = boot.state /\ Clocked(w).idx = boot.idx
         /\ Clocked(w).loaded = boot.loaded /\ ~Clocked(w).sdStart
         /\ Holds(w) => /\ boot.enable => Clocked(w).enable
                        /\ Clocked(w).released = boot.released
  <1> DEFINE enabled == IF w.reg = "BOOT_CTRL" THEN "ENABLE" \in w.bits ELSE boot.enable
             released == boot.released \/ (w.reg = "BOOT_CTRL" /\ "RELEASE" \in w.bits)
             lba == IF w.reg = "BOOT_LBA" THEN w.val ELSE boot.lba
             length == IF w.reg = "BOOT_LENGTH" THEN w.val ELSE boot.length
  <1>1. boot \in BootRegs BY DEF BootOK
  <1>2. lba \in Lbas /\ length \in Count BY <1>1, WriteShape DEF BootRegs
  <1>3. enabled \in BOOLEAN /\ released \in BOOLEAN
    <2>1. boot.enable \in BOOLEAN /\ boot.released \in BOOLEAN BY <1>1 DEF BootRegs
    <2>2. enabled \in BOOLEAN
      <3>1. CASE w.reg = "BOOT_CTRL" BY <3>1
      <3>2. CASE w.reg # "BOOT_CTRL" BY <2>1, <3>2
      <3>3. QED BY <3>1, <3>2
    <2>3. released \in BOOLEAN OBVIOUS
    <2>4. QED BY <2>2, <2>3
  <1>4. Holds(w) => (boot.enable => enabled) /\ released = boot.released
    BY <1>1 DEF Holds, BootRegs
  <1>5. Clocked(w) = [boot EXCEPT !.sdStart = FALSE, !.logValid = FALSE, !.done = FALSE,
                        !.error = FALSE, !.enable = enabled, !.released = released,
                        !.lba = lba, !.length = length]
    BY DEF Clocked
  <1> HIDE DEF enabled, released, lba, length
  <1>6. Clocked(w) \in BootRegs BY <1>1, <1>2, <1>3, <1>5 DEF BootRegs
  <1>7. /\ Clocked(w).state = boot.state /\ Clocked(w).idx = boot.idx
        /\ Clocked(w).loaded = boot.loaded /\ ~Clocked(w).sdStart
        /\ Clocked(w).enable = enabled /\ Clocked(w).released = released
    BY <1>1, <1>5 DEF BootRegs
  <1>8. QED BY <1>4, <1>6, <1>7

(* Where a cycle of the bootloader leads, and what it does to the registers *)
(* the handshake with the host is about.                                    *)
Loads(host, byte) ==
  /\ boot.state = "LOAD" /\ ~boot'.sdStart
  /\ boot'.state = IF host.error THEN "LOG_ERROR" ELSE IF host.done THEN "LOG_RUN" ELSE "LOAD"
  /\ boot'.loaded = IF byte.valid THEN (byte.offset + 1) % CountSpace ELSE boot.loaded
Asks ==
  boot.state = "START_SD" /\ boot'.state = "LOAD" /\ boot'.sdStart
Runs ==
  /\ boot.state \in {"LOG_RUN", "RELEASE"} /\ boot'.state \in {"LOG_RUN", "RELEASE"}
  /\ ~boot'.sdStart /\ boot'.loaded = boot.loaded
Elsewhere ==
  /\ boot.state # "LOAD" /\ boot'.state \notin {"LOAD", "LOG_RUN", "RELEASE"} /\ ~boot'.sdStart
Kind(host, byte) == Loads(host, byte) \/ Asks \/ Runs \/ Elsewhere
HoldKept ==
  boot.enable /\ (boot.released => boot.state = "RELEASE")
LEMMA LogShape ==
  ASSUME BootOK, NEW w \in AnyWrite, NEW msg \in {"BOOT", "RUN", "ERR"}, NEW ready \in BOOLEAN,
         NEW next \in BootRegs, next.idx = boot.idx, ~next.sdStart, next.loaded = boot.loaded,
         boot.idx <= Messages[msg], Log(w, msg, ready, next)
  PROVE  /\ boot' \in BootRegs /\ ~boot'.sdStart /\ boot'.loaded = boot.loaded
         /\ \/ /\ boot'.state = boot.state /\ boot'.idx <= Messages[msg]
               /\ boot'.released = Clocked(w).released /\ boot'.enable = Clocked(w).enable
            \/ /\ boot'.state = next.state /\ boot'.idx = 0
               /\ boot'.released = next.released /\ boot'.enable = next.enable
  <1> DEFINE c == Clocked(w)
  <1>1. c \in BootRegs /\ c.state = boot.state /\ c.idx = boot.idx /\ ~c.sdStart /\ c.loaded = boot.loaded
    BY BootClockedOK
  <1>2. Messages[msg] \in 0..4 /\ boot.idx \in 0..4 BY DEF Messages, BootOK, BootRegs
  <1>3. CASE ~ready
    <2>1. boot' = c BY <1>3 DEF Log
    <2>2. QED BY <1>1, <2>1
  <1>4. CASE ready /\ boot.idx = Messages[msg]
    <2> DEFINE sent == [next EXCEPT !.logValid = TRUE, !.log = [msg |-> msg, idx |-> boot.idx]]
    <2>1. boot' = [sent EXCEPT !.idx = IF @ = Messages[msg] THEN 0 ELSE @ + 1] BY <1>4 DEF Log
    <2>2. /\ sent \in BootRegs /\ sent.idx = boot.idx /\ sent.state = next.state /\ ~sent.sdStart
          /\ sent.loaded = boot.loaded /\ sent.released = next.released /\ sent.enable = next.enable
      BY <1>2 DEF BootRegs
    <2> HIDE DEF sent
    <2>3. boot' = [sent EXCEPT !.idx = 0] BY <1>4, <2>1, <2>2
    <2>4. QED BY <2>2, <2>3 DEF BootRegs
  <1>5. CASE ready /\ boot.idx # Messages[msg]
    <2> DEFINE sent == [c EXCEPT !.logValid = TRUE, !.log = [msg |-> msg, idx |-> boot.idx]]
    <2>1. boot' = [sent EXCEPT !.idx = IF @ = Messages[msg] THEN 0 ELSE @ + 1] BY <1>5 DEF Log
    <2>2. /\ sent \in BootRegs /\ sent.idx = boot.idx /\ sent.state = boot.state /\ ~sent.sdStart
          /\ sent.loaded = boot.loaded /\ sent.released = c.released /\ sent.enable = c.enable
      BY <1>1, <1>2 DEF BootRegs
    <2> HIDE DEF sent
    <2>3. boot' = [sent EXCEPT !.idx = boot.idx + 1] BY <1>5, <2>1, <2>2
    <2>4. boot.idx + 1 \in 0..4 /\ boot.idx + 1 <= Messages[msg] BY <1>2, <1>5
    <2>5. QED BY <2>2, <2>3, <2>4 DEF BootRegs
  <1>6. QED BY <1>3, <1>4, <1>5

LEMMA LoaderStep ==
  ASSUME BootOK, NEW w \in AnyWrite, NEW ready \in BOOLEAN, NEW hostBusy \in BOOLEAN,
         NEW host, NEW byte, byte.offset \in Count,
         BootStep(w, ready, hostBusy, host, byte)
  PROVE  BootOK' /\ Kind(host, byte) /\ (Holds(w) /\ HoldKept => HoldKept')
  <1> DEFINE c == Clocked(w)
  <1>1. /\ c \in BootRegs /\ c.state = boot.state /\ c.idx = boot.idx
        /\ c.loaded = boot.loaded /\ ~c.sdStart
        /\ Holds(w) => (boot.enable => c.enable) /\ c.released = boot.released
    BY BootClockedOK
  <1>2. /\ boot \in BootRegs /\ 0 \in Count /\ boot.idx \in 0..4 /\ boot.loaded \in Count
        /\ boot.state # "LOG_BOOT" => boot.idx <= 3
    BY CountFacts DEF BootOK, BootRegs
  <1>3. Messages["BOOT"] = 4 /\ Messages["RUN"] = 3 /\ Messages["ERR"] = 3 BY DEF Messages
  <1> HIDE DEF c
  <1>4. CASE BootReset(w)
    <2>1. /\ boot.state = "RESET"
          /\ boot' = [c EXCEPT !.released = ~boot.enable, !.loaded = 0, !.idx = 0,
                       !.state = IF boot.enable \/ Start(w) THEN "LOG_BOOT" ELSE @]
      BY <1>4 DEF BootReset, c
    <2> DEFINE held == ~boot.enable
               next == IF boot.enable \/ Start(w) THEN "LOG_BOOT" ELSE c.state
    <2>2. held \in BOOLEAN /\ next \in {"RESET", "LOG_BOOT"} BY <1>1, <2>1
    <2>3. boot' = [c EXCEPT !.released = held, !.loaded = 0, !.idx = 0, !.state = next]
      BY <2>1
    <2>4. boot.enable => ~held OBVIOUS
    <2> HIDE DEF held, next
    <2>5. boot' \in BootRegs
      <3>1. next \in BootStates BY <2>2 DEF BootStates
      <3>2. [c EXCEPT !.released = held, !.loaded = 0] \in BootRegs
        BY <1>1, <1>2, <2>2 DEF BootRegs
      <3>3. boot' = [[c EXCEPT !.released = held, !.loaded = 0] EXCEPT !.idx = 0, !.state = next]
        BY <1>1, <2>3 DEF BootRegs
      <3>4. QED BY <3>1, <3>2, <3>3, Enters
    <2>6. /\ boot'.idx = 0 /\ boot'.state \in {"RESET", "LOG_BOOT"} /\ ~boot'.sdStart
          /\ boot'.enable = c.enable /\ boot'.released = held
      BY <1>1, <2>2, <2>3 DEF BootRegs
    <2>7. BootOK' BY <2>5, <2>6 DEF BootOK
    <2>8. Elsewhere BY <2>1, <2>6 DEF Elsewhere
    <2>9. Holds(w) /\ HoldKept => HoldKept' BY <1>1, <2>4, <2>6 DEF HoldKept
    <2>10. QED BY <2>7, <2>8, <2>9 DEF Kind
  <1>5. CASE BootLogBoot(w, ready)
    <2> DEFINE n == [c EXCEPT !.state = "START_SD"]
    <2>1. boot.state = "LOG_BOOT" /\ Log(w, "BOOT", ready, n) BY <1>5 DEF BootLogBoot, c
    <2>2. /\ n \in BootRegs /\ n.idx = boot.idx /\ ~n.sdStart /\ n.loaded = boot.loaded
          /\ n.state = "START_SD" /\ n.released = c.released /\ n.enable = c.enable
      BY <1>1 DEF BootRegs, BootStates
    <2> HIDE DEF n
    <2>3. /\ boot' \in BootRegs /\ ~boot'.sdStart
          /\ boot'.released = c.released /\ boot'.enable = c.enable
          /\ boot'.state = "LOG_BOOT" \/ (boot'.state = "START_SD" /\ boot'.idx = 0)
      BY <1>2, <1>3, <2>1, <2>2, LogShape DEF c
    <2>4. QED BY <1>1, <2>1, <2>3 DEF BootOK, Kind, Elsewhere, HoldKept
  <1>6. CASE BootStartSd(w, hostBusy)
    <2>1. /\ boot.state = "START_SD"
          /\ boot' = IF hostBusy THEN c ELSE [c EXCEPT !.sdStart = TRUE, !.state = "LOAD"]
      BY <1>6 DEF BootStartSd, c
    <2>2. /\ boot' \in BootRegs /\ boot'.idx = boot.idx
          /\ boot'.released = c.released /\ boot'.enable = c.enable
          /\ \/ boot'.state = "START_SD" /\ ~boot'.sdStart
             \/ boot'.state = "LOAD" /\ boot'.sdStart
      BY <1>1, <2>1 DEF BootRegs, BootStates
    <2>3. QED BY <1>1, <1>2, <2>1, <2>2 DEF BootOK, Kind, Elsewhere, Asks, HoldKept
  <1>7. CASE BootLoad(w, host, byte)
    <2> DEFINE l == IF byte.valid THEN (byte.offset + 1) % CountSpace ELSE boot.loaded
               taken == [c EXCEPT !.loaded = l]
    <2>1. /\ boot.state = "LOAD"
          /\ boot' = IF host.error THEN [taken EXCEPT !.idx = 0, !.state = "LOG_ERROR"]
                     ELSE IF host.done THEN [taken EXCEPT !.idx = 0, !.state = "LOG_RUN"]
                     ELSE taken
      BY <1>1, <1>7 DEF BootLoad, Taken, c
    <2>2. l \in Count BY <1>2, CountFacts
    <2> HIDE DEF l
    <2>3. /\ taken \in BootRegs /\ taken.loaded = l /\ taken.idx = boot.idx /\ ~taken.sdStart
          /\ taken.state = "LOAD" /\ taken.enable = c.enable /\ taken.released = c.released
      BY <1>1, <2>1, <2>2 DEF BootRegs
    <2> HIDE DEF taken
    <2>4. /\ boot' \in BootRegs /\ boot'.idx <= 3 /\ ~boot'.sdStart /\ boot'.loaded = l
          /\ boot'.enable = c.enable /\ boot'.released = c.released
          /\ boot'.state = IF host.error THEN "LOG_ERROR" ELSE IF host.done THEN "LOG_RUN" ELSE "LOAD"
      <3>0. "LOG_ERROR" \in BootStates /\ "LOG_RUN" \in BootStates BY DEF BootStates
      <3>1. CASE host.error
        <4>1. boot' = [taken EXCEPT !.idx = 0, !.state = "LOG_ERROR"] BY <2>1, <3>1
        <4>2. /\ boot' \in BootRegs /\ boot'.idx = 0 /\ boot'.state = "LOG_ERROR"
              /\ boot'.sdStart = taken.sdStart /\ boot'.loaded = taken.loaded
              /\ boot'.enable = taken.enable /\ boot'.released = taken.released
          BY <2>3, <3>0, <4>1, Enters
        <4>3. boot'.idx <= 3 BY <4>2
        <4>4. boot'.state = IF host.error THEN "LOG_ERROR" ELSE IF host.done THEN "LOG_RUN" ELSE "LOAD"
          BY <3>1, <4>2
        <4>5. QED BY <2>3, <4>2, <4>3, <4>4
      <3>2. CASE ~host.error /\ host.done
        <4>1. boot' = [taken EXCEPT !.idx = 0, !.state = "LOG_RUN"] BY <2>1, <3>2
        <4>2. /\ boot' \in BootRegs /\ boot'.idx = 0 /\ boot'.state = "LOG_RUN"
              /\ boot'.sdStart = taken.sdStart /\ boot'.loaded = taken.loaded
              /\ boot'.enable = taken.enable /\ boot'.released = taken.released
          BY <2>3, <3>0, <4>1, Enters
        <4>3. boot'.idx <= 3 BY <4>2
        <4>4. boot'.state = IF host.error THEN "LOG_ERROR" ELSE IF host.done THEN "LOG_RUN" ELSE "LOAD"
          BY <3>2, <4>2
        <4>5. QED BY <2>3, <4>2, <4>3, <4>4
      <3>3. CASE ~host.error /\ ~host.done
        <4>1. boot' = taken BY <2>1, <3>3
        <4>2. taken.idx <= 3 BY <1>2, <2>1, <2>3
        <4>3. QED BY <2>3, <3>3, <4>1, <4>2
      <3>4. QED BY <3>1, <3>2, <3>3
    <2>5. QED BY <1>1, <2>1, <2>4 DEF BootOK, Kind, Loads, HoldKept, l
  <1>8. CASE BootLogRun(w, ready)
    <2> DEFINE n == [c EXCEPT !.released = TRUE, !.done = TRUE, !.state = "RELEASE"]
    <2>1. boot.state = "LOG_RUN" /\ Log(w, "RUN", ready, n) BY <1>8 DEF BootLogRun, c
    <2>2. /\ n \in BootRegs /\ n.idx = boot.idx /\ ~n.sdStart /\ n.loaded = boot.loaded
          /\ n.state = "RELEASE" /\ n.enable = c.enable
      BY <1>1 DEF BootRegs, BootStates
    <2> HIDE DEF n
    <2>3. /\ boot' \in BootRegs /\ ~boot'.sdStart /\ boot'.loaded = boot.loaded
          /\ boot'.enable = c.enable
          /\ \/ boot'.state = "LOG_RUN" /\ boot'.idx <= 3 /\ boot'.released = c.released
             \/ boot'.state = "RELEASE" /\ boot'.idx = 0
      BY <1>2, <1>3, <2>1, <2>2, LogShape DEF c
    <2>4. QED BY <1>1, <2>1, <2>3 DEF BootOK, Kind, Runs, HoldKept
  <1>9. CASE BootRelease(w)
    <2>1. /\ boot.state = "RELEASE"
          /\ boot' = IF Start(w)
                     THEN [c EXCEPT !.released = FALSE, !.loaded = 0, !.state = "LOG_BOOT"]
                     ELSE [c EXCEPT !.released = TRUE]
      BY <1>9 DEF BootRelease, c
    <2>2. /\ boot' \in BootRegs /\ ~boot'.sdStart /\ boot'.idx = boot.idx /\ boot'.enable = c.enable
          /\ \/ boot'.state = "LOG_BOOT" /\ ~boot'.released
             \/ boot'.state = "RELEASE" /\ boot'.loaded = boot.loaded
      BY <1>1, <1>2, <2>1 DEF BootRegs, BootStates
    <2>3. QED BY <1>1, <1>2, <2>1, <2>2 DEF BootOK, Kind, Runs, Elsewhere, HoldKept
  <1>10. CASE BootLogError(w, ready)
    <2> DEFINE n == [c EXCEPT !.error = TRUE, !.state = "RESET"]
    <2>1. boot.state = "LOG_ERROR" /\ Log(w, "ERR", ready, n) BY <1>10 DEF BootLogError, c
    <2>2. /\ n \in BootRegs /\ n.idx = boot.idx /\ ~n.sdStart /\ n.loaded = boot.loaded
          /\ n.state = "RESET" /\ n.enable = c.enable /\ n.released = c.released
      BY <1>1 DEF BootRegs, BootStates
    <2> HIDE DEF n
    <2>3. /\ boot' \in BootRegs /\ ~boot'.sdStart
          /\ boot'.released = c.released /\ boot'.enable = c.enable
          /\ \/ boot'.state = "LOG_ERROR" /\ boot'.idx <= 3
             \/ boot'.state = "RESET" /\ boot'.idx = 0
      BY <1>2, <1>3, <2>1, <2>2, LogShape DEF c
    <2>4. QED BY <1>1, <2>1, <2>3 DEF BootOK, Kind, Elsewhere, HoldKept
  <1>11. QED BY <1>4, <1>5, <1>6, <1>7, <1>8, <1>9, <1>10 DEF BootStep

-----------------------------------------------------------------------------
(* The composition. *)
Final(length) == (length + CountSpace - 1) % CountSpace
Byte(k)   == [lba |-> asked.lba, offset |-> k]
Stored(n) ==
  asked.length <= RomSize => \A k \in 0..(asked.length - 1) : k < n => rom[k] = Byte(k)
AllStored == boot.loaded = asked.length /\ Stored(asked.length)

HostRests == sd.state = "IDLE" /\ ~sd.done /\ ~sd.error
(* The transfer of the request under way.                                   *)
Transfer ==
  /\ sd.lba = asked.lba /\ sd.length = asked.length
  /\ sd.state = "IDLE" => (sd.done \/ sd.error) /\ (sd.done /\ ~sd.error => AllStored)
  /\ sd.state # "IDLE" => ~sd.done /\ ~sd.error
  /\ sd.state \in {"CMD", "WAIT_TOKEN"} => sd.count = 0
  /\ sd.state = "DATA" => sd.count <= Final(sd.length)
  /\ sd.state = "DATA" /\ ~stream.valid => Stored(sd.count)
  /\ sd.state = "DATA" /\ stream.valid =>
       sd.count = stream.offset + 1 /\ stream.lba = sd.lba /\ Stored(stream.offset)
  /\ sd.state = "CRC0" /\ stream.valid =>
       stream.offset = Final(sd.length) /\ stream.lba = sd.lba /\ Stored(stream.offset)
  /\ sd.state \in {"CRC0", "CRC1", "DONE"} /\ ~stream.valid => AllStored

Handshake ==
  /\ boot.state # "LOAD" => HostRests /\ ~boot.sdStart
  /\ boot.state = "LOAD" /\ boot.sdStart => HostRests
  /\ boot.state = "LOAD" /\ ~boot.sdStart => Transfer
  /\ boot.state \in {"LOG_RUN", "RELEASE"} => AllStored

Types == TypeOK /\ SdOK /\ BootOK

LEMMA BootInitial == Init => Types /\ Handshake
  <1> SUFFICES ASSUME Init PROVE Types /\ Handshake OBVIOUS
  <1>1. /\ CountSpace \in Nat /\ 0 \in Count /\ ResetLba \in Lbas /\ DefaultLength \in Count
        /\ 0 \in 0..Timeout /\ 0 < CmdBits /\ 0 < ByteBits
    BY SdAssumption, CountFacts
  <1>2. SdOK BY <1>1 DEF Init, SdCleared, NoByte, SdOK, SdTypeOK
  <1>3. BootOK
    <2>1. NoLog \in [msg : {"BOOT", "RUN", "ERR"}, idx : 0..4] BY DEF NoLog
    <2>2. QED BY <1>1, <2>1 DEF Init, BootCleared, BootOK, BootRegs, BootStates
  <1>4. TypeOK
    <2>1. SdTypeOK /\ BootTypeOK BY <1>2, <1>3, BootTyped DEF SdOK
    <2>2. uart \in 0..FrameCycles /\ drain \in 0..LoaderDepth /\ events \in 0..MaxEvents
      BY BootPathAssumption DEF Init
    <2>3. Nothing \in [lba : Lbas, offset : 0..CountSpace] BY <1>1 DEF Nothing
    <2>4. rom \in [0..(RomSize - 1) -> [lba : Lbas, offset : 0..CountSpace]]
      BY <2>3 DEF Init
    <2>5. asked \in [lba : Lbas, length : Count] /\ alone \in BOOLEAN BY <1>1 DEF Init
    <2>6. QED BY <2>1, <2>2, <2>4, <2>5 DEF TypeOK
  <1>5. Handshake BY DEF Init, SdCleared, BootCleared, Handshake, HostRests
  <1>6. QED BY <1>2, <1>3, <1>4, <1>5 DEF Types

(* A clock cycle, with the write of software if any.                        *)
LEMMA TickShape ==
  ASSUME Tick
  PROVE  \E w \in AnyWrite, token \in BOOLEAN :
           /\ Cycle(w, token)
           /\ alone' => alone /\ (w \in Owned \/ w = None)
           /\ alone' \in BOOLEAN \/ alone' = alone
           /\ events' = events \/ (Counted /\ events' = events + 1)
  <1>1. PICK token \in BOOLEAN : Idle(token) \/ Access(token) BY DEF Tick
  <1>2. CASE Idle(token) BY <1>2 DEF Idle, AnyWrite
  <1>3. CASE Access(token) BY <1>3 DEF Access, AnyWrite, Counted
  <1>4. QED BY <1>1, <1>2, <1>3

LEMMA CycleTypes ==
  ASSUME Types, NEW w \in AnyWrite, NEW token \in BOOLEAN, Cycle(w, token)
  PROVE  /\ SdOK' /\ BootOK' /\ Kind(sd, stream)
         /\ w.reg \notin SdPage => Moves(Request)
         /\ Holds(w) /\ HoldKept => HoldKept'
  <1>1. /\ Request.lba \in Lbas /\ Request.length \in Count
        /\ stream.offset \in Count
    BY DEF Types, BootOK, BootRegs, Request, SdOK, SdTypeOK
  <1>2. Busy \in BOOLEAN /\ UartReady \in BOOLEAN BY DEF Busy, UartReady
  <1>3. SdOK' /\ (w.reg \notin SdPage => Moves(Request))
    BY <1>1, HostStep DEF Types, Cycle
  <1>4. BootOK' /\ Kind(sd, stream) /\ (Holds(w) /\ HoldKept => HoldKept')
    BY <1>1, <1>2, LoaderStep DEF Types, Cycle
  <1>5. QED BY <1>3, <1>4

LEMMA TypesStep == Types /\ [Next]_vars => Types'
  <1> SUFFICES ASSUME Types, [Next]_vars PROVE Types' OBVIOUS
  <1>0. /\ TypeOK /\ RomSize \in Nat \ {0} /\ LoaderDepth \in Nat /\ FrameCycles \in Nat
        /\ MaxEvents \in Nat /\ MaxForeign \in 0..MaxEvents
    BY BootPathAssumption DEF Types
  <1>1. CASE Tick
    <2>1. PICK w \in AnyWrite, token \in BOOLEAN :
            /\ Cycle(w, token)
            /\ alone' \in BOOLEAN \/ alone' = alone
            /\ events' = events \/ (Counted /\ events' = events + 1)
      BY <1>1, TickShape
    <2>2. SdOK' /\ BootOK' BY <2>1, CycleTypes
    <2>3. SdTypeOK' /\ BootTypeOK'
      <3>1. BootOK' => BootTypeOK' BY BootTyped, PTL
      <3>2. QED BY <2>2, <3>1 DEF SdOK
    <2>4. uart' \in 0..FrameCycles BY <1>0, <2>1 DEF Cycle, Uart, TypeOK
    <2>5. drain' \in 0..LoaderDepth BY <1>0, <2>1 DEF Cycle, RomPort, TypeOK
    <2>6. rom' \in [0..(RomSize - 1) -> [lba : Lbas, offset : 0..CountSpace]]
      <3>1. stream.lba \in Lbas /\ stream.offset \in Count BY DEF Types, SdOK, SdTypeOK
      <3>2. stream.offset \in 0..CountSpace BY <3>1, SdAssumption DEF Count
      <3>3. [lba |-> stream.lba, offset |-> stream.offset] \in [lba : Lbas, offset : 0..CountSpace]
        BY <3>1, <3>2
      <3>4. rom \in [0..(RomSize - 1) -> [lba : Lbas, offset : 0..CountSpace]] BY <1>0 DEF TypeOK
      <3>5. rom' = IF RomValid
                   THEN [rom EXCEPT ![stream.offset % RomSize] =
                           [lba |-> stream.lba, offset |-> stream.offset]]
                   ELSE rom
        BY <2>1 DEF Cycle, RomPort
      <3>6. QED BY <3>3, <3>4, <3>5
    <2>7. asked' \in [lba : Lbas, length : Count]
      BY <2>1 DEF Cycle, Ask, TypeOK, Types, BootOK, BootRegs
    <2>8. alone' \in BOOLEAN BY <1>0, <2>1 DEF TypeOK
    <2>9. events' \in 0..MaxEvents BY <1>0, <2>1 DEF TypeOK, Counted
    <2>10. QED BY <2>2, <2>3, <2>4, <2>5, <2>6, <2>7, <2>8, <2>9 DEF Types, TypeOK
  <1>2. CASE Reset
    <2>1. SdOK' /\ BootOK'
      <3>1. /\ CountSpace \in Nat /\ 0 \in Count /\ ResetLba \in Lbas /\ DefaultLength \in Count
            /\ 0 \in 0..Timeout /\ 0 < CmdBits /\ 0 < ByteBits
        BY SdAssumption, CountFacts
      <3>2. SdOK' BY <1>2, <3>1 DEF Reset, SdCleared, NoByte, SdOK, SdTypeOK
      <3>3. NoLog \in [msg : {"BOOT", "RUN", "ERR"}, idx : 0..4] BY DEF NoLog
      <3>4. BootOK' BY <1>2, <3>1, <3>3 DEF Reset, BootCleared, BootOK, BootRegs, BootStates
      <3>5. QED BY <3>2, <3>4
    <2>2. SdTypeOK' /\ BootTypeOK'
      <3>1. BootOK' => BootTypeOK' BY BootTyped, PTL
      <3>2. QED BY <2>1, <3>1 DEF SdOK
    <2>3. /\ uart' \in 0..FrameCycles /\ drain' \in 0..LoaderDepth /\ events' \in 0..MaxEvents
      BY <1>0, <1>2 DEF Reset, TypeOK, Counted
    <2>4. QED BY <1>0, <1>2, <2>1, <2>2, <2>3 DEF Reset, Types, TypeOK
  <1>3. CASE UNCHANGED vars
    <2>1. (sd' = sd /\ stream' = stream) => (SdOK' <=> SdOK) /\ (SdTypeOK' <=> SdTypeOK)
      BY DEF SdOK, SdTypeOK
    <2>2. boot' = boot => (BootOK' <=> BootOK) /\ (BootTypeOK' <=> BootTypeOK)
      BY DEF BootOK, BootTypeOK
    <2>3. QED BY <1>3, <2>1, <2>2 DEF vars, Types, TypeOK
  <1>4. QED BY <1>1, <1>2, <1>3 DEF Next

(* Every register of the boot path keeps a value of its width.              *)
THEOREM BootTypeCorrect == Spec => []TypeOK
  <1>1. Types => TypeOK BY DEF Types
  <1>2. Init => Types BY BootInitial
  <1>3. QED BY <1>1, <1>2, TypesStep, PTL DEF Spec

-----------------------------------------------------------------------------
(* The handshake, while software leaves the SD page alone.                  *)
LEMMA SmallMod == ASSUME NEW m \in Nat \ {0}, NEW a \in Nat, a < m PROVE a % m = a
  OBVIOUS

LEMMA FinalFacts ==
  ASSUME NEW n \in Count
  PROVE  /\ Final(n) \in Count /\ (Final(n) + 1) % CountSpace = n
         /\ n <= Final(n) + 1 /\ (n > 0 => Final(n) < n)
  <1>1. n \in Nat /\ n < CountSpace /\ CountSpace \in Nat BY SdAssumption DEF Count
  <1>2. CASE n = 0 BY <1>1, <1>2, CountFacts DEF Final
  <1>3. CASE n > 0
    <2>1. Final(n) = n - 1 BY <1>3, CountFacts DEF Final
    <2>2. (Final(n) + 1) % CountSpace = n BY CountFacts DEF Final
    <2>3. Final(n) \in Count BY CountFacts DEF Final
    <2>4. QED BY <1>1, <1>3, <2>1, <2>2, <2>3
  <1>4. QED BY <1>1, <1>2, <1>3

(* What a cycle of a load stores. *)
LEMMA StoreStep ==
  ASSUME Types, boot.state = "LOAD", RomPort, asked' = asked, NEW n \in Nat, Stored(n),
         stream.valid => n = stream.offset /\ stream.lba = asked.lba /\ n <= Final(asked.length)
  PROVE  /\ ~stream.valid => Stored(n)'
         /\ stream.valid => Stored(n + 1)'
  <1>1. /\ rom \in [0..(RomSize - 1) -> [lba : Lbas, offset : 0..CountSpace]]
        /\ RomSize \in Nat \ {0} /\ asked.length \in Count /\ asked.length \in Nat
        /\ stream.valid \in BOOLEAN
    BY BootPathAssumption, SdAssumption DEF Types, TypeOK, SdOK, SdTypeOK, Count
  <1>2. CASE ~stream.valid
    <2>1. rom' = rom BY <1>2 DEF RomPort, RomValid
    <2>2. Stored(n)' BY <2>1 DEF Stored, Byte
    <2>3. QED BY <1>2, <2>2
  <1>3. CASE stream.valid
    <2>1. rom' = [rom EXCEPT ![n % RomSize] = Byte(n)] BY <1>3 DEF RomPort, RomValid, Byte
    <2>2. SUFFICES ASSUME asked.length <= RomSize, NEW k \in 0..(asked.length - 1),
                          k < n + 1
                   PROVE  rom'[k] = Byte(k)
      BY <1>3 DEF Stored, Byte
    <2>3. asked.length > 0 /\ n < RomSize /\ n \in Nat
      <3>1. asked.length > 0 BY <1>1, <2>2
      <3>2. n < asked.length BY <1>1, <1>3, <3>1, FinalFacts DEF Count
      <3>3. QED BY <1>1, <2>2, <3>1, <3>2
    <2>4. n % RomSize = n BY <1>1, <2>3, SmallMod
    <2>5. CASE k = n BY <1>1, <2>1, <2>3, <2>4, <2>5
    <2>6. CASE k # n
      <3>1. k < n BY <1>1, <2>2, <2>6
      <3>2. rom[k] = Byte(k) BY <2>2, <3>1 DEF Stored
      <3>3. QED BY <1>1, <2>1, <2>2, <2>4, <2>6, <3>2
    <2>7. QED BY <2>5, <2>6
  <1>4. QED BY <1>1, <1>2, <1>3

(* A cycle of the transfer. *)
LEMMA TransferStep ==
  ASSUME Types, Types', Transfer, boot.state = "LOAD", sd.state # "IDLE",
         Moves(Request), Loads(sd, stream), RomPort, asked' = asked
  PROVE  Transfer'
  <1> DEFINE len == asked.length
  <1>1. /\ len \in Count /\ len \in Nat /\ CountSpace \in Nat /\ stream.valid \in BOOLEAN
        /\ stream.offset \in Nat /\ stream.offset \in Count
        /\ sd.count \in Nat /\ sd.count \in Count /\ sd.length = len /\ sd.lba = asked.lba
        /\ Final(len) \in Count /\ Final(len) \in Nat /\ Final(len) <= CountSpace - 1
    <2>1. /\ len \in Count /\ stream.valid \in BOOLEAN /\ stream.offset \in Count
          /\ sd.count \in Count
      BY DEF Types, TypeOK, SdOK, SdTypeOK
    <2>2. sd.length = len /\ sd.lba = asked.lba BY DEF Transfer
    <2>3. Final(len) \in Count BY <2>1, FinalFacts
    <2>4. CountSpace \in Nat /\ \A n \in Count : n \in Nat /\ n <= CountSpace - 1
      BY SdAssumption DEF Count
    <2>5. QED BY <2>1, <2>2, <2>3, <2>4
  <1>2. asked'.length = len /\ asked'.lba = asked.lba OBVIOUS
  <1>3. boot'.loaded = IF stream.valid THEN (stream.offset + 1) % CountSpace ELSE boot.loaded
    BY DEF Loads
  <1>4. ASSUME NEW n \in Nat, Stored(n), ~stream.valid PROVE Stored(n)'
    BY <1>4, StoreStep
  <1>5. ASSUME NEW n \in Nat, Stored(n), stream.valid, n = stream.offset,
               stream.lba = asked.lba, n <= Final(len)
        PROVE  Stored(n + 1)'
    BY <1>5, StoreStep
  <1>6. ASSUME AllStored, ~stream.valid PROVE AllStored'
    <2>1. Stored(len)' BY <1>1, <1>4, <1>6 DEF AllStored
    <2>2. QED BY <1>2, <1>3, <1>6, <2>1 DEF AllStored
  <1>7. CASE Rests(Request) \/ Begins(Request) BY <1>7 DEF Rests, Begins
  <1>8. CASE Waits
    <2>1. ~stream'.valid /\ sd'.count = 0 /\ 0 <= Final(len) /\ Kept /\ NoPulse
          /\ sd'.state \in {"CMD", "WAIT_TOKEN", "DATA", "ERROR"}
      BY <1>1, <1>8 DEF Waits, Transfer
    <2>2. Stored(sd.count)' BY <2>1 DEF Stored, Types, TypeOK, Count
    <2>3. QED BY <1>1, <1>2, <2>1, <2>2 DEF Transfer, Kept, NoPulse, Final
  <1>9. ASSUME sd.state = "DATA" PROVE \E n \in Nat : n = sd.count /\ Stored(n)'
    <2>1. CASE stream.valid
      <3>1. /\ sd.count = stream.offset + 1 /\ stream.lba = asked.lba /\ Stored(stream.offset)
            /\ stream.offset <= Final(len)
        BY <1>1, <1>9, <2>1 DEF Transfer
      <3>2. PICK n \in Nat : n = stream.offset BY <1>1
      <3>3. Stored(n + 1)' BY <1>5, <2>1, <3>1, <3>2
      <3>4. n + 1 = sd.count BY <3>1, <3>2
      <3>5. QED BY <3>3, <3>4
    <2>2. CASE ~stream.valid
      <3>1. PICK n \in Nat : n = sd.count BY <1>1
      <3>2. Stored(n) BY <1>9, <2>2, <3>1 DEF Transfer
      <3>3. QED BY <1>4, <2>2, <3>1, <3>2
    <2>3. QED BY <1>1, <2>1, <2>2
  <1>10. CASE Between
    <2>1. ~stream'.valid /\ sd'.state = "DATA" /\ sd'.count = sd.count /\ Kept /\ NoPulse
          /\ sd.state = "DATA"
      BY <1>10 DEF Between
    <2>2. Stored(sd.count)'
      <3>1. PICK n \in Nat : n = sd.count /\ Stored(n)' BY <1>9, <2>1
      <3>2. n = sd'.count BY <2>1, <3>1
      <3>3. QED BY <3>1, <3>2
    <2>3. sd'.count <= Final(len) BY <1>1, <2>1 DEF Transfer
    <2>4. QED BY <1>1, <1>2, <2>1, <2>2, <2>3 DEF Transfer, Kept, NoPulse, Final
  <1>11. CASE Sends
    <2>1. /\ sd.state = "DATA" /\ Kept /\ NoPulse /\ stream'.valid
          /\ stream'.offset = sd.count /\ stream'.lba = sd.lba
          /\ sd'.count = (sd.count + 1) % CountSpace
          /\ sd'.state = IF LastByte THEN "CRC0" ELSE "DATA"
          /\ sd.count <= Final(len)
      BY <1>1, <1>11 DEF Sends, Transfer
    <2>2. Stored(stream.offset)'
      <3>1. PICK n \in Nat : n = sd.count /\ Stored(n)' BY <1>9, <2>1
      <3>2. n = stream'.offset BY <2>1, <3>1
      <3>3. QED BY <3>1, <3>2
    <2>3. CASE LastByte
      <3>1. sd.count = Final(len) BY <1>1, <2>3 DEF LastByte, Final
      <3>2. QED BY <1>1, <1>2, <2>1, <2>2, <2>3, <3>1 DEF Transfer, Kept, NoPulse, Final
    <2>4. CASE ~LastByte
      <3>1. sd.count # Final(len) BY <1>1, <2>4 DEF LastByte, Final
      <3>2. sd.count + 1 <= Final(len) /\ sd.count # CountSpace - 1 BY <1>1, <2>1, <3>1
      <3>3. sd'.count = sd.count + 1 BY <1>1, <2>1, <3>2, CountFacts
      <3>4. QED BY <1>1, <1>2, <2>1, <2>2, <2>4, <3>2, <3>3 DEF Transfer, Kept, NoPulse, Final
    <2>5. QED BY <2>3, <2>4
  <1>12. CASE Checks
    <2>1. /\ sd.state \in {"CRC0", "CRC1"} /\ Kept /\ NoPulse /\ ~stream'.valid
          /\ sd'.state \in {"CRC0", "CRC1", "DONE"}
      BY <1>12 DEF Checks
    <2>2. AllStored'
      <3>1. CASE ~stream.valid
        <4>1. AllStored BY <2>1, <3>1 DEF Transfer
        <4>2. QED BY <1>6, <3>1, <4>1
      <3>2. CASE stream.valid
        <4>1. sd.state = "CRC0" BY <2>1, <3>2 DEF Types, SdOK
        <4>2. stream.offset = Final(len) /\ stream.lba = asked.lba /\ Stored(stream.offset)
          BY <1>1, <3>2, <4>1 DEF Transfer
        <4>3. PICK n \in Nat : n = stream.offset BY <1>1
        <4>4. Stored(n + 1)' BY <1>1, <1>5, <3>2, <4>2, <4>3
        <4>5. len <= n + 1 /\ (n + 1) % CountSpace = len BY <1>1, <4>2, <4>3, FinalFacts
        <4>6. Stored(len)' BY <1>1, <4>3, <4>4, <4>5 DEF Stored
        <4>7. boot'.loaded = len BY <1>3, <3>2, <4>3, <4>5
        <4>8. QED BY <1>2, <4>6, <4>7 DEF AllStored
      <3>3. QED BY <1>1, <3>1, <3>2
    <2>3. QED BY <1>1, <1>2, <2>1, <2>2 DEF Transfer, Kept, NoPulse
  <1>13. CASE Ends
    <2>1. /\ sd.state = "DONE" /\ sd'.state = "IDLE" /\ Kept /\ sd'.done /\ ~stream'.valid
          /\ ~stream.valid
      BY <1>13 DEF Ends, Types, SdOK
    <2>2. AllStored' BY <1>6, <2>1 DEF Transfer
    <2>3. QED BY <1>1, <1>2, <2>1, <2>2 DEF Transfer, Kept
  <1>14. CASE Fails
    BY <1>1, <1>2, <1>14 DEF Fails, Transfer, Kept
  <1>15. QED BY <1>7, <1>8, <1>10, <1>11, <1>12, <1>13, <1>14 DEF Moves

LEMMA HandshakeCycle ==
  ASSUME Types, Types', Handshake, NEW w \in AnyWrite, NEW token \in BOOLEAN,
         Cycle(w, token), w.reg \notin SdPage
  PROVE  Handshake'
  <1>1. /\ Moves(Request) /\ Kind(sd, stream) /\ RomPort
        /\ asked' = IF boot.sdStart THEN [lba |-> boot.lba, length |-> boot.length] ELSE asked
    BY CycleTypes DEF Cycle, Ask
  <1>2. boot.sdStart \in BOOLEAN /\ boot.state \in BootStates /\ Request.start = boot.sdStart
    BY DEF Types, BootOK, BootRegs, Request
  <1>3. ASSUME HostRests, ~boot.sdStart PROVE HostRests'
    BY <1>1, <1>2, <1>3 DEF HostRests, Moves, Rests, Begins, Waits, Between, Sends, Checks,
                            Ends, Fails, NoPulse
  <1>4. ASSUME ~stream.valid \/ boot.state # "LOAD", ~boot.sdStart, AllStored,
               boot'.loaded = boot.loaded
        PROVE  AllStored'
    <2>1. rom' = rom /\ asked' = asked BY <1>1, <1>4 DEF RomPort, RomValid
    <2>2. QED BY <1>4, <2>1 DEF AllStored, Stored, Byte
  <1>5. CASE boot.state = "LOAD"
    <2>0. Loads(sd, stream) BY <1>1, <1>5 DEF Kind, Asks, Runs, Elsewhere
    <2>1. CASE boot.sdStart
      <3>1. HostRests BY <1>5, <2>1 DEF Handshake
      <3>2. Begins(Request)
        BY <1>1, <1>2, <2>1, <3>1 DEF HostRests, Moves, Rests, Waits, Between, Sends, Checks,
                                      Ends, Fails
      <3>3. boot'.state = "LOAD" /\ ~boot'.sdStart BY <2>0, <3>1 DEF Loads, HostRests
      <3>4. asked'.lba = boot.lba /\ asked'.length = boot.length BY <1>1, <2>1
      <3>5. Request.lba = boot.lba /\ Request.length = boot.length BY DEF Request
      <3>6. Transfer' BY <3>2, <3>4, <3>5 DEF Begins, NoPulse, Transfer
      <3>7. QED BY <3>3, <3>6 DEF Handshake
    <2>2. CASE ~boot.sdStart
      <3>1. Transfer /\ asked' = asked BY <1>1, <1>5, <2>2 DEF Handshake
      <3>2. CASE sd.state # "IDLE"
        <4>1. Transfer' BY <1>1, <1>5, <2>0, <3>1, <3>2, TransferStep
        <4>2. boot'.state = "LOAD" /\ ~boot'.sdStart BY <2>0, <3>1, <3>2 DEF Loads, Transfer
        <4>3. QED BY <4>1, <4>2 DEF Handshake
      <3>3. CASE sd.state = "IDLE"
        <4>1. /\ (sd.done \/ sd.error) /\ (sd.done /\ ~sd.error => AllStored) /\ ~stream.valid
          BY <3>1, <3>3 DEF Transfer, Types, SdOK
        <4>2. Rests(Request)
          BY <1>1, <1>2, <2>2, <3>3 DEF Moves, Rests, Begins, Waits, Between, Sends, Checks,
                                        Ends, Fails
        <4>3. HostRests' BY <4>2 DEF Rests, HostRests, NoPulse
        <4>4. /\ ~boot'.sdStart /\ boot'.loaded = boot.loaded
              /\ boot'.state = IF sd.error THEN "LOG_ERROR" ELSE IF sd.done THEN "LOG_RUN" ELSE "LOAD"
          BY <2>0, <4>1 DEF Loads
        <4>5. CASE sd.error BY <4>3, <4>4, <4>5 DEF Handshake
        <4>6. CASE ~sd.error
          <5>1. AllStored /\ boot'.state = "LOG_RUN" BY <3>1, <3>3, <4>4, <4>6 DEF Transfer
          <5>2. AllStored' BY <1>4, <2>2, <4>1, <4>4, <5>1
          <5>3. QED BY <4>3, <4>4, <5>1, <5>2 DEF Handshake
        <4>7. QED BY <4>5, <4>6
      <3>4. QED BY <3>2, <3>3
    <2>3. QED BY <2>1, <2>2
  <1>6. CASE boot.state # "LOAD"
    <2>1. HostRests /\ ~boot.sdStart BY <1>6 DEF Handshake
    <2>2. HostRests' BY <1>3, <2>1
    <2>3. CASE Asks BY <2>2, <2>3 DEF Asks, Handshake
    <2>4. CASE Elsewhere BY <2>2, <2>4 DEF Elsewhere, Handshake
    <2>5. CASE Runs
      <3>1. AllStored /\ boot'.loaded = boot.loaded BY <2>5 DEF Runs, Handshake
      <3>2. AllStored' BY <1>4, <1>6, <2>1, <3>1
      <3>3. QED BY <2>2, <2>5, <3>2 DEF Runs, Handshake
    <2>6. QED BY <1>1, <1>6, <2>3, <2>4, <2>5 DEF Kind, Loads
  <1>7. QED BY <1>5, <1>6

LEMMA HandshakeStep ==
  ASSUME SdLeftAlone, Types, Types', alone => Handshake, [Next]_vars
  PROVE  (alone => Handshake)'
  <1> SUFFICES ASSUME alone' PROVE Handshake' OBVIOUS
  <1>1. CASE Tick
    <2>1. PICK w \in AnyWrite, token \in BOOLEAN :
            Cycle(w, token) /\ alone /\ (w \in Owned \/ w = None)
      BY <1>1, TickShape
    <2>2. w.reg \notin SdPage BY <2>1 DEF SdLeftAlone, SdPage, None
    <2>3. QED BY <2>1, <2>2, HandshakeCycle
  <1>2. CASE Reset
    BY <1>2 DEF Reset, SdCleared, BootCleared, Handshake, HostRests
  <1>3. CASE UNCHANGED vars
    BY <1>3 DEF vars, Handshake, HostRests, Transfer, AllStored, Stored, Byte, Final
  <1>4. QED BY <1>1, <1>2, <1>3 DEF Next

(* The bootloader releases the core with the block it asked for completely  *)
(* in memory, whatever the card, the log and restarts do.                   *)
THEOREM ImageIsComplete == ASSUME SdLeftAlone PROVE Spec => []ImageComplete
  <1>1. Init => Types /\ (alone => Handshake) BY BootInitial
  <1>2. Types /\ (alone => Handshake) /\ [Next]_vars => (Types /\ (alone => Handshake))'
    BY TypesStep, HandshakeStep
  <1>3. Types /\ (alone => Handshake) => ImageComplete
    BY DEF Handshake, AllStored, Stored, Byte, ImageComplete, Types, TypeOK, Count
  <1>4. QED BY <1>1, <1>2, <1>3, PTL DEF Spec

(* ... and the count it shows to software is the length of the request.     *)
THEOREM LoadedIsExact == ASSUME SdLeftAlone PROVE Spec => []LoadedIsLength
  <1>1. Init => Types /\ (alone => Handshake) BY BootInitial
  <1>2. Types /\ (alone => Handshake) /\ [Next]_vars => (Types /\ (alone => Handshake))'
    BY TypesStep, HandshakeStep
  <1>3. Types /\ (alone => Handshake) => LoadedIsLength
    BY DEF Handshake, AllStored, LoadedIsLength
  <1>4. QED BY <1>1, <1>2, <1>3, PTL DEF Spec

-----------------------------------------------------------------------------
(* The core waits for the loader: in the CRC bytes the cycles gone since    *)
(* the last byte, 2 * bit plus the phase of the card clock, and those the   *)
(* loader still needs add up to no more than its depth.                     *)
Phase == IF sd.clk THEN 1 ELSE 0
Drained ==
  /\ (boot.state = "LOAD" /\ sd.state \in {"DATA", "CRC0", "CRC1", "DONE"}) \/ drain = 0
  /\ sd.state = "CRC0" /\ stream.valid => sd.bit = 0 /\ ~sd.clk
  /\ sd.state = "CRC0" /\ ~stream.valid =>
       drain = 0 \/ drain + 2 * sd.bit + Phase <= LoaderDepth + 1
  /\ sd.state = "CRC1" =>
       drain = 0 \/ drain + 2 * ByteBits + 2 * sd.bit + Phase <= LoaderDepth + 1
  /\ sd.state = "DONE" => drain = 0 \/ drain + 4 * ByteBits <= LoaderDepth + 1
Held == HoldKept /\ Drained

LEMMA DrainedCycle ==
  ASSUME LoaderIsShort, Types, Types', Handshake, Drained, NEW w \in AnyWrite,
         NEW token \in BOOLEAN, Cycle(w, token), w.reg \notin SdPage
  PROVE  Drained'
  <1>1. /\ Moves(Request) /\ Kind(sd, stream) /\ RomPort BY CycleTypes DEF Cycle
  <1>2. /\ drain \in Nat /\ LoaderDepth \in Nat /\ ByteBits \in Nat \ {0} /\ sd.bit \in Nat
        /\ stream.valid \in BOOLEAN /\ sd.clk \in BOOLEAN /\ sd'.clk \in BOOLEAN
        /\ sd'.bit \in Nat /\ boot.sdStart \in BOOLEAN
        /\ stream.valid => sd.state \in {"DATA", "CRC0"}
    BY SdAssumption, BootPathAssumption
       DEF Types, TypeOK, SdOK, SdTypeOK, BootOK, BootRegs
  <1>3. /\ drain' = IF boot.state = "LOAD" /\ stream.valid THEN LoaderDepth
                    ELSE IF drain = 0 THEN 0 ELSE drain - 1
        /\ Request.start = boot.sdStart
    BY <1>1 DEF RomPort, RomValid, Request
  <1>4. CASE boot.state # "LOAD" \/ boot.sdStart \/ sd.state = "IDLE"
    <2>1. sd.state = "IDLE" /\ drain = 0
      BY <1>4 DEF Handshake, HostRests, Drained
    <2>2. drain' = 0 BY <1>2, <1>3, <2>1
    <2>3. sd'.state \in {"IDLE", "CMD"}
      BY <1>1, <2>1 DEF Moves, Rests, Begins, Waits, Between, Sends, Checks, Ends, Fails
    <2>4. QED BY <2>2, <2>3 DEF Drained
  <1>5. CASE boot.state = "LOAD" /\ ~boot.sdStart /\ sd.state # "IDLE"
    <2>1. boot'.state = "LOAD"
      <3>1. ~sd.done /\ ~sd.error BY <1>5 DEF Handshake, Transfer
      <3>2. QED BY <1>1, <1>5, <3>1 DEF Kind, Loads, Asks, Runs, Elsewhere
    <2>2. CASE Waits \/ Fails
      <3>1. drain = 0 /\ ~stream.valid BY <1>2, <2>2 DEF Waits, Fails, Drained
      <3>2. drain' = 0 BY <1>3, <3>1
      <3>3. sd'.state \in {"CMD", "WAIT_TOKEN", "DATA", "ERROR", "IDLE"}
        BY <2>2 DEF Waits, Fails
      <3>4. QED BY <3>2, <3>3 DEF Drained
    <2>3. CASE Between BY <2>1, <2>3 DEF Between, Drained
    <2>4. CASE Sends
      <3>1. sd'.state \in {"DATA", "CRC0"} /\ stream'.valid /\ sd'.bit = 0 /\ ~sd'.clk
        BY <2>4 DEF Sends
      <3>2. QED BY <2>1, <3>1 DEF Drained
    <2>5. CASE Checks
      <3> DEFINE p == IF sd.clk THEN 1 ELSE 0
                 q == IF sd'.clk THEN 1 ELSE 0
      <3>1. ~stream'.valid /\ sd.state \in {"CRC0", "CRC1"}
            /\ sd'.state \in {"CRC0", "CRC1", "DONE"}
        BY <2>5 DEF Checks
      <3>2. CASE stream.valid
        <4>1. sd.state = "CRC0" /\ sd.bit = 0 /\ ~sd.clk BY <1>2, <3>1, <3>2 DEF Drained
        <4>2. sd'.state = "CRC0" /\ sd'.bit = 0 /\ sd'.clk BY <2>5, <4>1 DEF Checks
        <4>3. drain' = LoaderDepth BY <1>3, <1>5, <3>2
        <4>4. Phase' = 1 BY <4>2 DEF Phase
        <4>5. drain' + 2 * sd'.bit + Phase' <= LoaderDepth + 1 BY <1>2, <4>2, <4>3, <4>4
        <4>6. QED BY <2>1, <3>1, <4>2, <4>5 DEF Drained
      <3>3. CASE ~stream.valid /\ drain = 0
        <4>1. drain' = 0 BY <1>3, <3>3
        <4>2. QED BY <3>1, <4>1 DEF Drained
      <3>4. CASE ~stream.valid /\ drain # 0
        <4>1. drain' = drain - 1 BY <1>3, <3>4
        <4>2. sd.state = "CRC0" => drain + 2 * sd.bit + p <= LoaderDepth + 1
          BY <3>4 DEF Drained, Phase
        <4>3. sd.state = "CRC1" => drain + 2 * ByteBits + 2 * sd.bit + p <= LoaderDepth + 1
          BY <3>4 DEF Drained, Phase
        <4>4. \/ p = 0 /\ q = 1 /\ sd'.bit = sd.bit /\ sd'.state = sd.state
              \/ p = 1 /\ q = 0 /\ sd'.bit = sd.bit + 1 /\ sd'.state = sd.state
              \/ p = 1 /\ q = 0 /\ sd.bit = ByteBits - 1 /\ sd'.bit = 0
                   /\ sd'.state = IF sd.state = "CRC0" THEN "CRC1" ELSE "DONE"
          BY <2>5 DEF Checks
        <4>5. p \in {0, 1} /\ q \in {0, 1} OBVIOUS
        <4> HIDE DEF p, q
        <4>6. sd'.state = "CRC0" => drain' + 2 * sd'.bit + q <= LoaderDepth + 1
          BY <1>2, <3>1, <4>1, <4>2, <4>4, <4>5
        <4>7. sd'.state = "CRC1" => drain' + 2 * ByteBits + 2 * sd'.bit + q <= LoaderDepth + 1
          BY <1>2, <3>1, <4>1, <4>2, <4>3, <4>4, <4>5
        <4>8. sd'.state = "DONE" => drain' + 4 * ByteBits <= LoaderDepth + 1
          BY <1>2, <3>1, <4>1, <4>3, <4>4, <4>5
        <4>9. Phase' = q BY DEF Phase, q
        <4>10. QED BY <2>1, <3>1, <4>6, <4>7, <4>8, <4>9 DEF Drained
      <3>5. QED BY <1>2, <3>2, <3>3, <3>4
    <2>6. CASE Ends
      <3>1. sd.state = "DONE" /\ sd'.state = "IDLE" /\ ~stream.valid BY <1>2, <2>6 DEF Ends
      <3>2. drain = 0 \/ drain + 4 * ByteBits <= LoaderDepth + 1 BY <3>1 DEF Drained
      <3>3. drain <= 1 BY <1>2, <3>2 DEF LoaderIsShort
      <3>4. drain' = 0 BY <1>2, <1>3, <3>1, <3>3
      <3>5. QED BY <3>1, <3>4 DEF Drained
    <2>7. QED BY <1>1, <1>5, <2>2, <2>3, <2>4, <2>5, <2>6 DEF Moves, Rests, Begins
  <1>6. QED BY <1>2, <1>4, <1>5

LEMMA HeldStep ==
  ASSUME SdLeftAlone, HoldLeftAlone, LoaderIsShort, Types, Types', alone => Handshake,
         alone => Held, [Next]_vars
  PROVE  (alone => Held)'
  <1> SUFFICES ASSUME alone' PROVE Held' OBVIOUS
  <1>1. CASE Tick
    <2>1. PICK w \in AnyWrite, token \in BOOLEAN :
            Cycle(w, token) /\ alone /\ (w \in Owned \/ w = None)
      BY <1>1, TickShape
    <2>2. w.reg \notin SdPage /\ Holds(w)
      BY <2>1 DEF SdLeftAlone, HoldLeftAlone, Holds, SdPage, None
    <2>3. HoldKept' BY <2>1, <2>2, CycleTypes DEF Held
    <2>4. Drained' BY <2>1, <2>2, DrainedCycle DEF Held
    <2>5. QED BY <2>3, <2>4 DEF Held
  <1>2. CASE Reset
    BY <1>2 DEF Reset, SdCleared, BootCleared, NoByte, Held, HoldKept, Drained
  <1>3. CASE UNCHANGED vars BY <1>3 DEF vars, Held, HoldKept, Drained, Phase
  <1>4. QED BY <1>1, <1>2, <1>3 DEF Next

(* While the core runs no byte is presented at the ROM port or under way to *)
(* the RAM: what the theorems about the core assume of its environment.     *)
THEOREM CoreHeldWhileLoading ==
  ASSUME SdLeftAlone, HoldLeftAlone, LoaderIsShort PROVE Spec => []HeldWhileLoading
  <1> DEFINE Inv == Types /\ (alone => Handshake) /\ (alone => Held)
  <1>1. Init => Inv
    <2>1. Init => Held
      BY DEF Init, SdCleared, BootCleared, NoByte, Held, HoldKept, Drained
    <2>2. QED BY <2>1, BootInitial
  <1>2. Inv /\ [Next]_vars => Inv' BY TypesStep, HandshakeStep, HeldStep
  <1>3. Inv => HeldWhileLoading
    BY DEF Held, HoldKept, Drained, HeldWhileLoading, CoreRuns, RomValid
  <1>4. QED BY <1>1, <1>2, <1>3, PTL DEF Spec
=============================================================================
