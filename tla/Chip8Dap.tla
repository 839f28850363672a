------------------------------ MODULE Chip8Dap ------------------------------
(***************************************************************************)
(* The debug bridge, one step per clock edge: bytes of the serial line fill *)
(* a FIFO, the parser makes packets of them, the engine executes them over  *)
(* the AXI-Lite port or the ROM chunk writer, and answers leave through a   *)
(* second FIFO and the transmitter.  The host sends a script of packets.    *)
(***************************************************************************)
EXTENDS Chip8DapPackets

CONSTANTS Addrs, Words, RomSize, SeqSpace,
          RxDepth, TxDepth,   \* FIFO depths, 32 and 64 in the hardware
          ByteTime,           \* cycles of a byte on the line
          TimeoutCycles,      \* COMMAND_TIMEOUT_CYCLES
          Scripts,            \* what the host may send, as sequences of packets
          Unreliable          \* the scripts during which a byte may be lost

ASSUME DapAssumption ==
  /\ RomSize \in Nat \ {0} /\ SeqSpace \in Nat \ {0}
  /\ RxDepth \in Nat \ {0} /\ TxDepth \in Nat \ {0}
  /\ ByteTime \in Nat \ {0} /\ TimeoutCycles \in Nat \ {0}
  /\ \A script \in Scripts : script \in Seq(Packets)

VARIABLES host,               \* script, place in it, what came back
          line, rxFifo,       \* byte received in this cycle; received bytes
          parser, engine,     \* the two state machines
          resp,               \* response under way
          txFifo, tx,         \* bytes of responses; the transmitter
          writer, rom,        \* ROM chunk writer, program memory
          skid, bridge, regs, \* the AXI-Lite port
          todo, doing, begun  \* history: packets not executed, the last executed,
                              \* responses begun

Axi == INSTANCE Chip8AxiLite WITH MaxDepth <- 1, depth <- 1

wires == <<line, rxFifo, txFifo, tx, resp>>
vars  == <<host, wires, parser, engine, writer, rom, skid, bridge, regs, todo, doing, begun>>

None == [active |-> FALSE, answer |-> Answer(0, "OK", <<>>), idx |-> 0]
Init ==
  /\ \E script \in Scripts, pace \in {"burst", "wait"} :
       /\ host = [script |-> script, sent |-> 0, byte |-> 0, gap |-> 0, pace |-> pace,
                  losses |-> IF script \in Unreliable THEN 1 ELSE 0,
                  got |-> <<>>, part |-> 0]
       /\ todo = script
  /\ line = <<>> /\ rxFifo = <<>> /\ txFifo = <<>> /\ tx = [busy |-> 0, byte |-> <<>>]
  /\ parser = [st |-> "SOF", seq |-> 0, cmd |-> 0, len |-> 0, payload |-> <<>>,
               crc |-> <<>>, low |-> Plain(0), error |-> "OK"]
  /\ engine = [st |-> "IDLE", unlocked |-> FALSE, hold |-> FALSE, release |-> FALSE, seq |-> 0,
               chunk |-> FALSE, aw |-> <<>>, w |-> <<>>, ar |-> <<>>,
               bready |-> FALSE, rready |-> FALSE, timeout |-> 0]
  /\ resp = None /\ begun = <<>> /\ doing = <<>>
  /\ writer = [st |-> "IDLE", seq |-> 0, payload |-> <<>>, index |-> 0, done |-> FALSE,
               badSeq |-> FALSE, badCrc |-> FALSE]
  /\ rom = [k \in 0..(RomSize - 1) |-> 0]
  /\ Axi!AxiInit /\ \A a \in Addrs : regs[a].val = 0

-----------------------------------------------------------------------------
(* The serial line.  The host sends the bytes of a packet one after the     *)
(* other, the next packet at once or when the line has fallen silent.       *)
TxBusy == tx.busy > 0
Silent == /\ line = <<>> /\ rxFifo = <<>> /\ parser.st # "EMIT" /\ engine.st = "IDLE"
          /\ ~ resp.active /\ txFifo = <<>> /\ ~ TxBusy
MaySend == /\ host.sent < Len(host.script) /\ host.gap = 0
           /\ host.byte = 0 /\ host.pace = "wait" => Silent

Sent == LET bytes == Wire(host.script[host.sent + 1])
            last  == host.byte + 1 = Len(bytes)
        IN [byte |-> bytes[host.byte + 1],
            host |-> [host EXCEPT !.gap = ByteTime, !.byte = IF last THEN 0 ELSE @ + 1,
                                  !.sent = IF last THEN @ + 1 ELSE @]]

(* What comes back: whole answers, and how much of the next one.            *)
Received(h) ==
  IF tx.busy # 1 THEN h
  ELSE LET b == tx.byte[1]
       IN IF b.idx + 1 = Len(b.answer.payload) + Framing /\ h.part = b.idx
          THEN [h EXCEPT !.got = Append(@, b.answer), !.part = 0]
          ELSE [h EXCEPT !.part = IF h.part = b.idx THEN @ + 1 ELSE 255]

Line ==
  \/ /\ MaySend /\ line' = <<Sent.byte>> /\ host' = Received(Sent.host)
  \/ /\ MaySend /\ host.losses > 0 /\ line' = <<>>
     /\ host' = Received([Sent.host EXCEPT !.losses = @ - 1])
  \/ /\ ~ MaySend /\ line' = <<>>
     /\ host' = Received([host EXCEPT !.gap = IF @ = 0 THEN 0 ELSE @ - 1])

(* A full FIFO refuses the push even when it is popped in the same cycle.   *)
FifoMutant(queue, depth, push, pop) ==      \* a full FIFO takes a byte
  (IF pop THEN Tail(queue) ELSE queue) \o push
Fifo(queue, depth, push, pop) ==
  (IF pop THEN Tail(queue) ELSE queue) \o (IF Len(queue) < depth THEN push ELSE <<>>)

Transmit ==
  LET start == txFifo # <<>> /\ ~ TxBusy
      push  == IF resp.active THEN <<[answer |-> resp.answer, idx |-> resp.idx]>> ELSE <<>>
  IN /\ tx' = IF start THEN [busy |-> ByteTime, byte |-> <<Head(txFifo)>>]
              ELSE IF tx.busy > 1 THEN [tx EXCEPT !.busy = @ - 1]
              ELSE [busy |-> 0, byte |-> <<>>]
     /\ txFifo' = Fifo(txFifo, TxDepth, push, start)

-----------------------------------------------------------------------------
(* The packet parser. *)
Emitted == parser.st = "EMIT"
Fail(status) == [parser EXCEPT !.st = "EMIT", !.error = status]
CoveredMutant(b) ==                 \* the length is left out of the checksum
  IF parser.st = "LEN" THEN parser.crc ELSE Append(parser.crc, b)
Covered(b)   == Append(parser.crc, b)

Parsed(b) ==
  CASE parser.st = "SOF" ->
         IF b.n = SOF THEN [parser EXCEPT !.st = "VER", !.payload = <<>>, !.crc = <<>>]
         ELSE [Fail("BAD_SOF") EXCEPT !.payload = <<>>, !.crc = <<>>]
    [] parser.st = "VER" ->
         IF b.n = VERSION THEN [parser EXCEPT !.st = "SEQ", !.crc = Covered(b)]
         ELSE Fail("BAD_VERSION")
    [] parser.st = "SEQ" -> [parser EXCEPT !.st = "CMD", !.seq = b.n, !.crc = Covered(b)]
    [] parser.st = "CMD" -> [parser EXCEPT !.st = "LEN", !.cmd = b.n, !.crc = Covered(b)]
    [] parser.st = "LEN" ->
         IF b.n > MaxPayload THEN [Fail("BAD_LEN") EXCEPT !.len = b.n]
         ELSE [parser EXCEPT !.len = b.n, !.crc = Covered(b),
                             !.st = IF b.n = 0 THEN "CRC0" ELSE "PAYLOAD"]
    [] parser.st = "PAYLOAD" ->
         [parser EXCEPT !.payload = Append(@, b), !.crc = Covered(b),
                        !.st = IF Len(parser.payload) + 1 = parser.len THEN "CRC0" ELSE @]
    [] parser.st = "CRC0" -> [parser EXCEPT !.st = "CRC1", !.low = b]
    [] parser.st = "CRC1" ->
         IF parser.low = Check(parser.crc, 0) /\ b = Check(parser.crc, 1)
         THEN [parser EXCEPT !.st = "EMIT"] ELSE Fail("BAD_CRC")

CmdEvent == Emitted /\ engine.st = "IDLE" /\ ~ resp.active

Parse ==
  /\ parser' = IF CmdEvent THEN [parser EXCEPT !.st = "SOF", !.crc = <<>>, !.error = "OK"]
               ELSE IF ~ Emitted /\ rxFifo # <<>> THEN Parsed(Head(rxFifo))
               ELSE parser
  /\ rxFifo' = Fifo(rxFifo, RxDepth, line, ~ Emitted /\ rxFifo # <<>>)

-----------------------------------------------------------------------------
(* The ROM chunk writer takes its chunk from the parser in the one cycle in *)
(* which the engine announces it.                                           *)
LastByteMutant == writer.index >= ChunkLen(writer.payload)   \* one byte too many
LastByte == writer.index + 1 >= ChunkLen(writer.payload)
ChunkData == [k \in 1..ChunkLen(writer.payload) |-> Byte(writer.payload, ChunkHead + k)]

Chunk ==
  \/ /\ writer.st = "IDLE" /\ ~ engine.chunk
     /\ writer' = [writer EXCEPT !.done = FALSE, !.index = 0] /\ UNCHANGED rom
  \/ /\ writer.st = "IDLE" /\ engine.chunk /\ UNCHANGED rom
     /\ LET length == ChunkLen(parser.payload)
            badSeq == parser.seq # writer.seq
            badLen == length = 0 \/ length > MaxChunk
        IN writer' = [writer EXCEPT !.done = FALSE, !.index = 0, !.payload = parser.payload,
                        !.badSeq = badSeq, !.badCrc = ~ badSeq /\ badLen,
                        !.st = IF badSeq \/ badLen THEN "RESP" ELSE "CRC"]
  \/ /\ writer.st = "CRC" /\ UNCHANGED rom
     /\ writer' = IF ~ LastByte THEN [writer EXCEPT !.index = @ + 1]
                  ELSE IF ChunkCheck(writer.payload) = Check(ChunkData, 0)
                  THEN [writer EXCEPT !.index = 0, !.st = "WRITE"]
                  ELSE [writer EXCEPT !.index = 0, !.badCrc = TRUE, !.st = "RESP"]
  \/ /\ writer.st = "WRITE"
     /\ rom' = [rom EXCEPT ![(ChunkOffset(writer.payload) + writer.index) % RomSize] =
                  ChunkByte(writer.payload, writer.index + 1)]
     /\ writer' = IF LastByte
                  THEN [writer EXCEPT !.seq = (@ + 1) % SeqSpace, !.st = "RESP"]
                  ELSE [writer EXCEPT !.index = @ + 1]
  \/ /\ writer.st = "RESP" /\ UNCHANGED rom
     /\ writer' = [writer EXCEPT !.done = TRUE, !.st = "IDLE"]

-----------------------------------------------------------------------------
(* The command engine.  Its outputs to the bus fall when they are taken,    *)
(* the release of the core after a cycle; the bytes of a response are       *)
(* handed to the FIFO while it has room.                                    *)
Bus == [aw |-> engine.aw, w |-> engine.w, ar |-> engine.ar]
BaseMutant ==                       \* the time limit runs on from command to command
  [engine EXCEPT
     !.aw = IF Axi!AwTaken THEN <<>> ELSE @, !.w = IF Axi!WTaken THEN <<>> ELSE @,
     !.ar = IF Axi!ArTaken THEN <<>> ELSE @, !.chunk = FALSE, !.release = FALSE,
     !.timeout = IF @ < TimeoutCycles THEN @ + 1 ELSE @]
Base == [engine EXCEPT
          !.aw = IF Axi!AwTaken THEN <<>> ELSE @, !.w = IF Axi!WTaken THEN <<>> ELSE @,
          !.ar = IF Axi!ArTaken THEN <<>> ELSE @, !.chunk = FALSE, !.release = FALSE,
          !.timeout = IF engine.st = "IDLE" THEN 0
                      ELSE IF @ < TimeoutCycles THEN @ + 1 ELSE @]

PushedMutant ==                     \* a full FIFO does not hold the response
  IF ~ resp.active THEN resp
  ELSE IF resp.idx + 1 >= Len(resp.answer.payload) + Framing
  THEN [resp EXCEPT !.idx = 0, !.active = FALSE]
  ELSE [resp EXCEPT !.idx = @ + 1]
Pushed == IF ~ resp.active \/ Len(txFifo) = TxDepth THEN resp
          ELSE IF resp.idx + 1 >= Len(resp.answer.payload) + Framing
          THEN [resp EXCEPT !.idx = 0, !.active = FALSE]
          ELSE [resp EXCEPT !.idx = @ + 1]

Respond(seq, status, payload) ==
  /\ resp' = [active |-> TRUE, answer |-> Answer(seq, status, payload), idx |-> 0]
  /\ begun' = Append(begun, Answer(seq, status, payload))
NoResponse == resp' = Pushed /\ UNCHANGED begun

(* IDLE: one action per command, on a packet with its checksum intact.      *)
Arg(k)    == Byte(parser.payload, k)
Given(c)  == CmdEvent /\ parser.error = "OK" /\ parser.cmd = c
Reply(status, payload) == Respond(parser.seq, status, payload)
Answered  == [Base EXCEPT !.st = "RESP", !.seq = parser.seq, !.bready = FALSE, !.rready = FALSE]
Started   == [Answered EXCEPT !.st = "IDLE"]
Refused(status) == Reply(status, <<>>) /\ engine' = Answered

NoCommand == /\ engine.st = "IDLE" /\ ~ CmdEvent /\ NoResponse
             /\ engine' = [Base EXCEPT !.bready = FALSE, !.rready = FALSE]
BadPacket == CmdEvent /\ parser.error # "OK" /\ Refused(parser.error)
Unknown   == /\ CmdEvent /\ parser.error = "OK" /\ Refused("BAD_CMD")
             /\ \A c \in DOMAIN Code : parser.cmd # Code[c]
Ping      == Given(Code.PING) /\ Reply("OK", <<>>) /\ engine' = Answered
Ident     == Given(Code.ID) /\ Reply("OK", Identity) /\ engine' = Answered
Status    == /\ Given(Code.GET_STATUS) /\ engine' = Answered
             /\ Reply("OK", <<IF engine.unlocked THEN 0 ELSE 1, writer.seq>>)

Unlock ==
  /\ Given(Code.UNLOCK)
  /\ LET right == parser.len = KeyLen /\ Arg(1) = Key
     IN /\ Reply(IF right THEN "OK" ELSE "LOCKED", <<>>)
        /\ engine' = [Answered EXCEPT !.unlocked = right]
Lock == /\ Given(Code.LOCK) /\ Reply("OK", <<>>)
        /\ engine' = [Answered EXCEPT !.unlocked = FALSE, !.hold = FALSE]

HoldCore ==
  /\ Given(Code.HOLD_CORE)
  /\ \/ ~ engine.unlocked /\ Refused("LOCKED")
     \/ engine.unlocked /\ parser.len # 1 /\ Refused("BAD_LEN")
     \/ /\ engine.unlocked /\ parser.len = 1 /\ Reply("OK", <<>>)
        /\ LET held == Arg(1).n % 2 = 1        \* bit 0 only
           IN engine' = [Answered EXCEPT !.hold = held, !.release = ~ held]

Read32 ==
  /\ Given(Code.READ32)
  /\ \/ parser.len # AddrLen /\ Refused("BAD_LEN")
     \/ /\ parser.len = AddrLen /\ NoResponse
        /\ engine' = [Started EXCEPT !.st = "AXI_READ", !.ar = <<Arg(1).n>>, !.rready = TRUE]

Write32Mutant ==                    \* the lock is checked after the length
  /\ Given(Code.WRITE32)
  /\ \/ parser.len # WriteLen /\ Refused("BAD_LEN")
     \/ /\ parser.len = WriteLen /\ NoResponse
        /\ engine' = [Started EXCEPT !.st = "AXI_WRITE", !.aw = <<Arg(1).n>>,
                        !.w = <<Arg(2).n>>, !.bready = TRUE]
Write32 ==
  /\ Given(Code.WRITE32)
  /\ \/ ~ engine.unlocked /\ Refused("LOCKED")
     \/ engine.unlocked /\ parser.len # WriteLen /\ Refused("BAD_LEN")
     \/ /\ engine.unlocked /\ parser.len = WriteLen /\ NoResponse
        /\ engine' = [Started EXCEPT !.st = "AXI_WRITE", !.aw = <<Arg(1).n>>,
                        !.w = <<Arg(2).n>>, !.bready = TRUE]

RomWrite ==
  /\ Given(Code.ROM_WRITE)
  /\ \/ ~ engine.unlocked /\ Refused("LOCKED")
     \/ engine.unlocked /\ parser.len < ChunkHead + 1 /\ Refused("BAD_LEN")
     \/ /\ engine.unlocked /\ parser.len >= ChunkHead + 1
        /\ IF writer.st # "IDLE" THEN Refused("BUSY")
           ELSE NoResponse /\ engine' = [Started EXCEPT !.st = "ROM_WAIT", !.chunk = TRUE]

(* The commands that wait. *)
Finished == [Base EXCEPT !.st = "RESP"]
BusWrite ==
  /\ engine.st = "AXI_WRITE"
  /\ \/ ~ bridge.b /\ engine' = Base /\ NoResponse
     \/ /\ bridge.b /\ engine' = [Finished EXCEPT !.bready = FALSE]
        /\ Respond(engine.seq, "OK", <<>>)
BusReadMutant ==                    \* a read waits for the write response
  /\ engine.st = "AXI_READ"
  /\ \/ ~ bridge.b /\ engine' = Base /\ NoResponse
     \/ /\ bridge.b /\ engine' = [Finished EXCEPT !.rready = FALSE]
        /\ Respond(engine.seq, "OK", <<0>>)
BusRead ==
  /\ engine.st = "AXI_READ"
  /\ \/ bridge.r = <<>> /\ engine' = Base /\ NoResponse
     \/ /\ bridge.r # <<>> /\ engine' = [Finished EXCEPT !.rready = FALSE]
        /\ Respond(engine.seq, "OK", <<bridge.r[1].val>>)
RomWait ==
  /\ engine.st = "ROM_WAIT"
  /\ \/ ~ writer.done /\ engine' = Base /\ NoResponse
     \/ /\ writer.done /\ engine' = Finished
        /\ IF writer.badSeq THEN Respond(engine.seq, "BAD_SEQ", <<writer.seq>>)
           ELSE Respond(engine.seq, IF writer.badCrc THEN "ROM_CRC" ELSE "OK", <<>>)
Resp ==
  /\ engine.st \in {"RESP", "ERROR"} /\ NoResponse
  /\ engine' = [Base EXCEPT !.st = IF ~ resp.active /\ ~ TxBusy THEN "IDLE" ELSE @]

Command == NoCommand \/ BadPacket \/ Unknown \/ Ping \/ Ident \/ Status \/ Unlock \/ Lock
           \/ HoldCore \/ Read32 \/ Write32 \/ RomWrite
Work    == BusWrite \/ BusRead \/ RomWait \/ Resp

(* Past the time limit the engine starts its BUSY answer again in every     *)
(* cycle from then on; begun counts it once.                                *)
TimedOut ==
  LET busy == Answer(engine.seq, "BUSY", <<>>)
  IN /\ engine' = [Base EXCEPT !.st = "ERROR", !.aw = <<>>, !.w = <<>>, !.ar = <<>>,
                     !.bready = FALSE, !.rready = FALSE]
     /\ resp' = [active |-> TRUE, answer |-> busy, idx |-> 0]
     /\ begun' = IF engine.st = "ERROR" THEN begun ELSE Append(begun, busy)
Engine == IF engine.timeout = TimeoutCycles THEN TimedOut ELSE Command \/ Work

(* The AXI-Lite port with registers that are always ready.                  *)
Port ==
  /\ Axi!Skids(Bus)
  /\ \/ Axi!Join \/ Axi!TakeRead \/ Axi!Collect \/ Axi!PerformWrite \/ Axi!PerformRead
     \/ IF (IF bridge.we THEN engine.bready ELSE engine.rready) THEN Axi!Close ELSE Axi!Hold

(* History: an executed packet is the next equal one of the script.         *)
Packet == [seq |-> parser.seq, cmd |-> parser.cmd, payload |-> parser.payload]
Executed ==
  IF CmdEvent /\ parser.error = "OK" /\ \E k \in DOMAIN todo : todo[k] = Packet
  THEN LET first == CHOOSE k \in DOMAIN todo :
                      todo[k] = Packet /\ \A j \in 1..(k - 1) : todo[j] # Packet
       IN todo' = SubSeq(todo, first + 1, Len(todo)) /\ doing' = <<Packet>>
  ELSE UNCHANGED <<todo, doing>>

Tick == Line /\ Transmit /\ Parse /\ Chunk /\ Engine /\ Port /\ Executed
Spec     == Init /\ [][Tick]_vars
FairSpec == Spec /\ WF_vars(Tick)
-----------------------------------------------------------------------------
Begun    == {begun[k] : k \in DOMAIN begun}
TxBytes  == [answer : Begun, idx : Nat]
Statuses == {"OK", "BAD_SOF", "BAD_VERSION", "BAD_CRC", "BAD_LEN"}
HostState ==
  [script : Scripts, sent : Nat, byte : Nat, gap : 0..ByteTime, pace : {"burst", "wait"},
   losses : Nat, got : Seq(Begun), part : Nat]
ParserState ==
  [st : {"SOF", "VER", "SEQ", "CMD", "LEN", "PAYLOAD", "CRC0", "CRC1", "EMIT"},
   seq : Nat, cmd : Nat, len : Nat, payload : Seq(Bytes), crc : Seq(Bytes), low : Bytes,
   error : Statuses]
EngineState ==
  [st : {"IDLE", "AXI_WRITE", "AXI_READ", "ROM_WAIT", "RESP", "ERROR"},
   unlocked : BOOLEAN, hold : BOOLEAN, release : BOOLEAN, seq : Nat, chunk : BOOLEAN,
   aw : Seq(Nat), w : Seq(Nat), ar : Seq(Nat), bready : BOOLEAN, rready : BOOLEAN,
   timeout : 0..TimeoutCycles]
WriterState ==
  [st : {"IDLE", "CRC", "WRITE", "RESP"}, seq : 0..(SeqSpace - 1), payload : Seq(Bytes),
   index : Nat, done : BOOLEAN, badSeq : BOOLEAN, badCrc : BOOLEAN]
BridgeState ==
  [state : {"IDLE", "WAIT_REG", "RESP"}, we : BOOLEAN, aw : Seq(Nat), w : Seq(Nat),
   req : Seq(Nat), b : BOOLEAN, r : {bridge.r}]

DapTypeOK ==
  /\ parser \in ParserState /\ engine \in EngineState /\ writer \in WriterState
  /\ rom \in [0..(RomSize - 1) -> Nat]
  /\ skid \in [aw : Seq(Nat), w : Seq(Nat), ar : Seq(Nat)] /\ bridge \in BridgeState
  /\ begun \in Seq(Begun) /\ \A a \in Begun : Len(a.payload) \in 0..Len(Identity)
  /\ resp \in [active : BOOLEAN, answer : Begun \cup {None.answer}, idx : Nat]
  /\ host \in HostState
  /\ line \in Seq(Bytes) /\ Len(line) <= 1
  /\ rxFifo \in Seq(Bytes) /\ Len(rxFifo) <= RxDepth
  /\ tx \in [busy : 0..ByteTime, byte : Seq(TxBytes)] /\ Len(tx.byte) <= 1
  /\ txFifo \in Seq(TxBytes) /\ Len(txFifo) <= TxDepth

(* The bridge implements the target, whose host knows whole bytes only, for *)
(* scripts of packets that fit: what it has under way is the packet last    *)
(* taken, its effects those at the registers or in program memory.          *)
Progress == IF engine.st = "AXI_WRITE" /\ bridge.b THEN 1
            ELSE IF engine.st # "ROM_WAIT" \/ engine.chunk THEN 0
            ELSE IF writer.st = "WRITE" THEN writer.index
            ELSE IF (writer.st = "RESP" \/ writer.done) /\ ~ writer.badSeq /\ ~ writer.badCrc
            THEN ChunkLen(writer.payload) ELSE 0
Promise == INSTANCE Chip8DapTarget WITH
  unlocked <- engine.unlocked, hold <- engine.hold, release <- engine.release,
  next <- writer.seq, answers <- begun,
  work <- IF engine.st \in {"AXI_WRITE", "AXI_READ", "ROM_WAIT"}
          THEN <<[p |-> doing[1], done |-> Progress]>> ELSE <<>>
KeepsPromise == Promise!Target
ScriptsFit   == \A script \in Scripts : \A k \in DOMAIN script : WellFormed(script[k])

(* Without the unlock the bridge drives neither the write channels of the   *)
(* bus nor program memory, and does not release the core.                   *)
LockedIsQuiet ==
  ~ engine.unlocked => /\ engine.aw = <<>> /\ engine.w = <<>> /\ ~ engine.bready
                       /\ writer.st # "WRITE" /\ ~ engine.release

(* The host gets the answers that were begun, in order, each whole: no byte *)
(* of a response is lost or overtaken between the engine and the line.      *)
AnswersWhole ==
  /\ host.part # 255
  /\ Len(host.got) <= Len(begun) /\ host.got = SubSeq(begun, 1, Len(host.got))

(* A host that sends a packet and waits has each of them executed, and      *)
(* gets an answer to each with its sequence number.                         *)
Seqs(s)  == [k \in DOMAIN s |-> s[k].seq]
GotAll  == todo = <<>> /\ Seqs(host.got) = Seqs(host.script)
EachAnswered ==
  host.pace = "wait" /\ host.script \notin Unreliable => <>GotAll

(* The engine always gets back to the next packet, whatever was lost on the *)
(* line, and no command reaches the time limit.                             *)
EngineReturns == engine.st # "IDLE" ~> engine.st = "IDLE"
NoTimeout     == engine.timeout < TimeoutCycles

(* A locked bridge does not hold the core.                                  *)
LockedReleases == ~ engine.unlocked => ~ engine.hold
=============================================================================
