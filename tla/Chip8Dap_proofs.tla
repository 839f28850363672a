--------------------------- MODULE Chip8Dap_proofs ---------------------------
(***************************************************************************)
(* The debug bridge, for all scripts, FIFO depths and line speeds: its      *)
(* types; and, when the time limit is longer than the longest command, that *)
(* no command reaches the limit, that a locked bridge writes nothing, and   *)
(* that the answers arrive whole and in order.                              *)
(***************************************************************************)
EXTENDS Chip8Dap, SequenceTheorems, TLAPS

(* The longest a command may take: every byte of the longest answer waits   *)
(* for one to leave a full FIFO, after the slowest work.                    *)
AnswerLen(a) == Len(a.payload) + Framing
ChunkTime    == 2 * MaxChunk + 3
ResponseTime == (Len(Identity) + Framing + 1) * (ByteTime + 1) + 1
CommandTime  == ChunkTime + ResponseTime
LimitIsAmple == CommandTime < TimeoutCycles

-----------------------------------------------------------------------------
(* An access is k cycles old: offered, in the skid buffers, at the          *)
(* registers, answered; past that the port is quiet.                        *)
OffersAt(e, we, k) ==
  /\ e.aw # <<>> <=> we /\ k = 0
  /\ e.w # <<>>  <=> we /\ k = 0
  /\ e.ar # <<>> <=> ~ we /\ k = 0
PortAt(s, b, we, k) ==
  /\ s.aw # <<>> <=> we /\ k = 1
  /\ s.w # <<>>  <=> we /\ k = 1
  /\ s.ar # <<>> <=> ~ we /\ k = 1
  /\ b.state = IF k = 2 THEN "WAIT_REG" ELSE IF k = 3 THEN "RESP" ELSE "IDLE"
  /\ k \in {2, 3} => (b.we <=> we)
  /\ k \notin {2, 3} => b.aw = <<>> /\ b.w = <<>>
  /\ b.b <=> we /\ k = 3
  /\ b.r # <<>> <=> ~ we /\ k = 3

Access  == engine.st \in {"AXI_WRITE", "AXI_READ"}
Age     == IF Access THEN engine.timeout ELSE 4
BusInv  ==
  /\ Access => engine.timeout \in 0..3
  /\ OffersAt(engine, engine.st = "AXI_WRITE", Age)
  /\ PortAt(skid, bridge, engine.st = "AXI_WRITE", Age)
  /\ engine.bready <=> engine.st = "AXI_WRITE"
  /\ engine.rready <=> engine.st = "AXI_READ"

(* A chunk under way, and the cycles until its answer.                      *)
ChunkLeft ==
  IF engine.chunk THEN ChunkTime
  ELSE IF writer.st = "CRC"
  THEN (ChunkLen(writer.payload) - writer.index) + MaxChunk + 2
  ELSE IF writer.st = "WRITE" THEN (ChunkLen(writer.payload) - writer.index) + 2
  ELSE IF writer.st = "RESP" THEN 2 ELSE 1
RomInv ==
  /\ engine.st # "ROM_WAIT" => ~ engine.chunk /\ writer.st = "IDLE" /\ ~ writer.done
  /\ engine.st = "ROM_WAIT" =>
       /\ engine.chunk => writer.st = "IDLE" /\ ~ writer.done
       /\ ~ engine.chunk => (writer.done <=> writer.st = "IDLE")
       /\ writer.st \in {"CRC", "WRITE"} =>
            /\ ChunkLen(writer.payload) \in 1..MaxChunk
            /\ writer.index < ChunkLen(writer.payload)
       /\ engine.timeout + ChunkLeft <= ChunkTime

(* A response under way, and the cycles until the engine is back.           *)
ResponseLeft ==
  IF resp.active
  THEN (AnswerLen(resp.answer) - resp.idx) * (ByteTime + 1) + 1
       + (IF Len(txFifo) = TxDepth THEN tx.busy + 1 ELSE 0)
  ELSE tx.busy + 1
ResponseInv ==
  /\ engine.st # "ERROR"
  /\ resp.active => engine.st = "RESP"
  /\ resp.active => resp.idx < AnswerLen(resp.answer)
  /\ engine.st = "RESP" => engine.timeout + ResponseLeft <= CommandTime
  /\ engine.timeout <= CommandTime

UnlockInv == engine.release \/ engine.st \in {"AXI_WRITE", "ROM_WAIT"} => engine.unlocked

InTime == BusInv /\ RomInv /\ ResponseInv /\ UnlockInv

-----------------------------------------------------------------------------
(* The bytes on their way to the host, and their places in the answers:     *)
(* those not yet received follow on those received, and lead up to the next *)
(* byte of the response under way.                                          *)
OnTheWay == tx.byte \o txFifo
Place    == [answer : Nat, idx : Nat]
After(answers, p) ==
  IF p.idx + 1 = AnswerLen(answers[p.answer])
  THEN [answer |-> p.answer + 1, idx |-> 0] ELSE [answer |-> p.answer, idx |-> p.idx + 1]
NextIn   == [answer |-> Len(host.got) + 1, idx |-> host.part]
NextOut  == IF resp.active THEN [answer |-> Len(begun), idx |-> resp.idx]
            ELSE [answer |-> Len(begun) + 1, idx |-> 0]

IsAt(answers, p, byte) ==
  /\ p.answer \in 1..Len(answers) /\ p.idx < AnswerLen(answers[p.answer])
  /\ byte.answer = answers[p.answer] /\ byte.idx = p.idx
Follows(at, way, answers, in, out) ==
  /\ at \in [1..(Len(way) + 1) -> Place] /\ at[1] = in /\ at[Len(way) + 1] = out
  /\ \A k \in 1..Len(way) :
       IsAt(answers, at[k], way[k]) /\ at[k + 1] = After(answers, at[k])

StreamInv ==
  /\ \E at : Follows(at, OnTheWay, begun, NextIn, NextOut)
  /\ resp.active => begun # <<>> /\ resp.answer = begun[Len(begun)]
  /\ \A k \in 1..Len(host.got) : host.got[k] = begun[k]

-----------------------------------------------------------------------------
(* Bytes and queues. *)
LEMMA ByteType ==
  ASSUME NEW bytes \in Seq(Bytes), NEW k  PROVE Byte(bytes, k) \in Bytes /\ Byte(bytes, k).n \in Nat
<1>1. Plain(0) \in Bytes
  BY DEF Plain, Bytes
<1>2. DOMAIN bytes = 1..Len(bytes) /\ \A j \in 1..Len(bytes) : bytes[j] \in Bytes
  BY LenProperties, ElementOfSeq
<1>3. Byte(bytes, k) \in Bytes
  BY <1>1, <1>2 DEF Byte
<1>. QED  BY <1>3 DEF Bytes

(* A length within the bits the writer takes is the length of the chunk.    *)
LEMMA ChunkLenType ==
  ASSUME NEW bytes \in Seq(Bytes)
  PROVE  /\ ChunkLen(bytes) \in Nat /\ LengthByte(bytes) \in Nat
         /\ LengthByte(bytes) < LengthSpan => ChunkLen(bytes) = LengthByte(bytes)
<1>1. LengthByte(bytes) \in Nat
  BY ByteType DEF LengthByte
<1>2. LengthSpan = 4
  BY DEF LengthSpan, MaxChunk
<1>. QED  BY <1>1, <1>2 DEF ChunkLen

LEMMA SeqMonotone ==
  ASSUME NEW S, NEW T, S \subseteq T  PROVE Seq(S) \subseteq Seq(T)
<1>. SUFFICES ASSUME NEW s \in Seq(S) PROVE s \in Seq(T)
  OBVIOUS
<1>1. Len(s) \in Nat /\ s \in [1..Len(s) -> S]
  BY LenProperties
<1>2. s \in [1..Len(s) -> T]
  BY <1>1
<1>. QED  BY <1>1, <1>2, SeqDef

LEMMA DataTypes ==
  /\ \A n \in Nat : Plain(n) \in Data
  /\ Data \subseteq Bytes /\ Seq(Data) \subseteq Seq(Bytes)
<1>1. <<>> \in Seq(Number) /\ <<>> \in Seq(Data)
  OBVIOUS
<1>2. \A n \in Nat : Plain(n) \in Data
  BY <1>1 DEF Plain, Data
<1>3. Number \subseteq Data
  BY <1>1 DEF Number, Data
<1>4. Seq(Number) \subseteq Seq(Data)
  BY <1>3, SeqMonotone
<1>5. Data \subseteq Bytes
  BY <1>4 DEF Data, Bytes
<1>. QED  BY <1>2, <1>5, SeqMonotone

LEMMA CheckType ==
  ASSUME NEW bytes \in Seq(Data), NEW half \in {0, 1}  PROVE Check(bytes, half) \in Bytes
BY DEF Check, Bytes

LEMMA BodyType ==
  ASSUME NEW p \in Packets
  PROVE  Body(p) \in Seq(Data) /\ Len(Body(p)) = 4 + Len(p.payload)
<1>1. <<Plain(VERSION), Plain(p.seq), Plain(p.cmd), Plain(Len(p.payload))>> \in Seq(Data)
  <2>1. p.seq \in Nat /\ p.cmd \in Nat /\ Len(p.payload) \in Nat /\ VERSION \in Nat
    BY DEF Packets, VERSION
  <2>. QED  BY <2>1, DataTypes
<1>2. p.payload \in Seq(Data)
  BY DEF Packets
<1>. QED  BY <1>1, <1>2, ConcatProperties DEF Body

LEMMA WireType ==
  ASSUME NEW p \in Packets  PROVE Wire(p) \in Seq(Bytes) /\ Len(Wire(p)) \in Nat \ {0}
<1>3. Body(p) \in Seq(Bytes)
  BY BodyType, DataTypes
<1>4. /\ <<Check(Body(p), 0), Check(Body(p), 1)>> \in Seq(Bytes)
      /\ Len(<<Check(Body(p), 0), Check(Body(p), 1)>>) = 2
  BY BodyType, CheckType
<1>5. <<Plain(SOF)>> \in Seq(Bytes)
  BY DataTypes DEF SOF
<1>6. <<Plain(SOF)>> \o Body(p) \in Seq(Bytes)
  BY <1>3, <1>5, ConcatProperties
<1>7. /\ Wire(p) \in Seq(Bytes)
      /\ Len(Wire(p)) = Len(<<Plain(SOF)>> \o Body(p)) + 2
  BY <1>4, <1>6, ConcatProperties DEF Wire
<1>. QED  BY <1>6, <1>7

LEMMA FifoType ==
  ASSUME NEW S, NEW queue \in Seq(S), NEW depth \in Nat, NEW push \in Seq(S), Len(push) <= 1,
         NEW pop \in BOOLEAN, pop => queue # <<>>, Len(queue) <= depth
  PROVE  Fifo(queue, depth, push, pop) \in Seq(S) /\ Len(Fifo(queue, depth, push, pop)) <= depth
<1>. DEFINE left == IF pop THEN Tail(queue) ELSE queue
            new  == IF Len(queue) < depth THEN push ELSE <<>>
<1>1. left \in Seq(S) /\ Len(left) <= Len(queue)
  BY HeadTailProperties
<1>2. new \in Seq(S) /\ Len(new) <= 1 /\ (Len(queue) = depth => Len(new) = 0)
  BY EmptySeq
<1>3. left \o new \in Seq(S) /\ Len(left \o new) = Len(left) + Len(new)
  <2>. HIDE DEF left, new
  <2>. QED  BY <1>1, <1>2, ConcatProperties
<1>4. Len(left \o new) <= depth
  <2>. HIDE DEF left, new
  <2>1. Len(queue) \in Nat /\ Len(left) \in Nat /\ Len(new) \in Nat
    BY <1>1, <1>2, LenProperties
  <2>. QED  BY <1>1, <1>2, <1>3, <2>1
<1>. QED  BY <1>3, <1>4 DEF Fifo

-----------------------------------------------------------------------------
(* The types, with what they need to be kept: the host is inside a packet,  *)
(* a transmitter that is busy has a byte, a response was begun, and so was  *)
(* the BUSY answer an engine past its limit starts again.                   *)
HostInPlace ==
  host.sent < Len(host.script) => host.byte < Len(Wire(host.script[host.sent + 1]))
TypeInv == /\ DapTypeOK /\ HostInPlace
           /\ tx.busy > 0 <=> tx.byte # <<>>
           /\ resp.active => resp.answer \in Begun
           /\ engine.st = "ERROR" => Answer(engine.seq, "BUSY", <<>>) \in Begun

LEMMA ReceivedType ==
  ASSUME TypeInv, NEW h \in HostState
  PROVE  /\ Received(h) \in HostState
         /\ Received(h).sent = h.sent /\ Received(h).byte = h.byte /\ Received(h).script = h.script
<1>1. CASE tx.busy # 1
  BY <1>1 DEF Received
<1>2. CASE tx.busy = 1
  <2>1. tx.byte \in Seq(TxBytes) /\ tx.byte # <<>>
    BY <1>2 DEF TypeInv, DapTypeOK
  <2>2. tx.byte[1] \in TxBytes
    <3>1. Len(tx.byte) \in Nat \ {0}
      BY <2>1, EmptySeq
    <3>. QED  BY <2>1, <3>1, ElementOfSeq
  <2>3. /\ tx.byte[1].answer \in Begun /\ h.got \in Seq(Begun) /\ h.part \in Nat
        /\ Append(h.got, tx.byte[1].answer) \in Seq(Begun)
    BY <2>2, AppendProperties DEF TxBytes, HostState
  <2>4. CASE Received(h) = [h EXCEPT !.got = Append(h.got, tx.byte[1].answer), !.part = 0]
    <3>. DEFINE got == Append(h.got, tx.byte[1].answer)
    <3>1. got \in Seq(Begun) /\ Received(h) = [h EXCEPT !.got = got, !.part = 0]
      BY <2>3, <2>4
    <3>. HIDE DEF got
    <3>2. [h EXCEPT !.got = got, !.part = 0] \in HostState
      BY <3>1 DEF HostState
    <3>. QED  BY <3>1, <3>2 DEF HostState
  <2>5. CASE Received(h) = [h EXCEPT !.part = IF h.part = tx.byte[1].idx THEN h.part + 1 ELSE 255]
    <3>. DEFINE part == IF h.part = tx.byte[1].idx THEN h.part + 1 ELSE 255
    <3>1. part \in Nat
      BY <2>3
    <3>2. Received(h) = [h EXCEPT !.part = part]
      BY <2>5
    <3>. HIDE DEF part
    <3>3. [h EXCEPT !.part = part] \in HostState
      BY <3>1 DEF HostState
    <3>. QED  BY <3>2, <3>3 DEF HostState
  <2>. QED  BY <1>2, <2>4, <2>5 DEF Received
<1>. QED  BY <1>1, <1>2 DEF TypeInv, DapTypeOK

LEMMA HostTypes ==
  ASSUME TypeInv
  PROVE  /\ host \in HostState /\ host.script \in Seq(Packets) /\ Len(host.script) \in Nat
         /\ host.sent \in Nat /\ host.byte \in Nat /\ ByteTime \in Nat
         /\ \A n \in Nat : n < Len(host.script) => /\ Wire(host.script[n + 1]) \in Seq(Bytes)
                                                   /\ Len(Wire(host.script[n + 1])) \in Nat \ {0}
<1>1. host \in HostState
  BY DEF TypeInv, DapTypeOK
<1>2. host.script \in Seq(Packets) /\ host.sent \in Nat /\ host.byte \in Nat /\ ByteTime \in Nat
      /\ Len(host.script) \in Nat
  BY <1>1, DapAssumption, LenProperties DEF HostState
<1>3. ASSUME NEW n \in Nat, n < Len(host.script)
      PROVE  /\ Wire(host.script[n + 1]) \in Seq(Bytes)
             /\ Len(Wire(host.script[n + 1])) \in Nat \ {0}
  <2>1. host.script[n + 1] \in Packets
    BY <1>2, <1>3, ElementOfSeq
  <2>. QED  BY <2>1, WireType
<1>. QED  BY <1>1, <1>2, <1>3

(* The byte sent is one of the packet, and the host moves on in the packet. *)
LEMMA SentType ==
  ASSUME TypeInv, MaySend
  PROVE  /\ Sent.byte \in Bytes /\ Sent.host \in HostState
         /\ Sent.host.script = host.script /\ Sent.host.losses = host.losses
         /\ Sent.host.got = host.got /\ Sent.host.part = host.part
         /\ \/ Sent.host.byte = 0 /\ Sent.host.sent = host.sent + 1
            \/ /\ host.byte + 1 # Len(Wire(host.script[host.sent + 1]))
               /\ Sent.host.byte = host.byte + 1 /\ Sent.host.sent = host.sent
<1>. DEFINE bytes == Wire(host.script[host.sent + 1])
            byte  == IF host.byte + 1 = Len(bytes) THEN 0 ELSE host.byte + 1
            sent  == IF host.byte + 1 = Len(bytes) THEN host.sent + 1 ELSE host.sent
<1>1. /\ host \in HostState /\ host.sent \in Nat /\ host.byte \in Nat /\ ByteTime \in Nat
      /\ host.sent < Len(host.script)
  BY HostTypes DEF MaySend
<1>2. bytes \in Seq(Bytes) /\ Len(bytes) \in Nat /\ host.byte < Len(bytes)
  BY <1>1, HostTypes DEF TypeInv, HostInPlace
<1>3. Sent.byte \in Bytes
  BY <1>1, <1>2, ElementOfSeq DEF Sent
<1>4. Sent.host = [host EXCEPT !.gap = ByteTime, !.byte = byte, !.sent = sent]
  BY DEF Sent
<1>. HIDE DEF bytes
<1>5. /\ byte \in Nat /\ sent \in Nat
      /\ \/ byte = 0 /\ sent = host.sent + 1
         \/ host.byte + 1 # Len(bytes) /\ byte = host.byte + 1 /\ sent = host.sent
  BY <1>1
<1>. HIDE DEF byte, sent
<1>6. /\ Sent.host.byte = byte /\ Sent.host.sent = sent /\ Sent.host.script = host.script
      /\ Sent.host.losses = host.losses /\ Sent.host.got = host.got /\ Sent.host.part = host.part
  BY <1>1, <1>4 DEF HostState
<1>7. Sent.host \in HostState
  <2>1. ByteTime \in 0..ByteTime
    BY <1>1
  <2>2. [host EXCEPT !.gap = ByteTime, !.byte = byte, !.sent = sent] \in HostState
    BY <1>1, <1>5, <2>1 DEF HostState
  <2>. QED  BY <1>4, <2>2
<1>. QED  BY <1>3, <1>5, <1>6, <1>7 DEF bytes

(* What the line makes of the host, before it receives.                     *)
LEMMA LineCases ==
  ASSUME TypeInv, Line
  PROVE  \E h \in HostState :
           /\ host' = Received(h)
           /\ h.script = host.script /\ h.got = host.got /\ h.part = host.part
           /\ \/ MaySend /\ h.byte = Sent.host.byte /\ h.sent = Sent.host.sent
              \/ ~ MaySend /\ h.byte = host.byte /\ h.sent = host.sent
<1>1. CASE MaySend
  <2>1. CASE host' = Received(Sent.host)
    BY <1>1, <2>1, SentType
  <2>2. CASE host.losses > 0 /\ host' = Received([Sent.host EXCEPT !.losses = @ - 1])
    <3>. DEFINE losses == Sent.host.losses - 1
                h == [Sent.host EXCEPT !.losses = losses]
    <3>1. losses \in Nat /\ Sent.host \in HostState
      BY <1>1, <2>2, SentType DEF HostState
    <3>2. host' = Received(h)
      BY <2>2
    <3>. HIDE DEF losses
    <3>3. h \in HostState
      BY <3>1 DEF HostState
    <3>4. /\ h.script = Sent.host.script /\ h.got = Sent.host.got /\ h.part = Sent.host.part
          /\ h.byte = Sent.host.byte /\ h.sent = Sent.host.sent
      BY <3>1 DEF HostState
    <3>. HIDE DEF h
    <3>. QED  BY <1>1, <3>2, <3>3, <3>4, SentType
  <2>. QED  BY <1>1, <2>1, <2>2 DEF Line
<1>2. CASE ~ MaySend
  <2>. DEFINE gap == IF host.gap = 0 THEN 0 ELSE host.gap - 1
              h == [host EXCEPT !.gap = gap]
  <2>1. gap \in 0..ByteTime /\ host \in HostState
    BY HostTypes DEF HostState
  <2>2. host' = Received(h)
    BY <1>2 DEF Line
  <2>. HIDE DEF gap
  <2>3. /\ h \in HostState /\ h.script = host.script /\ h.got = host.got /\ h.part = host.part
        /\ h.byte = host.byte /\ h.sent = host.sent
    BY <2>1 DEF HostState
  <2>. HIDE DEF h
  <2>. QED  BY <1>2, <2>2, <2>3
<1>. QED  BY <1>1, <1>2

LEMMA LineTypes ==
  ASSUME TypeInv, Line
  PROVE  line' \in Seq(Bytes) /\ Len(line') <= 1 /\ host' \in HostState /\ HostInPlace'
<1>1. PICK h \in HostState :
        /\ host' = Received(h) /\ h.script = host.script
        /\ \/ MaySend /\ h.byte = Sent.host.byte /\ h.sent = Sent.host.sent
           \/ ~ MaySend /\ h.byte = host.byte /\ h.sent = host.sent
  BY LineCases
<1>2. /\ host' \in HostState /\ host'.sent = h.sent /\ host'.byte = h.byte
      /\ host'.script = host.script
  BY <1>1, ReceivedType
<1>3. line' \in Seq(Bytes) /\ Len(line') <= 1
  <2>1. \/ MaySend /\ line' = <<Sent.byte>>
        \/ line' = <<>>
    BY DEF Line
  <2>2. line' = <<>> => line' \in Seq(Bytes) /\ Len(line') <= 1
    BY EmptySeq
  <2>3. MaySend /\ line' = <<Sent.byte>> => line' \in Seq(Bytes) /\ Len(line') <= 1
    BY SentType
  <2>. QED  BY <2>1, <2>2, <2>3
<1>4. HostInPlace'
  <2>1. CASE ~ MaySend
    BY <1>1, <1>2, <2>1 DEF TypeInv, HostInPlace
  <2>2. CASE MaySend /\ Sent.host.byte = 0 /\ Sent.host.sent = host.sent + 1
    BY <1>1, <1>2, <2>2, HostTypes DEF HostInPlace
  <2>3. CASE /\ MaySend /\ host.byte + 1 # Len(Wire(host.script[host.sent + 1]))
             /\ Sent.host.byte = host.byte + 1 /\ Sent.host.sent = host.sent
    <3>1. host.sent < Len(host.script) /\ host.byte < Len(Wire(host.script[host.sent + 1]))
      BY <2>3 DEF MaySend, TypeInv, HostInPlace
    <3>2. Len(Wire(host.script[host.sent + 1])) \in Nat
      BY <3>1, HostTypes
    <3>3. host'.sent = host.sent /\ host'.byte = host.byte + 1 /\ host'.script = host.script
      BY <1>1, <1>2, <2>3
    <3>4. host'.byte < Len(Wire(host'.script[host'.sent + 1]))
      BY <2>3, <3>1, <3>2, <3>3, HostTypes
    <3>. QED  BY <3>4 DEF HostInPlace
  <2>. QED  BY <2>1, <2>2, <2>3, SentType
<1>. QED  BY <1>2, <1>3, <1>4

(* The head of a queue of bytes, and what the parser makes of a byte.       *)
LEMMA HeadByte ==
  ASSUME NEW S, NEW queue \in Seq(S), queue # <<>>  PROVE Head(queue) \in S
BY HeadTailProperties

LEMMA ParsedType ==
  ASSUME parser \in ParserState, NEW b \in Bytes, ~ Emitted
  PROVE  Parsed(b) \in ParserState
<1>1. b.n \in Nat
  BY DEF Bytes
<1>2. Covered(b) \in Seq(Bytes) /\ Append(parser.payload, b) \in Seq(Bytes)
  BY <1>1, AppendProperties DEF Covered, ParserState
<1>. DEFINE covered == Covered(b)
            longer  == Append(parser.payload, b)
<1>3. /\ covered \in Seq(Bytes) /\ longer \in Seq(Bytes)
      /\ <<>> \in Seq(Bytes)
  BY <1>2, EmptySeq
<1>4. CASE parser.st = "SOF"
  <2>1. \/ Parsed(b) = [parser EXCEPT !.st = "VER", !.payload = <<>>, !.crc = <<>>]
        \/ Parsed(b) = [[parser EXCEPT !.st = "EMIT", !.error = "BAD_SOF"] EXCEPT !.payload = <<>>, !.crc = <<>>]
    BY <1>4 DEF Parsed, Fail
  <2>2. /\ [parser EXCEPT !.st = "VER", !.payload = <<>>, !.crc = <<>>] \in ParserState
        /\ [[parser EXCEPT !.st = "EMIT", !.error = "BAD_SOF"] EXCEPT !.payload = <<>>, !.crc = <<>>] \in ParserState
    BY <1>3 DEF ParserState, Statuses
  <2>. QED  BY <2>1, <2>2
<1>. HIDE DEF covered, longer
<1>5. CASE parser.st = "VER"
  <2>1. \/ Parsed(b) = [parser EXCEPT !.st = "SEQ", !.crc = covered]
        \/ Parsed(b) = [parser EXCEPT !.st = "EMIT", !.error = "BAD_VERSION"]
    BY <1>5 DEF Parsed, Fail, covered
  <2>2. /\ [parser EXCEPT !.st = "SEQ", !.crc = covered] \in ParserState
        /\ [parser EXCEPT !.st = "EMIT", !.error = "BAD_VERSION"] \in ParserState
    BY <1>3 DEF ParserState, Statuses
  <2>. QED  BY <2>1, <2>2
<1>6. CASE parser.st = "SEQ"
  <2>1. Parsed(b) = [parser EXCEPT !.st = "CMD", !.seq = b.n, !.crc = covered]
    BY <1>6 DEF Parsed, covered
  <2>2. [parser EXCEPT !.st = "CMD", !.seq = b.n, !.crc = covered] \in ParserState
    BY <1>1, <1>3 DEF ParserState
  <2>. QED  BY <2>1, <2>2
<1>7. CASE parser.st = "CMD"
  <2>1. Parsed(b) = [parser EXCEPT !.st = "LEN", !.cmd = b.n, !.crc = covered]
    BY <1>7 DEF Parsed, covered
  <2>2. [parser EXCEPT !.st = "LEN", !.cmd = b.n, !.crc = covered] \in ParserState
    BY <1>1, <1>3 DEF ParserState
  <2>. QED  BY <2>1, <2>2
<1>8. CASE parser.st = "LEN"
  <2>1. \/ Parsed(b) = [[parser EXCEPT !.st = "EMIT", !.error = "BAD_LEN"] EXCEPT !.len = b.n]
        \/ Parsed(b) = [parser EXCEPT !.len = b.n, !.crc = covered, !.st = "CRC0"]
        \/ Parsed(b) = [parser EXCEPT !.len = b.n, !.crc = covered, !.st = "PAYLOAD"]
    BY <1>8 DEF Parsed, Fail, covered
  <2>2. /\ [[parser EXCEPT !.st = "EMIT", !.error = "BAD_LEN"] EXCEPT !.len = b.n] \in ParserState
        /\ [parser EXCEPT !.len = b.n, !.crc = covered, !.st = "CRC0"] \in ParserState
        /\ [parser EXCEPT !.len = b.n, !.crc = covered, !.st = "PAYLOAD"] \in ParserState
    BY <1>1, <1>3 DEF ParserState, Statuses
  <2>. QED  BY <2>1, <2>2
<1>9. CASE parser.st = "PAYLOAD"
  <2>1. \/ Parsed(b) = [parser EXCEPT !.payload = longer, !.crc = covered, !.st = "CRC0"]
        \/ Parsed(b) = [parser EXCEPT !.payload = longer, !.crc = covered, !.st = parser.st]
    BY <1>9 DEF Parsed, covered, longer
  <2>2. /\ [parser EXCEPT !.payload = longer, !.crc = covered, !.st = "CRC0"] \in ParserState
        /\ [parser EXCEPT !.payload = longer, !.crc = covered, !.st = parser.st] \in ParserState
    BY <1>3 DEF ParserState
  <2>. QED  BY <2>1, <2>2
<1>10. CASE parser.st = "CRC0"
  <2>1. Parsed(b) = [parser EXCEPT !.st = "CRC1", !.low = b]
    BY <1>10 DEF Parsed
  <2>2. [parser EXCEPT !.st = "CRC1", !.low = b] \in ParserState
    BY DEF ParserState
  <2>. QED  BY <2>1, <2>2
<1>11. CASE parser.st = "CRC1"
  <2>1. \/ Parsed(b) = [parser EXCEPT !.st = "EMIT"]
        \/ Parsed(b) = [parser EXCEPT !.st = "EMIT", !.error = "BAD_CRC"]
    BY <1>11 DEF Parsed, Fail
  <2>2. /\ [parser EXCEPT !.st = "EMIT"] \in ParserState
        /\ [parser EXCEPT !.st = "EMIT", !.error = "BAD_CRC"] \in ParserState
    BY DEF ParserState, Statuses
  <2>. QED  BY <2>1, <2>2
<1>. QED  BY <1>4, <1>5, <1>6, <1>7, <1>8, <1>9, <1>10, <1>11 DEF ParserState, Emitted

LEMMA ParseTypes ==
  ASSUME TypeInv, Parse
  PROVE  /\ parser' \in ParserState
         /\ rxFifo' \in Seq(Bytes) /\ Len(rxFifo') <= RxDepth
<1>1. /\ parser \in ParserState /\ rxFifo \in Seq(Bytes) /\ Len(rxFifo) <= RxDepth
      /\ line \in Seq(Bytes) /\ Len(line) <= 1
  BY DEF TypeInv, DapTypeOK
<1>2. rxFifo' \in Seq(Bytes) /\ Len(rxFifo') <= RxDepth
  <2>1. (~ Emitted /\ rxFifo # <<>>) \in BOOLEAN /\ RxDepth \in Nat
    BY DapAssumption
  <2>. QED  BY <1>1, <2>1, FifoType DEF Parse
<1>3. CASE CmdEvent
  <2>1. parser' = [parser EXCEPT !.st = "SOF", !.crc = <<>>, !.error = "OK"]
    BY <1>3 DEF Parse
  <2>2. [parser EXCEPT !.st = "SOF", !.crc = <<>>, !.error = "OK"] \in ParserState
    BY <1>1, EmptySeq DEF ParserState, Statuses
  <2>. QED  BY <1>2, <2>1, <2>2
<1>4. CASE ~ CmdEvent /\ ~ Emitted /\ rxFifo # <<>>
  BY <1>1, <1>2, <1>4, HeadByte, ParsedType DEF Parse
<1>5. CASE ~ CmdEvent /\ ~ (~ Emitted /\ rxFifo # <<>>)
  BY <1>1, <1>2, <1>5 DEF Parse
<1>. QED  BY <1>3, <1>4, <1>5

LEMMA TransmitTypes ==
  ASSUME TypeInv, Transmit
  PROVE  /\ txFifo' \in Seq(TxBytes) /\ Len(txFifo') <= TxDepth
         /\ tx' \in [busy : 0..ByteTime, byte : Seq(TxBytes)] /\ Len(tx'.byte) <= 1
         /\ tx'.busy > 0 <=> tx'.byte # <<>>
<1>. DEFINE start == txFifo # <<>> /\ ~ TxBusy
            push  == IF resp.active THEN <<[answer |-> resp.answer, idx |-> resp.idx]>> ELSE <<>>
<1>1. /\ txFifo \in Seq(TxBytes) /\ Len(txFifo) <= TxDepth
      /\ tx \in [busy : 0..ByteTime, byte : Seq(TxBytes)] /\ Len(tx.byte) <= 1
      /\ tx.busy > 0 <=> tx.byte # <<>>
      /\ ByteTime \in Nat \ {0} /\ TxDepth \in Nat
  BY DapAssumption DEF TypeInv, DapTypeOK
<1>2. push \in Seq(TxBytes) /\ Len(push) <= 1
  <2>1. CASE resp.active
    <3>1. [answer |-> resp.answer, idx |-> resp.idx] \in TxBytes
      BY <2>1 DEF TypeInv, DapTypeOK, TxBytes
    <3>. QED  BY <2>1, <3>1
  <2>2. CASE ~ resp.active
    BY <2>2, EmptySeq
  <2>. QED  BY <2>1, <2>2
<1>3. txFifo' = Fifo(txFifo, TxDepth, push, start)
  BY DEF Transmit
<1>4. txFifo' \in Seq(TxBytes) /\ Len(txFifo') <= TxDepth
  <2>1. start \in BOOLEAN /\ (start => txFifo # <<>>)
    OBVIOUS
  <2>. HIDE DEF start, push
  <2>. QED  BY <1>1, <1>2, <1>3, <2>1, FifoType
<1>5. CASE start
  <2>1. tx' = [busy |-> ByteTime, byte |-> <<Head(txFifo)>>]
    BY <1>5 DEF Transmit
  <2>2. Head(txFifo) \in TxBytes
    BY <1>1, <1>5, HeadByte
  <2>. QED  BY <1>1, <1>4, <2>1, <2>2
<1>6. CASE ~ start /\ tx.busy > 1
  <2>1. tx' = [tx EXCEPT !.busy = tx.busy - 1]
    BY <1>6 DEF Transmit
  <2>. QED  BY <1>1, <1>4, <1>6, <2>1
<1>7. CASE ~ start /\ ~ (tx.busy > 1)
  <2>1. tx' = [busy |-> 0, byte |-> <<>>]
    BY <1>7 DEF Transmit
  <2>. QED  BY <1>1, <1>4, <2>1
<1>. QED  BY <1>5, <1>6, <1>7

LEMMA ChunkTypes ==
  ASSUME TypeInv, Chunk
  PROVE  writer' \in WriterState /\ rom' \in [0..(RomSize - 1) -> Nat]
<1>1. /\ writer \in WriterState /\ rom \in [0..(RomSize - 1) -> Nat]
      /\ parser.payload \in Seq(Bytes) /\ SeqSpace \in Nat \ {0}
  BY DapAssumption DEF TypeInv, DapTypeOK, ParserState
<1>2. ASSUME NEW d \in BOOLEAN  PROVE [writer EXCEPT !.done = d, !.index = 0] \in WriterState
  BY <1>1 DEF WriterState
<1>. DEFINE next == writer.index + 1
            moved == [writer EXCEPT !.index = next]
<1>8. moved \in WriterState
  <2>1. next \in Nat
    BY <1>1 DEF WriterState
  <2>. HIDE DEF next
  <2>. QED  BY <1>1, <2>1 DEF WriterState
<1>3. CASE writer.st = "IDLE" /\ ~ engine.chunk
  BY <1>1, <1>2, <1>3 DEF Chunk
<1>4. CASE writer.st = "IDLE" /\ engine.chunk
  <2>. DEFINE payload == parser.payload
              badSeq == parser.seq # writer.seq
              badLen == ChunkLen(payload) = 0 \/ ChunkLen(payload) > MaxChunk
              badCrc == ~ badSeq /\ badLen
              st == IF badSeq \/ badLen THEN "RESP" ELSE "CRC"
  <2>1. /\ writer' = [writer EXCEPT !.done = FALSE, !.index = 0, !.payload = payload,
                        !.badSeq = badSeq, !.badCrc = badCrc, !.st = st]
        /\ rom' = rom
    BY <1>4 DEF Chunk
  <2>2. badSeq \in BOOLEAN /\ badCrc \in BOOLEAN /\ st \in {"CRC", "RESP"} /\ payload \in Seq(Bytes)
    BY <1>1
  <2>. HIDE DEF badSeq, badLen, badCrc, st, payload
  <2>3. [writer EXCEPT !.done = FALSE, !.index = 0, !.payload = payload,
                       !.badSeq = badSeq, !.badCrc = badCrc, !.st = st] \in WriterState
    BY <1>1, <2>2 DEF WriterState
  <2>. QED  BY <1>1, <2>1, <2>3
<1>5. CASE writer.st = "CRC"
  <2>1. \/ writer' = moved
        \/ writer' = [writer EXCEPT !.index = 0, !.st = "WRITE"]
        \/ writer' = [writer EXCEPT !.index = 0, !.badCrc = TRUE, !.st = "RESP"]
    BY <1>5 DEF Chunk
  <2>2. /\ [writer EXCEPT !.index = 0, !.st = "WRITE"] \in WriterState
        /\ [writer EXCEPT !.index = 0, !.badCrc = TRUE, !.st = "RESP"] \in WriterState
    BY <1>1 DEF WriterState
  <2>3. rom' = rom
    BY <1>5 DEF Chunk
  <2>. QED  BY <1>1, <1>8, <2>1, <2>2, <2>3
<1>6. CASE writer.st = "WRITE"
  <2>. DEFINE seq == (writer.seq + 1) % SeqSpace
              byte == ChunkByte(writer.payload, writer.index + 1)
              at == (ChunkOffset(writer.payload) + writer.index) % RomSize
  <2>1. /\ rom' = [rom EXCEPT ![at] = byte]
        /\ \/ writer' = [writer EXCEPT !.seq = seq, !.st = "RESP"]
           \/ writer' = moved
    BY <1>6 DEF Chunk
  <2>2. seq \in 0..(SeqSpace - 1)
    BY <1>1 DEF WriterState
  <2>3. byte \in Nat
    BY <1>1, ByteType DEF WriterState, ChunkByte
  <2>. HIDE DEF seq, byte, at
  <2>4. [writer EXCEPT !.seq = seq, !.st = "RESP"] \in WriterState
    BY <1>1, <2>2 DEF WriterState
  <2>5. [rom EXCEPT ![at] = byte] \in [0..(RomSize - 1) -> Nat]
    BY <1>1, <2>3
  <2>. QED  BY <1>8, <2>1, <2>4, <2>5
<1>7. CASE writer.st = "RESP"
  <2>1. writer' = [writer EXCEPT !.done = TRUE, !.st = "IDLE"] /\ rom' = rom
    BY <1>7 DEF Chunk
  <2>2. [writer EXCEPT !.done = TRUE, !.st = "IDLE"] \in WriterState
    BY <1>1 DEF WriterState
  <2>. QED  BY <1>1, <2>1, <2>2
<1>. QED  BY <1>1, <1>3, <1>4, <1>5, <1>6, <1>7 DEF WriterState

LEMMA PortTypes ==
  ASSUME TypeInv, Port
  PROVE  skid' \in [aw : Seq(Nat), w : Seq(Nat), ar : Seq(Nat)] /\ bridge' \in BridgeState'
<1>1. /\ skid \in [aw : Seq(Nat), w : Seq(Nat), ar : Seq(Nat)] /\ bridge \in BridgeState
      /\ Bus \in [aw : Seq(Nat), w : Seq(Nat), ar : Seq(Nat)]
  BY DEF TypeInv, DapTypeOK, EngineState, Bus
<1>2. skid' \in [aw : Seq(Nat), w : Seq(Nat), ar : Seq(Nat)]
  BY <1>1 DEF Port, Axi!Skids
<1>3. Axi!Address \in Seq(Nat) /\ Axi!Data \in Seq(Nat)
  BY <1>1 DEF Axi!Address, Axi!Data, BridgeState
<1>4. CASE Axi!Join
  BY <1>1, <1>2, <1>3, <1>4 DEF Axi!Join, BridgeState
<1>5. CASE Axi!TakeRead
  BY <1>1, <1>2, <1>5 DEF Axi!TakeRead, BridgeState
<1>6. CASE Axi!Collect
  BY <1>1, <1>2, <1>3, <1>6 DEF Axi!Collect, BridgeState
<1>7. CASE Axi!PerformWrite
  BY <1>1, <1>2, <1>7 DEF Axi!PerformWrite, BridgeState
<1>8. CASE Axi!PerformRead
  BY <1>1, <1>2, <1>8 DEF Axi!PerformRead, BridgeState
<1>9. CASE Axi!Close
  BY <1>1, <1>2, <1>9, EmptySeq DEF Axi!Close, BridgeState
<1>10. CASE Axi!Hold
  BY <1>1, <1>2, <1>10 DEF Axi!Hold, BridgeState
<1>. QED  BY <1>4, <1>5, <1>6, <1>7, <1>8, <1>9, <1>10 DEF Port

-----------------------------------------------------------------------------
(* What a step of the engine can be, in terms of what the other parts see.  *)
Kept(e)    == e.aw = Base.aw /\ e.w = Base.w /\ e.timeout = Base.timeout
Cleared(e) == Kept(e) /\ e.ar = Base.ar /\ ~ e.bready /\ ~ e.rready /\ ~ e.chunk
Replies(a) == /\ resp' = [active |-> TRUE, answer |-> a, idx |-> 0]
              /\ begun' = Append(begun, a) /\ Len(a.payload) \in 0..Len(Identity)

Idles    == /\ engine'.st = "IDLE" /\ Cleared(engine') /\ NoResponse
            /\ engine'.unlocked = engine.unlocked
Answers  == CmdEvent /\ engine'.st = "RESP" /\ Cleared(engine') /\ \E a : Replies(a)
Reads    == /\ CmdEvent /\ engine'.st = "AXI_READ" /\ NoResponse /\ Kept(engine')
            /\ engine'.ar # <<>> /\ engine'.rready /\ ~ engine'.bready /\ ~ engine'.chunk
Writes   == /\ CmdEvent /\ engine'.st = "AXI_WRITE" /\ NoResponse /\ engine'.unlocked
            /\ engine'.aw # <<>> /\ engine'.w # <<>> /\ engine'.ar = Base.ar
            /\ engine'.bready /\ ~ engine'.rready /\ ~ engine'.chunk
            /\ engine'.timeout = Base.timeout
Loads    == /\ CmdEvent /\ engine'.st = "ROM_WAIT" /\ NoResponse /\ engine'.unlocked
            /\ Kept(engine') /\ engine'.ar = Base.ar /\ ~ engine'.bready /\ ~ engine'.rready
            /\ engine'.chunk
Waits    == /\ engine' = Base /\ NoResponse
            /\ \/ engine.st = "AXI_WRITE" /\ ~ bridge.b
               \/ engine.st = "AXI_READ" /\ bridge.r = <<>>
               \/ engine.st = "ROM_WAIT" /\ ~ writer.done
Finishes == /\ engine'.st = "RESP" /\ Kept(engine') /\ engine'.ar = Base.ar /\ ~ engine'.chunk
            /\ \E a : Replies(a)
            /\ \/ /\ engine.st = "AXI_WRITE" /\ bridge.b
                  /\ ~ engine'.bready /\ engine'.rready = engine.rready
               \/ /\ engine.st = "AXI_READ" /\ bridge.r # <<>>
                  /\ ~ engine'.rready /\ engine'.bready = engine.bready
               \/ /\ engine.st = "ROM_WAIT" /\ writer.done
                  /\ engine'.rready = engine.rready /\ engine'.bready = engine.bready
Returns  == /\ engine.st \in {"RESP", "ERROR"} /\ NoResponse
            /\ engine' = [Base EXCEPT !.st = engine'.st]
            /\ engine'.st = IF ~ resp.active /\ ~ TxBusy THEN "IDLE" ELSE engine.st

LEMMA BaseFacts ==
  ASSUME TypeInv
  PROVE  /\ Base \in EngineState
         /\ Base.st = engine.st /\ Base.unlocked = engine.unlocked /\ Base.seq = engine.seq
         /\ Base.bready = engine.bready /\ Base.rready = engine.rready
         /\ ~ Base.chunk /\ ~ Base.release
         /\ Base.aw = (IF Axi!AwTaken THEN <<>> ELSE engine.aw)
         /\ Base.w  = (IF Axi!WTaken THEN <<>> ELSE engine.w)
         /\ Base.ar = (IF Axi!ArTaken THEN <<>> ELSE engine.ar)
         /\ Base.timeout = (IF engine.st = "IDLE" THEN 0
                            ELSE IF engine.timeout < TimeoutCycles THEN engine.timeout + 1
                            ELSE engine.timeout)
<1>. DEFINE aw == IF Axi!AwTaken THEN <<>> ELSE engine.aw
            w  == IF Axi!WTaken THEN <<>> ELSE engine.w
            ar == IF Axi!ArTaken THEN <<>> ELSE engine.ar
            timeout == IF engine.st = "IDLE" THEN 0
                       ELSE IF engine.timeout < TimeoutCycles THEN engine.timeout + 1
                       ELSE engine.timeout
<1>1. engine \in EngineState /\ TimeoutCycles \in Nat
  BY DapAssumption DEF TypeInv, DapTypeOK
<1>2. /\ aw \in Seq(Nat) /\ w \in Seq(Nat) /\ ar \in Seq(Nat) /\ timeout \in 0..TimeoutCycles
  BY <1>1, EmptySeq DEF EngineState
<1>3. Base = [engine EXCEPT !.aw = aw, !.w = w, !.ar = ar, !.chunk = FALSE,
                           !.release = FALSE, !.timeout = timeout]
  BY DEF Base
<1>. HIDE DEF aw, w, ar, timeout
<1>4. [engine EXCEPT !.aw = aw, !.w = w, !.ar = ar, !.chunk = FALSE,
                    !.release = FALSE, !.timeout = timeout] \in EngineState
  BY <1>1, <1>2 DEF EngineState
<1>5. /\ Base.st = engine.st /\ Base.unlocked = engine.unlocked /\ Base.seq = engine.seq
      /\ Base.bready = engine.bready /\ Base.rready = engine.rready
      /\ Base.chunk = FALSE /\ Base.release = FALSE
      /\ Base.aw = aw /\ Base.w = w /\ Base.ar = ar /\ Base.timeout = timeout
  BY <1>1, <1>3 DEF EngineState
<1>. QED  BY <1>3, <1>4, <1>5 DEF aw, w, ar, timeout

LEMMA AnsweredFacts ==
  ASSUME TypeInv
  PROVE  /\ Answered \in EngineState /\ Answered.st = "RESP" /\ Cleared(Answered)
         /\ Answered.unlocked = engine.unlocked /\ ~ Answered.release
         /\ Started \in EngineState /\ Started.st = "IDLE" /\ Cleared(Started)
         /\ Started.unlocked = engine.unlocked /\ ~ Started.release
<1>1. /\ Base \in EngineState /\ Base.unlocked = engine.unlocked /\ parser.seq \in Nat
      /\ ~ Base.chunk /\ ~ Base.release
  BY BaseFacts DEF TypeInv, DapTypeOK, ParserState
<1>2. Answered \in EngineState
  BY <1>1 DEF Answered, EngineState
<1>3. Started \in EngineState
  BY <1>2 DEF Started, EngineState
<1>4. /\ Answered.st = "RESP" /\ Cleared(Answered) /\ Answered.unlocked = engine.unlocked
      /\ ~ Answered.release
  BY <1>1 DEF Answered, EngineState, Cleared, Kept
<1>5. /\ Started.st = "IDLE" /\ Cleared(Started) /\ Started.unlocked = engine.unlocked
      /\ ~ Started.release
  BY <1>2, <1>4 DEF Started, EngineState, Cleared, Kept
<1>. QED  BY <1>2, <1>3, <1>4, <1>5

LEMMA ShortReply ==
  ASSUME NEW seq, NEW status, NEW payload, Len(payload) \in 0..4, Respond(seq, status, payload)
  PROVE  \E a : Replies(a)
<1>. DEFINE a == Answer(seq, status, payload)
<1>1. a.payload = payload /\ Len(Identity) = 4
  BY DEF Answer, Identity
<1>2. Replies(a)
  BY <1>1 DEF Respond, Replies
<1>. QED  BY <1>2

LEMMA ArgTypes ==
  ASSUME TypeInv  PROVE Arg(1).n \in Nat /\ Arg(2).n \in Nat
BY ByteType DEF TypeInv, DapTypeOK, ParserState, Arg

LEMMA RefusedCase ==
  ASSUME TypeInv, CmdEvent, NEW status, Refused(status)
  PROVE  engine' \in EngineState /\ Answers
<1>1. Respond(parser.seq, status, <<>>) /\ engine' = Answered
  BY DEF Refused, Reply
<1>2. \E a : Replies(a)
  BY <1>1, ShortReply
<1>. QED  BY <1>1, <1>2, AnsweredFacts DEF Answers

LEMMA CommandCases ==
  ASSUME TypeInv, Command
  PROVE  /\ engine' \in EngineState /\ engine.st = "IDLE"
         /\ Idles \/ Answers \/ Reads \/ Writes \/ Loads
<1>1. NoCommand => engine' \in EngineState /\ engine.st = "IDLE" /\ Idles
  <2>. SUFFICES ASSUME NoCommand PROVE engine' \in EngineState /\ engine.st = "IDLE" /\ Idles
    OBVIOUS
  <2>1. engine' = [Base EXCEPT !.bready = FALSE, !.rready = FALSE] /\ engine.st = "IDLE" /\ NoResponse
    BY DEF NoCommand
  <2>2. [Base EXCEPT !.bready = FALSE, !.rready = FALSE] \in EngineState
    BY BaseFacts DEF EngineState
  <2>3. /\ engine'.st = "IDLE" /\ engine'.unlocked = engine.unlocked
        /\ ~ engine'.bready /\ ~ engine'.rready /\ ~ engine'.chunk
        /\ engine'.aw = Base.aw /\ engine'.w = Base.w /\ engine'.ar = Base.ar
        /\ engine'.timeout = Base.timeout
    BY <2>1, BaseFacts DEF EngineState
  <2>. QED  BY <2>1, <2>2, <2>3 DEF Idles, Cleared, Kept
<1>2. CmdEvent => engine.st = "IDLE"
  BY DEF CmdEvent
<1>3. ASSUME CmdEvent, engine' = Answered, NEW status, NEW payload, Len(payload) \in 0..4,
             Reply(status, payload)
      PROVE  engine' \in EngineState /\ Answers
  <2>1. \E a : Replies(a)
    BY <1>3, ShortReply DEF Reply
  <2>. QED  BY <1>3, <2>1, AnsweredFacts DEF Answers
<1>4. BadPacket \/ Unknown => engine' \in EngineState /\ CmdEvent /\ Answers
  BY RefusedCase DEF BadPacket, Unknown
<1>5. Ping => engine' \in EngineState /\ CmdEvent /\ Answers
  BY <1>3 DEF Ping, Given
<1>6. Ident => engine' \in EngineState /\ CmdEvent /\ Answers
  <2>1. Len(Identity) \in 0..4
    BY DEF Identity
  <2>. QED  BY <1>3, <2>1 DEF Ident, Given
<1>7. Status => engine' \in EngineState /\ CmdEvent /\ Answers
  <2>1. Len(<<IF engine.unlocked THEN 0 ELSE 1, writer.seq>>) \in 0..4
    OBVIOUS
  <2>. QED  BY <1>3, <2>1 DEF Status, Given
<1>8. ASSUME CmdEvent, NEW e, engine' = e, e \in EngineState, e.st = "RESP", Cleared(e),
             NEW status, Reply(status, <<>>)
      PROVE  engine' \in EngineState /\ Answers
  <2>1. \E a : Replies(a)
    BY <1>8, ShortReply DEF Reply
  <2>. QED  BY <1>8, <2>1 DEF Answers
<1>9. Unlock => engine' \in EngineState /\ CmdEvent /\ Answers
  <2>. SUFFICES ASSUME Unlock PROVE engine' \in EngineState /\ CmdEvent /\ Answers
    OBVIOUS
  <2>. DEFINE right == parser.len = KeyLen /\ Arg(1) = Key
              e     == [Answered EXCEPT !.unlocked = right]
              status == IF right THEN "OK" ELSE "LOCKED"
  <2>1. engine' = e /\ Reply(status, <<>>) /\ CmdEvent
    BY DEF Unlock, Given
  <2>2. right \in BOOLEAN
    OBVIOUS
  <2>3. e \in EngineState /\ e.st = "RESP" /\ Cleared(e)
    <3>. HIDE DEF right
    <3>. QED  BY <2>2, AnsweredFacts DEF EngineState, Cleared, Kept
  <2>. HIDE DEF e, status
  <2>. QED  BY <1>8, <2>1, <2>3
<1>10. Lock => engine' \in EngineState /\ CmdEvent /\ Answers
  <2>. SUFFICES ASSUME Lock PROVE engine' \in EngineState /\ CmdEvent /\ Answers
    OBVIOUS
  <2>. DEFINE e == [Answered EXCEPT !.unlocked = FALSE, !.hold = FALSE]
  <2>1. engine' = e /\ Reply("OK", <<>>) /\ CmdEvent
    BY DEF Lock, Given
  <2>2. e \in EngineState /\ e.st = "RESP" /\ Cleared(e)
    BY AnsweredFacts DEF EngineState, Cleared, Kept
  <2>. HIDE DEF e
  <2>. QED  BY <1>8, <2>1, <2>2
<1>11. HoldCore => engine' \in EngineState /\ CmdEvent /\ Answers
  <2>. SUFFICES ASSUME HoldCore PROVE engine' \in EngineState /\ CmdEvent /\ Answers
    OBVIOUS
  <2>. DEFINE one == (Arg(1).n % 2 = 1)
              let == ~ one
              e == [Answered EXCEPT !.hold = one, !.release = let]
  <2>1. /\ CmdEvent
        /\ \/ Refused("LOCKED") \/ Refused("BAD_LEN")
           \/ engine' = e /\ Reply("OK", <<>>)
    BY DEF HoldCore, Given
  <2>2. e \in EngineState /\ e.st = "RESP" /\ Cleared(e)
    <3>1. one \in BOOLEAN /\ let \in BOOLEAN
      OBVIOUS
    <3>. HIDE DEF one, let
    <3>. QED  BY <3>1, AnsweredFacts DEF EngineState, Cleared, Kept
  <2>. HIDE DEF e
  <2>. QED  BY <1>8, <2>1, <2>2, RefusedCase
<1>12. Read32 => engine' \in EngineState /\ CmdEvent /\ (Answers \/ Reads)
  <2>. SUFFICES ASSUME Read32 PROVE engine' \in EngineState /\ CmdEvent /\ (Answers \/ Reads)
    OBVIOUS
  <2>. DEFINE ar == <<Arg(1).n>>
              e == [Started EXCEPT !.st = "AXI_READ", !.ar = ar, !.rready = TRUE]
  <2>1. CmdEvent /\ (Refused("BAD_LEN") \/ (engine' = e /\ NoResponse))
    BY DEF Read32, Given
  <2>2. ar \in Seq(Nat) /\ ar # <<>>
    BY ArgTypes
  <2>. HIDE DEF ar
  <2>3. /\ e \in EngineState /\ e.st = "AXI_READ" /\ e.ar = ar /\ e.rready = TRUE
        /\ ~ e.bready /\ ~ e.chunk /\ Kept(e)
    BY <2>2, AnsweredFacts DEF EngineState, Cleared, Kept
  <2>. HIDE DEF e
  <2>4. engine' = e /\ NoResponse => Reads
    BY <2>1, <2>2, <2>3 DEF Reads
  <2>. QED  BY <2>1, <2>3, <2>4, RefusedCase
<1>13. Write32 => engine' \in EngineState /\ CmdEvent /\ (Answers \/ Writes)
  <2>. SUFFICES ASSUME Write32 PROVE engine' \in EngineState /\ CmdEvent /\ (Answers \/ Writes)
    OBVIOUS
  <2>. DEFINE aw == <<Arg(1).n>>
              w == <<Arg(2).n>>
              e == [Started EXCEPT !.st = "AXI_WRITE", !.aw = aw, !.w = w, !.bready = TRUE]
  <2>1. /\ CmdEvent
        /\ \/ Refused("LOCKED") \/ Refused("BAD_LEN")
           \/ engine.unlocked /\ engine' = e /\ NoResponse
    BY DEF Write32, Given
  <2>2. aw \in Seq(Nat) /\ aw # <<>> /\ w \in Seq(Nat) /\ w # <<>>
    BY ArgTypes
  <2>. HIDE DEF aw, w
  <2>3. /\ e \in EngineState /\ e.st = "AXI_WRITE" /\ e.aw = aw /\ e.w = w /\ e.ar = Base.ar
        /\ e.unlocked = engine.unlocked /\ e.timeout = Base.timeout
        /\ e.bready = TRUE /\ ~ e.rready /\ ~ e.chunk
    BY <2>2, AnsweredFacts DEF EngineState, Cleared, Kept
  <2>. HIDE DEF e
  <2>4. engine.unlocked /\ engine' = e /\ NoResponse => Writes
    BY <2>1, <2>2, <2>3 DEF Writes
  <2>. QED  BY <2>1, <2>3, <2>4, RefusedCase
<1>14. RomWrite => engine' \in EngineState /\ CmdEvent /\ (Answers \/ Loads)
  <2>. SUFFICES ASSUME RomWrite PROVE engine' \in EngineState /\ CmdEvent /\ (Answers \/ Loads)
    OBVIOUS
  <2>. DEFINE e == [Started EXCEPT !.st = "ROM_WAIT", !.chunk = TRUE]
  <2>1. /\ CmdEvent
        /\ \/ Refused("LOCKED") \/ Refused("BAD_LEN") \/ Refused("BUSY")
           \/ engine.unlocked /\ engine' = e /\ NoResponse
    BY DEF RomWrite, Given
  <2>2. /\ e \in EngineState /\ e.st = "ROM_WAIT" /\ e.chunk = TRUE /\ Kept(e) /\ e.ar = Base.ar
        /\ e.unlocked = engine.unlocked /\ ~ e.bready /\ ~ e.rready
    BY AnsweredFacts DEF EngineState, Cleared, Kept
  <2>. HIDE DEF e
  <2>3. engine.unlocked /\ engine' = e /\ NoResponse => Loads
    BY <2>1, <2>2 DEF Loads
  <2>. QED  BY <2>1, <2>2, <2>3, RefusedCase
<1>. QED  BY <1>1, <1>2, <1>4, <1>5, <1>6, <1>7, <1>9, <1>10, <1>11, <1>12, <1>13, <1>14 DEF Command

LEMMA WorkCases ==
  ASSUME TypeInv, Work
  PROVE  engine' \in EngineState /\ engine.st # "IDLE" /\ (Waits \/ Finishes \/ Returns)
<1>1. /\ Finished \in EngineState /\ Finished.st = "RESP" /\ Kept(Finished)
      /\ Finished.ar = Base.ar /\ ~ Finished.chunk
      /\ Finished.bready = engine.bready /\ Finished.rready = engine.rready
  BY BaseFacts DEF Finished, EngineState, Kept
<1>2. ASSUME NEW seq, NEW status, NEW payload, Len(payload) \in 0..1, Respond(seq, status, payload)
      PROVE  \E a : Replies(a)
  BY <1>2, ShortReply
<1>3. BusWrite => engine' \in EngineState /\ engine.st # "IDLE" /\ (Waits \/ Finishes)
  <2>. SUFFICES ASSUME BusWrite
                PROVE  engine' \in EngineState /\ engine.st # "IDLE" /\ (Waits \/ Finishes)
    OBVIOUS
  <2>1. engine.st = "AXI_WRITE"
    BY DEF BusWrite
  <2>2. CASE ~ bridge.b /\ engine' = Base /\ NoResponse
    BY <2>1, <2>2, BaseFacts DEF Waits
  <2>3. CASE /\ bridge.b /\ engine' = [Finished EXCEPT !.bready = FALSE]
             /\ Respond(engine.seq, "OK", <<>>)
    <3>1. [Finished EXCEPT !.bready = FALSE] \in EngineState
      BY <1>1 DEF EngineState
    <3>2. /\ engine'.st = "RESP" /\ Kept(engine') /\ engine'.ar = Base.ar /\ ~ engine'.chunk
          /\ ~ engine'.bready /\ engine'.rready = engine.rready
      BY <1>1, <2>3 DEF EngineState, Kept
    <3>3. \E a : Replies(a)
      BY <1>2, <2>3
    <3>. QED  BY <2>1, <2>3, <3>1, <3>2, <3>3 DEF Finishes
  <2>. QED  BY <2>2, <2>3 DEF BusWrite
<1>4. BusRead => engine' \in EngineState /\ engine.st # "IDLE" /\ (Waits \/ Finishes)
  <2>. SUFFICES ASSUME BusRead
                PROVE  engine' \in EngineState /\ engine.st # "IDLE" /\ (Waits \/ Finishes)
    OBVIOUS
  <2>1. engine.st = "AXI_READ"
    BY DEF BusRead
  <2>2. CASE bridge.r = <<>> /\ engine' = Base /\ NoResponse
    BY <2>1, <2>2, BaseFacts DEF Waits
  <2>3. CASE /\ bridge.r # <<>> /\ engine' = [Finished EXCEPT !.rready = FALSE]
             /\ Respond(engine.seq, "OK", <<bridge.r[1].val>>)
    <3>1. [Finished EXCEPT !.rready = FALSE] \in EngineState
      BY <1>1 DEF EngineState
    <3>2. /\ engine'.st = "RESP" /\ Kept(engine') /\ engine'.ar = Base.ar /\ ~ engine'.chunk
          /\ ~ engine'.rready /\ engine'.bready = engine.bready
      BY <1>1, <2>3 DEF EngineState, Kept
    <3>3. \E a : Replies(a)
      BY <1>2, <2>3
    <3>. QED  BY <2>1, <2>3, <3>1, <3>2, <3>3 DEF Finishes
  <2>. QED  BY <2>2, <2>3 DEF BusRead
<1>5. RomWait => engine' \in EngineState /\ engine.st # "IDLE" /\ (Waits \/ Finishes)
  <2>. SUFFICES ASSUME RomWait
                PROVE  engine' \in EngineState /\ engine.st # "IDLE" /\ (Waits \/ Finishes)
    OBVIOUS
  <2>1. engine.st = "ROM_WAIT"
    BY DEF RomWait
  <2>2. CASE ~ writer.done /\ engine' = Base /\ NoResponse
    BY <2>1, <2>2, BaseFacts DEF Waits
  <2>3. CASE writer.done /\ engine' = Finished
    <3>1. \/ Respond(engine.seq, "BAD_SEQ", <<writer.seq>>)
          \/ Respond(engine.seq, "ROM_CRC", <<>>) \/ Respond(engine.seq, "OK", <<>>)
      BY <2>1, <2>3 DEF RomWait
    <3>2. \E a : Replies(a)
      BY <1>2, <3>1
    <3>. QED  BY <1>1, <2>1, <2>3, <3>2 DEF Finishes
  <2>. QED  BY <2>2, <2>3 DEF RomWait
<1>6. Resp => engine' \in EngineState /\ engine.st # "IDLE" /\ Returns
  <2>. SUFFICES ASSUME Resp PROVE engine' \in EngineState /\ engine.st # "IDLE" /\ Returns
    OBVIOUS
  <2>. DEFINE st == IF ~ resp.active /\ ~ TxBusy THEN "IDLE" ELSE engine.st
  <2>1. /\ engine.st \in {"RESP", "ERROR"} /\ NoResponse
        /\ engine' = [Base EXCEPT !.st = st]
    BY BaseFacts DEF Resp
  <2>2. st \in {"IDLE", "RESP", "ERROR"}
    BY <2>1
  <2>. HIDE DEF st
  <2>3. [Base EXCEPT !.st = st] \in EngineState
    BY <2>2, BaseFacts DEF EngineState
  <2>4. engine'.st = st
    BY <2>1, BaseFacts DEF EngineState
  <2>. QED  BY <2>1, <2>3, <2>4 DEF Returns, st
<1>. QED  BY <1>3, <1>4, <1>5, <1>6 DEF Work

(* The pulse that lets the core go is one of HOLD_CORE with the unlock.     *)
LEMMA HeldOrReleased ==
  ASSUME TypeInv, Engine
  PROVE  engine'.release =>
           /\ CmdEvent /\ HoldCore /\ engine.unlocked /\ engine'.unlocked
           /\ parser.len = 1 /\ Reply("OK", <<>>)
<1>1. /\ Base \in EngineState /\ ~ Base.release
      /\ Answered \in EngineState /\ ~ Answered.release
      /\ Started \in EngineState /\ ~ Started.release
      /\ Finished \in EngineState /\ ~ Finished.release
  <2>1. Finished \in EngineState /\ ~ Finished.release
    BY BaseFacts DEF Finished, EngineState
  <2>. QED  BY <2>1, BaseFacts, AnsweredFacts
<1>2. NoCommand => ~ engine'.release
  BY <1>1 DEF NoCommand, EngineState
<1>3. BadPacket \/ Unknown \/ Ping \/ Ident \/ Status => ~ engine'.release
  BY <1>1 DEF BadPacket, Unknown, Ping, Ident, Status, Refused
<1>4. Unlock => ~ engine'.release
  <2>. DEFINE right == parser.len = KeyLen /\ Arg(1) = Key
  <2>1. Unlock => engine' = [Answered EXCEPT !.unlocked = right]
    BY DEF Unlock
  <2>. HIDE DEF right
  <2>. QED  BY <1>1, <2>1 DEF EngineState
<1>5. Lock => ~ engine'.release
  BY <1>1 DEF Lock, EngineState
<1>6. Read32 => ~ engine'.release
  <2>. DEFINE ar == <<Arg(1).n>>
  <2>1. Read32 => engine' \in {Answered, [Started EXCEPT !.st = "AXI_READ", !.ar = ar, !.rready = TRUE]}
    BY DEF Read32, Refused
  <2>. HIDE DEF ar
  <2>. QED  BY <1>1, <2>1 DEF EngineState
<1>7. Write32 => ~ engine'.release
  <2>. DEFINE aw == <<Arg(1).n>>
              w == <<Arg(2).n>>
  <2>1. Write32 => engine' \in {Answered, [Started EXCEPT !.st = "AXI_WRITE", !.aw = aw, !.w = w,
                                                         !.bready = TRUE]}
    BY DEF Write32, Refused
  <2>. HIDE DEF aw, w
  <2>. QED  BY <1>1, <2>1 DEF EngineState
<1>8. RomWrite => ~ engine'.release
  <2>1. RomWrite => engine' \in {Answered, [Started EXCEPT !.st = "ROM_WAIT", !.chunk = TRUE]}
    BY DEF RomWrite, Refused
  <2>. QED  BY <1>1, <2>1 DEF EngineState
<1>9. Work => ~ engine'.release
  <2>. DEFINE st == IF ~ resp.active /\ ~ TxBusy THEN "IDLE" ELSE Base.st
  <2>1. Work => engine' \in {Base, Finished, [Finished EXCEPT !.bready = FALSE],
                             [Finished EXCEPT !.rready = FALSE], [Base EXCEPT !.st = st]}
    BY DEF Work, BusWrite, BusRead, RomWait, Resp
  <2>. HIDE DEF st
  <2>. QED  BY <1>1, <2>1 DEF EngineState
<1>10. TimedOut => ~ engine'.release
  BY <1>1 DEF TimedOut, EngineState
<1>11. HoldCore /\ engine'.release =>
         CmdEvent /\ engine.unlocked /\ engine'.unlocked /\ parser.len = 1 /\ Reply("OK", <<>>)
  <2>. SUFFICES ASSUME HoldCore, engine'.release
                PROVE  /\ CmdEvent /\ engine.unlocked /\ engine'.unlocked
                       /\ parser.len = 1 /\ Reply("OK", <<>>)
    OBVIOUS
  <2>. DEFINE one == (Arg(1).n % 2 = 1)
              let == ~ one
  <2>1. /\ CmdEvent /\ engine.unlocked /\ parser.len = 1 /\ Reply("OK", <<>>)
        /\ engine' = [Answered EXCEPT !.hold = one, !.release = let]
    BY <1>1 DEF HoldCore, Given, Refused
  <2>. HIDE DEF one, let
  <2>2. engine'.unlocked = engine.unlocked
    BY <2>1, AnsweredFacts DEF EngineState
  <2>. QED  BY <2>1, <2>2
<1>. QED  BY <1>2, <1>3, <1>4, <1>5, <1>6, <1>7, <1>8, <1>9, <1>10, <1>11 DEF Engine, Command

LEMMA PushedType ==
  ASSUME TypeInv
  PROVE  /\ Pushed \in [active : BOOLEAN, answer : Begun \cup {None.answer}, idx : Nat]
         /\ Pushed.answer = resp.answer /\ (Pushed.active => resp.active)
<1>1. resp \in [active : BOOLEAN, answer : Begun \cup {None.answer}, idx : Nat]
  BY DEF TypeInv, DapTypeOK
<1>2. \/ Pushed = resp
      \/ Pushed = [resp EXCEPT !.idx = 0, !.active = FALSE]
      \/ Pushed = [resp EXCEPT !.idx = resp.idx + 1] /\ resp.active
  BY DEF Pushed
<1>3. resp.active \in BOOLEAN /\ resp.idx + 1 \in Nat /\ 0 \in Nat
  BY <1>1
<1>. DEFINE one == resp.idx + 1
<1>4. /\ [resp EXCEPT !.idx = 0, !.active = FALSE]
           \in [active : BOOLEAN, answer : Begun \cup {None.answer}, idx : Nat]
      /\ [resp EXCEPT !.idx = one]
           \in [active : BOOLEAN, answer : Begun \cup {None.answer}, idx : Nat]
  <2>. HIDE DEF one
  <2>. QED  BY <1>1, <1>3 DEF one
<1>5. /\ Pushed = [resp EXCEPT !.idx = 0, !.active = FALSE] => Pushed.answer = resp.answer /\ ~ Pushed.active
      /\ Pushed = [resp EXCEPT !.idx = one] => Pushed.answer = resp.answer
  BY <1>1
<1>. QED  BY <1>1, <1>2, <1>4, <1>5

(* The answers begun only grow, and all of them are short.                  *)
Grows == \/ begun' = begun
         \/ \E a : begun' = Append(begun, a) /\ Len(a.payload) \in 0..Len(Identity)
LEMMA BegunGrows ==
  ASSUME TypeInv, Grows
  PROVE  /\ Begun \subseteq Begun' /\ begun' \in Seq(Begun')
         /\ \A a \in Begun' : Len(a.payload) \in 0..Len(Identity)
         /\ \A a : begun' = Append(begun, a) => a \in Begun'
<1>1. /\ begun \in Seq(Begun) /\ DOMAIN begun = 1..Len(begun) /\ Len(begun) \in Nat
      /\ \A a \in Begun : Len(a.payload) \in 0..Len(Identity)
  <2>1. begun \in Seq(Begun)
    BY DEF TypeInv, DapTypeOK
  <2>2. DOMAIN begun = 1..Len(begun) /\ Len(begun) \in Nat
    BY <2>1, LenProperties
  <2>3. \A a \in Begun : Len(a.payload) \in 0..Len(Identity)
    BY DEF TypeInv, DapTypeOK
  <2>. QED  BY <2>1, <2>2, <2>3
<1>2. CASE begun' = begun
  <2>1. \A a : begun' # Append(begun, a)
    <3>1. ASSUME NEW a, begun' = Append(begun, a)  PROVE FALSE
      <4>1. begun \in Seq(Begun \cup {a})
        BY <1>1, SeqDef
      <4>2. Len(Append(begun, a)) = Len(begun) + 1
        BY <4>1, AppendProperties
      <4>. QED  BY <1>1, <1>2, <3>1, <4>2
    <3>. QED  BY <3>1
  <2>. QED  BY <1>1, <1>2, <2>1 DEF Begun
<1>3. ASSUME NEW a, begun' = Append(begun, a), Len(a.payload) \in 0..Len(Identity)
      PROVE  /\ Begun \subseteq Begun' /\ begun' \in Seq(Begun')
             /\ \A b \in Begun' : Len(b.payload) \in 0..Len(Identity)
             /\ \A b : begun' = Append(begun, b) => b \in Begun'
  <2>1. begun \in Seq(Begun \cup {a})
    BY <1>1, SeqDef
  <2>2. /\ begun' \in Seq(Begun \cup {a}) /\ Len(begun') = Len(begun) + 1
        /\ \A k \in 1..Len(begun) : begun'[k] = begun[k]
        /\ begun'[Len(begun) + 1] = a
    BY <1>3, <2>1, AppendProperties
  <2>3. DOMAIN begun' = 1..(Len(begun) + 1)
    BY <1>1, <2>2, LenProperties
  <2>4. Begun' = Begun \cup {a}
    BY <1>1, <2>2, <2>3 DEF Begun
  <2>5. ASSUME NEW b, begun' = Append(begun, b)  PROVE b = a
    <3>1. begun \in Seq(Begun \cup {b})
      BY <1>1, SeqDef
    <3>2. begun'[Len(begun) + 1] = b
      BY <2>5, <3>1, AppendProperties
    <3>. QED  BY <2>2, <3>2
  <2>. QED  BY <1>1, <1>3, <2>2, <2>4, <2>5
<1>. QED  BY <1>2, <1>3 DEF Grows

LEMMA EngineTypes ==
  ASSUME TypeInv, Engine
  PROVE  /\ engine' \in EngineState /\ Grows
         /\ resp' \in [active : BOOLEAN, answer : Begun' \cup {None.answer}, idx : Nat]
         /\ resp'.active => resp'.answer \in Begun'
         /\ engine'.st = "ERROR" => Answer(engine'.seq, "BUSY", <<>>) \in Begun'
<1>. DEFINE RespType == [active : BOOLEAN, answer : Begun' \cup {None.answer}, idx : Nat]
<1>1. ASSUME NoResponse
      PROVE  Grows /\ Begun' = Begun /\ resp' \in RespType /\ (resp'.active => resp'.answer \in Begun')
  <2>1. begun' = begun /\ resp' = Pushed
    BY <1>1 DEF NoResponse
  <2>2. Begun' = Begun
    BY <2>1 DEF Begun
  <2>. QED  BY <2>1, <2>2, PushedType DEF Grows, TypeInv
<1>2. ASSUME NEW a, Replies(a)
      PROVE  Grows /\ resp' \in RespType /\ (resp'.active => resp'.answer \in Begun')
  <2>1. Grows /\ begun' = Append(begun, a)
    BY <1>2 DEF Replies, Grows
  <2>2. a \in Begun'
    BY <2>1, BegunGrows
  <2>3. resp' = [active |-> TRUE, answer |-> a, idx |-> 0]
    BY <1>2 DEF Replies
  <2>. QED  BY <2>1, <2>2, <2>3
<1>3. CASE engine.timeout # TimeoutCycles
  <2>1. Command \/ Work
    BY <1>3 DEF Engine
  <2>2. CASE Command
    <3>1. engine' \in EngineState /\ (Idles \/ Answers \/ Reads \/ Writes \/ Loads)
      BY <2>2, CommandCases
    <3>2. engine'.st # "ERROR" /\ (NoResponse \/ \E a : Replies(a))
      BY <3>1 DEF Idles, Answers, Reads, Writes, Loads
    <3>. QED  BY <1>1, <1>2, <3>1, <3>2
  <2>3. CASE Work
    <3>1. engine' \in EngineState /\ (Waits \/ Finishes \/ Returns)
      BY <2>3, WorkCases
    <3>2. /\ NoResponse \/ \E a : Replies(a)
          /\ engine'.st = "ERROR" => engine.st = "ERROR" /\ engine'.seq = engine.seq /\ NoResponse
      BY <3>1, BaseFacts DEF Waits, Finishes, Returns, EngineState
    <3>. QED  BY <1>1, <1>2, <3>1, <3>2 DEF TypeInv
  <2>. QED  BY <2>1, <2>2, <2>3
<1>4. CASE engine.timeout = TimeoutCycles
  <2>. DEFINE busy == Answer(engine.seq, "BUSY", <<>>)
  <2>1. /\ engine' = [Base EXCEPT !.st = "ERROR", !.aw = <<>>, !.w = <<>>, !.ar = <<>>,
                        !.bready = FALSE, !.rready = FALSE]
        /\ resp' = [active |-> TRUE, answer |-> busy, idx |-> 0]
        /\ begun' = IF engine.st = "ERROR" THEN begun ELSE Append(begun, busy)
    BY <1>4 DEF Engine, TimedOut
  <2>2. /\ [Base EXCEPT !.st = "ERROR", !.aw = <<>>, !.w = <<>>, !.ar = <<>>,
                        !.bready = FALSE, !.rready = FALSE] \in EngineState
        /\ engine'.seq = engine.seq
    BY <2>1, BaseFacts, EmptySeq DEF EngineState
  <2>3. Grows
    <3>1. Len(busy.payload) \in 0..Len(Identity)
      BY DEF Answer, Identity
    <3>. HIDE DEF busy
    <3>. QED  BY <2>1, <3>1 DEF Grows
  <2>4. busy \in Begun'
    BY <2>1, <2>3, BegunGrows DEF TypeInv
  <2>. HIDE DEF busy
  <2>5. resp' \in RespType /\ resp'.answer \in Begun'
    BY <2>1, <2>4
  <2>. QED  BY <2>1, <2>2, <2>3, <2>4, <2>5 DEF busy
<1>. QED  BY <1>3, <1>4

LEMMA TypeStep == ASSUME TypeInv, [Tick]_vars  PROVE TypeInv'
<1>1. CASE Tick
  <2>1. Begun \subseteq Begun' /\ begun' \in Seq(Begun')
        /\ \A a \in Begun' : Len(a.payload) \in 0..Len(Identity)
    BY <1>1, EngineTypes, BegunGrows DEF Tick
  <2>2. Seq(Begun) \subseteq Seq(Begun') /\ Seq(TxBytes) \subseteq Seq(TxBytes')
    <3>1. TxBytes \subseteq TxBytes'
      BY <2>1 DEF TxBytes
    <3>. QED  BY <2>1, <3>1, SeqDef
  <2>3. line' \in Seq(Bytes) /\ Len(line') <= 1 /\ host' \in HostState' /\ HostInPlace'
    <3>1. line' \in Seq(Bytes) /\ Len(line') <= 1 /\ host' \in HostState /\ HostInPlace'
      BY <1>1, LineTypes DEF Tick
    <3>. QED  BY <2>2, <3>1 DEF HostState
  <2>4. parser' \in ParserState /\ rxFifo' \in Seq(Bytes) /\ Len(rxFifo') <= RxDepth
    BY <1>1, ParseTypes DEF Tick
  <2>5. /\ txFifo' \in Seq(TxBytes') /\ Len(txFifo') <= TxDepth
        /\ tx' \in [busy : 0..ByteTime, byte : Seq(TxBytes')] /\ Len(tx'.byte) <= 1
        /\ tx'.busy > 0 <=> tx'.byte # <<>>
    BY <1>1, <2>2, TransmitTypes DEF Tick
  <2>6. writer' \in WriterState /\ rom' \in [0..(RomSize - 1) -> Nat]
    BY <1>1, ChunkTypes DEF Tick
  <2>7. skid' \in [aw : Seq(Nat), w : Seq(Nat), ar : Seq(Nat)] /\ bridge' \in BridgeState'
    BY <1>1, PortTypes DEF Tick
  <2>8. /\ engine' \in EngineState
        /\ resp' \in [active : BOOLEAN, answer : Begun' \cup {None.answer}, idx : Nat]
        /\ resp'.active => resp'.answer \in Begun'
        /\ engine'.st = "ERROR" => Answer(engine'.seq, "BUSY", <<>>) \in Begun'
    BY <1>1, EngineTypes DEF Tick
  <2>9. DapTypeOK'
    BY <2>1, <2>3, <2>4, <2>5, <2>6, <2>7, <2>8 DEF DapTypeOK
  <2>. QED  BY <2>3, <2>5, <2>8, <2>9 DEF TypeInv
<1>2. CASE UNCHANGED vars
  BY <1>2 DEF vars, wires, TypeInv, DapTypeOK, HostInPlace, HostState, BridgeState, Begun, TxBytes
<1>. QED  BY <1>1, <1>2

LEMMA TypeInit == Init => TypeInv
<1>. SUFFICES ASSUME Init PROVE TypeInv
  OBVIOUS
<1>1. /\ RomSize \in Nat \ {0} /\ SeqSpace \in Nat \ {0} /\ RxDepth \in Nat /\ TxDepth \in Nat
      /\ ByteTime \in Nat /\ TimeoutCycles \in Nat
  BY DapAssumption
<1>2. begun = <<>> /\ Begun = {} /\ begun \in Seq(Begun)
  BY EmptySeq DEF Init, Begun
<1>3. host \in HostState /\ HostInPlace
  <2>1. PICK script \in Scripts, pace \in {"burst", "wait"} :
           host = [script |-> script, sent |-> 0, byte |-> 0, gap |-> 0, pace |-> pace,
                   losses |-> IF script \in Unreliable THEN 1 ELSE 0, got |-> <<>>, part |-> 0]
    BY DEF Init
  <2>2. host \in HostState
    BY <1>1, <2>1, EmptySeq DEF HostState
  <2>3. ASSUME host.sent < Len(host.script)
        PROVE  host.byte < Len(Wire(host.script[host.sent + 1]))
    <3>1. script \in Seq(Packets) /\ 0 < Len(script) /\ Len(script) \in Nat
      BY <2>1, <2>3, DapAssumption, LenProperties
    <3>2. script[1] \in Packets
      BY <3>1, ElementOfSeq
    <3>. QED  BY <2>1, <3>2, WireType
  <2>. QED  BY <2>2, <2>3 DEF HostInPlace
<1>4. parser \in ParserState
  <2>1. Plain(0) \in Bytes
    BY DEF Plain, Bytes
  <2>. QED  BY <2>1, EmptySeq DEF Init, ParserState, Statuses
<1>5. engine \in EngineState /\ engine.st = "IDLE"
  BY <1>1, EmptySeq DEF Init, EngineState
<1>6. writer \in WriterState /\ rom \in [0..(RomSize - 1) -> Nat]
  BY <1>1, EmptySeq DEF Init, WriterState
<1>7. skid \in [aw : Seq(Nat), w : Seq(Nat), ar : Seq(Nat)] /\ bridge \in BridgeState
  BY EmptySeq DEF Init, Axi!AxiInit, Axi!Quiet, Axi!Opened, BridgeState
<1>8. /\ resp \in [active : BOOLEAN, answer : Begun \cup {None.answer}, idx : Nat]
      /\ ~ resp.active
  BY DEF Init, None
<1>9. /\ line \in Seq(Bytes) /\ Len(line) <= 1 /\ rxFifo \in Seq(Bytes) /\ Len(rxFifo) <= RxDepth
      /\ tx \in [busy : 0..ByteTime, byte : Seq(TxBytes)] /\ Len(tx.byte) <= 1
      /\ txFifo \in Seq(TxBytes) /\ Len(txFifo) <= TxDepth
      /\ tx.busy > 0 <=> tx.byte # <<>>
  BY <1>1, EmptySeq DEF Init
<1>10. DapTypeOK
  BY <1>2, <1>3, <1>4, <1>5, <1>6, <1>7, <1>8, <1>9 DEF DapTypeOK
<1>. QED  BY <1>3, <1>5, <1>8, <1>9, <1>10 DEF TypeInv

(* The bridge keeps its types, whatever the host sends, loses or asks, and  *)
(* with every time limit: FIFO and transmitter hold at most what they can,  *)
(* every byte sent is one of an answer that was begun, and so is every      *)
(* answer the host has.                                                     *)
THEOREM DapTypes == Spec => []DapTypeOK
<1>1. TypeInv /\ [Tick]_vars => TypeInv'
  BY TypeStep
<1>2. TypeInv => DapTypeOK
  BY DEF TypeInv
<1>. QED  BY <1>1, <1>2, TypeInit, PTL DEF Spec

-----------------------------------------------------------------------------
(* No command reaches its limit.  The port first: an access grows older by  *)
(* one in every cycle, and what the engine offers is taken at once.         *)
LEMMA PortAges ==
  ASSUME TypeInv, Port,
         NEW we \in BOOLEAN, NEW k \in 0..4, OffersAt(engine, we, k), PortAt(skid, bridge, we, k),
         k = 3 => IF bridge.we THEN engine.bready ELSE engine.rready
  PROVE  PortAt(skid', bridge', we, IF k = 4 THEN 4 ELSE k + 1)
<1>1. /\ skid \in [aw : Seq(Nat), w : Seq(Nat), ar : Seq(Nat)] /\ bridge \in BridgeState
      /\ engine \in EngineState
  BY DEF TypeInv, DapTypeOK
<1>2. skid' = [aw |-> IF Axi!AwTaken THEN engine.aw ELSE skid.aw,
               w  |-> IF Axi!WTaken THEN engine.w ELSE skid.w,
               ar |-> IF Axi!ArTaken THEN engine.ar ELSE skid.ar]
  BY DEF Port, Axi!Skids, Bus
<1>3. Axi!AwTaken /\ Axi!WTaken /\ Axi!ArTaken
  BY DEF PortAt, Axi!AwTaken, Axi!WTaken, Axi!ArTaken, Axi!Taken, Axi!AwReady, Axi!WReady, Axi!ArReady
<1>4. skid'.aw = engine.aw /\ skid'.w = engine.w /\ skid'.ar = engine.ar
  BY <1>2, <1>3
<1>5. CASE k = 0 \/ k = 4
  <2>1. skid.aw = <<>> /\ skid.w = <<>> /\ skid.ar = <<>> /\ bridge.state = "IDLE"
        /\ bridge.aw = <<>> /\ bridge.w = <<>> /\ ~ bridge.b /\ bridge.r = <<>>
    BY <1>5 DEF PortAt
  <2>2. Axi!Address = <<>> /\ Axi!Data = <<>>
    BY <2>1 DEF Axi!Address, Axi!Data, Axi!AwReady, Axi!WReady
  <2>3. Axi!Collect
    BY <2>1, <2>2 DEF Port, Axi!Join, Axi!TakeRead, Axi!PerformWrite, Axi!PerformRead,
       Axi!Hold, Axi!Close
  <2>4. bridge' = [bridge EXCEPT !.aw = <<>>, !.w = <<>>]
    BY <2>2, <2>3 DEF Axi!Collect
  <2>5. /\ bridge'.state = "IDLE" /\ bridge'.aw = <<>> /\ bridge'.w = <<>>
        /\ ~ bridge'.b /\ bridge'.r = <<>>
    BY <1>1, <2>1, <2>4 DEF BridgeState
  <2>. QED  BY <1>4, <1>5, <2>5 DEF PortAt, OffersAt
<1>6. CASE k = 1
  <2>1. /\ skid.aw # <<>> <=> we
        /\ skid.w # <<>> <=> we
        /\ skid.ar # <<>> <=> ~ we
        /\ bridge.state = "IDLE" /\ bridge.aw = <<>> /\ bridge.w = <<>> /\ ~ bridge.b /\ bridge.r = <<>>
    BY <1>6 DEF PortAt
  <2>2. engine.aw = <<>> /\ engine.w = <<>> /\ engine.ar = <<>>
    BY <1>6 DEF OffersAt
  <2>3. Axi!Address = skid.aw /\ Axi!Data = skid.w /\ (Axi!ArReady <=> ~ we)
    BY <2>1 DEF Axi!Address, Axi!Data, Axi!AwReady, Axi!WReady, Axi!ArReady
  <2>4. /\ we => Axi!Join
        /\ ~ we => Axi!TakeRead
    BY <2>1, <2>3 DEF Port, Axi!Join, Axi!TakeRead, Axi!PerformWrite, Axi!PerformRead,
       Axi!Hold, Axi!Close, Axi!Collect
  <2>5. bridge'.state = "WAIT_REG" /\ (bridge'.we <=> we) /\ ~ bridge'.b /\ bridge'.r = <<>>
    <3>1. CASE we
      BY <1>1, <2>1, <2>4, <3>1 DEF Axi!Join, BridgeState
    <3>2. CASE ~ we
      BY <1>1, <2>1, <2>4, <3>2 DEF Axi!TakeRead, BridgeState
    <3>. QED  BY <3>1, <3>2
  <2>. QED  BY <1>4, <1>6, <2>2, <2>5 DEF PortAt
<1>7. CASE k = 2
  <2>1. bridge.state = "WAIT_REG" /\ (bridge.we <=> we) /\ ~ bridge.b /\ bridge.r = <<>>
    BY <1>7 DEF PortAt
  <2>2. engine.aw = <<>> /\ engine.w = <<>> /\ engine.ar = <<>>
    BY <1>7 DEF OffersAt
  <2>3. /\ we => Axi!PerformWrite
        /\ ~ we => Axi!PerformRead
    BY <2>1 DEF Port, Axi!Join, Axi!TakeRead, Axi!PerformWrite, Axi!PerformRead,
       Axi!Hold, Axi!Close, Axi!Collect, Axi!ArReady
  <2>4. bridge'.state = "RESP" /\ (bridge'.we <=> we) /\ (bridge'.b <=> we) /\ (bridge'.r # <<>> <=> ~ we)
    <3>1. CASE we
      BY <1>1, <2>1, <2>3, <3>1 DEF Axi!PerformWrite, BridgeState
    <3>2. CASE ~ we
      <4>. DEFINE value == <<regs[bridge.req[1]]>>
      <4>1. bridge' = [bridge EXCEPT !.state = "RESP", !.r = value] /\ value # <<>>
        BY <2>3, <3>2 DEF Axi!PerformRead
      <4>. HIDE DEF value
      <4>. QED  BY <1>1, <2>1, <3>2, <4>1 DEF BridgeState
    <3>. QED  BY <3>1, <3>2
  <2>. QED  BY <1>4, <1>7, <2>2, <2>4 DEF PortAt
<1>8. CASE k = 3
  <2>1. bridge.state = "RESP"
    BY <1>8 DEF PortAt
  <2>2. engine.aw = <<>> /\ engine.w = <<>> /\ engine.ar = <<>>
    BY <1>8 DEF OffersAt
  <2>3. Axi!Close
    BY <1>8, <2>1 DEF Port, Axi!Join, Axi!TakeRead, Axi!PerformWrite, Axi!PerformRead,
       Axi!Hold, Axi!Close, Axi!Collect, Axi!ArReady
  <2>4. /\ bridge'.state = "IDLE" /\ bridge'.aw = <<>> /\ bridge'.w = <<>>
        /\ ~ bridge'.b /\ bridge'.r = <<>>
    BY <1>1, <2>3 DEF Axi!Close, BridgeState
  <2>. QED  BY <1>4, <1>8, <2>2, <2>4 DEF PortAt
<1>. QED  BY <1>5, <1>6, <1>7, <1>8

LEMMA OffersTaken ==
  ASSUME TypeInv, BusInv
  PROVE  Base.aw = <<>> /\ Base.w = <<>> /\ Base.ar = <<>>
<1>1. \/ engine.aw = <<>> /\ engine.w = <<>> /\ engine.ar = <<>>
      \/ skid.aw = <<>> /\ skid.w = <<>> /\ skid.ar = <<>>
  <2>1. Age = 0 \/ Age # 0
    OBVIOUS
  <2>. QED  BY <2>1 DEF BusInv, OffersAt, PortAt
<1>. QED  BY <1>1, BaseFacts DEF Axi!AwTaken, Axi!WTaken, Axi!ArTaken, Axi!Taken

LEMMA TimeTypes ==
  /\ ByteTime \in Nat \ {0} /\ TimeoutCycles \in Nat /\ TxDepth \in Nat \ {0}
  /\ ChunkTime = 7 /\ ResponseTime = 12 * (ByteTime + 1) + 1 /\ ResponseTime \in Nat
  /\ CommandTime = 7 + ResponseTime
<1>1. Len(Identity) = 4
  BY DEF Identity
<1>2. ByteTime \in Nat \ {0} /\ TimeoutCycles \in Nat /\ TxDepth \in Nat \ {0}
  BY DapAssumption
<1>. QED  BY <1>1, <1>2 DEF ChunkTime, ResponseTime, CommandTime, MaxChunk, Framing

(* A step of the engine before its limit.                                   *)
EngineCase == \/ engine.st = "IDLE" /\ (Idles \/ Answers \/ Reads \/ Writes \/ Loads)
              \/ engine.st # "IDLE" /\ (Waits \/ Finishes \/ Returns)
LEMMA BelowLimit ==
  ASSUME TypeInv, LimitIsAmple, InTime
  PROVE  engine.timeout \in Nat /\ engine.timeout < TimeoutCycles
<1>1. engine \in EngineState
  BY DEF TypeInv, DapTypeOK
<1>2. engine.timeout \in 0..TimeoutCycles
  BY <1>1 DEF EngineState
<1>3. engine.timeout <= CommandTime
  BY DEF InTime, ResponseInv
<1>4. TimeoutCycles \in Nat /\ CommandTime \in Nat /\ CommandTime < TimeoutCycles
  BY TimeTypes DEF LimitIsAmple
<1>. QED  BY <1>2, <1>3, <1>4

LEMMA EngineCases ==
  ASSUME TypeInv, LimitIsAmple, InTime, Engine  PROVE EngineCase /\ engine' \in EngineState
<1>1. engine.timeout # TimeoutCycles
  BY BelowLimit, TimeTypes
<1>2. Command \/ Work
  BY <1>1 DEF Engine
<1>. QED  BY <1>2, CommandCases, WorkCases DEF EngineCase

(* How long the engine has been at it, after a step.                        *)
LEMMA TimeCases ==
  ASSUME TypeInv, LimitIsAmple, InTime, Engine
  PROVE  /\ engine.timeout \in Nat
         /\ engine'.timeout = IF engine.st = "IDLE" THEN 0 ELSE engine.timeout + 1
<1>1. engine.timeout \in Nat /\ engine.timeout < TimeoutCycles
  BY BelowLimit
<1>2. engine'.timeout = Base.timeout
  <2>1. EngineCase
    BY EngineCases
  <2>2. Returns => engine'.timeout = Base.timeout
    BY BaseFacts DEF Returns, EngineState
  <2>. QED  BY <2>1, <2>2 DEF EngineCase, Idles, Answers, Reads, Writes, Loads, Waits, Finishes,
              Cleared, Kept
<1>. QED  BY <1>1, <1>2, BaseFacts

LEMMA BusStep ==
  ASSUME TypeInv, LimitIsAmple, InTime, Tick  PROVE BusInv'
<1>1. /\ EngineCase /\ engine' \in EngineState /\ engine \in EngineState
      /\ engine.timeout \in Nat
      /\ engine'.timeout = IF engine.st = "IDLE" THEN 0 ELSE engine.timeout + 1
      /\ Base.aw = <<>> /\ Base.w = <<>> /\ Base.ar = <<>>
  BY EngineCases, TimeCases, OffersTaken DEF Tick, InTime, TypeInv, DapTypeOK
<1>. DEFINE we == engine.st = "AXI_WRITE"
<1>2. /\ Access => engine.timeout \in 0..3
      /\ OffersAt(engine, we, Age) /\ PortAt(skid, bridge, we, Age)
      /\ engine.bready <=> we
      /\ engine.rready <=> engine.st = "AXI_READ"
      /\ Age \in 0..4 /\ we \in BOOLEAN
  BY <1>1 DEF InTime, BusInv, Age
<1>3. PortAt(skid', bridge', we, IF Age = 4 THEN 4 ELSE Age + 1)
  <2>1. Age = 3 => IF bridge.we THEN engine.bready ELSE engine.rready
    <3>1. Age = 3 => Access /\ (bridge.we <=> we)
      BY <1>2 DEF Age, PortAt
    <3>. QED  BY <1>2, <3>1 DEF Access
  <2>2. Port
    BY DEF Tick
  <2>. HIDE DEF we
  <2>. QED  BY <1>2, <2>1, <2>2, PortAges
<1>4. ASSUME NEW k \in {0, 4}, NEW b1 \in BOOLEAN, NEW b2 \in BOOLEAN, NEW s, NEW b, PortAt(s, b, b1, 4)
      PROVE  PortAt(s, b, b2, k)
  BY <1>4 DEF PortAt
<1>. HIDE DEF we
<1>5. CASE ~ Access
  <2>1. PortAt(skid', bridge', we, 4) /\ ~ engine.bready /\ ~ engine.rready
    BY <1>2, <1>3, <1>5 DEF Age, Access, we
  <2>2. CASE ~ Access'
    <3>1. Age' = 4 /\ ~ (engine.st = "AXI_WRITE")' /\ engine'.st # "AXI_READ"
      BY <2>2 DEF Age, Access
    <3>2. PortAt(skid', bridge', (engine.st = "AXI_WRITE")', 4)
      BY <1>2, <1>4, <2>1
    <3>3. /\ engine'.aw = <<>> /\ engine'.w = <<>> /\ engine'.ar = <<>>
          /\ ~ engine'.bready /\ ~ engine'.rready
      <4>1. Returns => /\ engine'.aw = Base.aw /\ engine'.w = Base.w /\ engine'.ar = Base.ar
                       /\ engine'.bready = engine.bready /\ engine'.rready = engine.rready
        BY BaseFacts DEF Returns, EngineState
      <4>2. Waits => /\ engine'.aw = Base.aw /\ engine'.w = Base.w /\ engine'.ar = Base.ar
                     /\ engine'.bready = engine.bready /\ engine'.rready = engine.rready
        BY BaseFacts DEF Waits
      <4>. QED  BY <1>1, <2>1, <2>2, <4>1, <4>2 DEF EngineCase, Idles, Answers, Reads, Writes, Loads,
                  Finishes, Cleared, Kept, Access
    <3>4. OffersAt(engine', (engine.st = "AXI_WRITE")', 4)
      BY <3>3 DEF OffersAt
    <3>. QED  BY <2>2, <3>1, <3>2, <3>3, <3>4 DEF BusInv
  <2>3. CASE Access'
    <3>1. Reads \/ Writes
      BY <1>1, <1>5, <2>3, BaseFacts DEF EngineCase, Idles, Answers, Loads, Waits, Finishes, Returns, Access
    <3>2. engine.st = "IDLE"
      BY <3>1 DEF Reads, Writes, CmdEvent
    <3>3. engine'.timeout = 0 /\ Age' = 0
      BY <1>1, <2>3, <3>2 DEF Age
    <3>4. PortAt(skid', bridge', (engine.st = "AXI_WRITE")', 0)
      BY <1>2, <1>4, <2>1
    <3>5. OffersAt(engine', (engine.st = "AXI_WRITE")', 0)
      BY <1>1, <3>1 DEF OffersAt, Reads, Writes, Kept
    <3>6. /\ engine'.bready <=> engine'.st = "AXI_WRITE"
          /\ engine'.rready <=> engine'.st = "AXI_READ"
      BY <3>1 DEF Reads, Writes
    <3>. QED  BY <3>3, <3>4, <3>5, <3>6 DEF BusInv
  <2>. QED  BY <2>2, <2>3
<1>6. CASE Access
  <2>1. Age = engine.timeout /\ Age \in 0..3 /\ (bridge.b <=> we /\ Age = 3)
        /\ (bridge.r # <<>> <=> ~ we /\ Age = 3)
        /\ PortAt(skid', bridge', we, Age + 1)
    BY <1>2, <1>3, <1>6 DEF Age, PortAt
  <2>2. Waits \/ Finishes
    BY <1>1, <1>6 DEF EngineCase, Returns, Access
  <2>3. CASE Waits
    <3>1. engine' = Base /\ engine'.st = engine.st /\ Age # 3
      BY <1>6, <2>1, <2>3, BaseFacts DEF Waits, Access, we
    <3>2. Access' /\ engine'.timeout = Age + 1 /\ Age' = Age + 1 /\ Age' \in 1..3
      BY <1>1, <1>6, <2>1, <3>1 DEF Access, Age
    <3>3. PortAt(skid', bridge', (engine.st = "AXI_WRITE")', Age')
      BY <2>1, <3>1, <3>2 DEF we
    <3>4. OffersAt(engine', (engine.st = "AXI_WRITE")', Age')
      BY <1>1, <3>1, <3>2 DEF OffersAt
    <3>5. engine'.bready = engine.bready /\ engine'.rready = engine.rready
      BY <3>1, BaseFacts
    <3>. QED  BY <1>2, <3>1, <3>2, <3>3, <3>4, <3>5 DEF BusInv, we
  <2>4. CASE Finishes
    <3>1. /\ engine'.st = "RESP" /\ Age = 3 /\ ~ engine'.bready /\ ~ engine'.rready
          /\ engine'.aw = <<>> /\ engine'.w = <<>> /\ engine'.ar = <<>>
      BY <1>1, <1>2, <1>6, <2>1, <2>4 DEF Finishes, Access, Kept, we
    <3>2. Age' = 4 /\ ~ Access'
      BY <3>1 DEF Age, Access
    <3>3. PortAt(skid', bridge', (engine.st = "AXI_WRITE")', 4)
      <4>1. Age + 1 = 4
        BY <3>1
      <4>2. PortAt(skid', bridge', we, 4)
        BY <2>1, <4>1
      <4>. QED  BY <1>2, <1>4, <4>2
    <3>4. OffersAt(engine', (engine.st = "AXI_WRITE")', 4)
      BY <3>1 DEF OffersAt
    <3>. QED  BY <3>1, <3>2, <3>3, <3>4 DEF BusInv
  <2>. QED  BY <2>2, <2>3, <2>4
<1>. QED  BY <1>5, <1>6

LEMMA RomStep ==
  ASSUME TypeInv, LimitIsAmple, InTime, Tick  PROVE RomInv'
<1>1. /\ EngineCase /\ engine' \in EngineState /\ engine \in EngineState
      /\ engine.timeout \in Nat
      /\ engine'.timeout = IF engine.st = "IDLE" THEN 0 ELSE engine.timeout + 1
      /\ writer \in WriterState /\ Chunk /\ ChunkTime = 7
  BY EngineCases, TimeCases, TimeTypes DEF Tick, InTime, TypeInv, DapTypeOK
<1>2. writer.st = "IDLE" /\ ~ engine.chunk => writer'.st = "IDLE" /\ ~ writer'.done
  BY <1>1 DEF Chunk, WriterState
<1>3. CASE engine.st # "ROM_WAIT"
  <2>1. writer'.st = "IDLE" /\ ~ writer'.done
    BY <1>2, <1>3 DEF InTime, RomInv
  <2>2. CASE engine'.st # "ROM_WAIT"
    <3>1. ~ engine'.chunk
      <4>1. Returns => engine'.chunk = Base.chunk
        BY BaseFacts DEF Returns, EngineState
      <4>. QED  BY <1>1, <2>2, <4>1, BaseFacts DEF EngineCase, Idles, Answers, Reads, Writes, Loads,
                  Waits, Finishes, Cleared
    <3>. QED  BY <2>1, <2>2, <3>1 DEF RomInv
  <2>3. CASE engine'.st = "ROM_WAIT"
    <3>1. Loads
      BY <1>1, <1>3, <2>3, BaseFacts DEF EngineCase, Idles, Answers, Reads, Writes, Waits, Finishes,
         Returns
    <3>2. engine'.chunk /\ engine'.timeout = 0
      BY <1>1, <3>1 DEF Loads, CmdEvent
    <3>. QED  BY <1>1, <2>1, <2>3, <3>2 DEF RomInv, ChunkLeft
  <2>. QED  BY <2>2, <2>3
<1>4. CASE engine.st = "ROM_WAIT"
  <2>1. /\ engine.chunk => writer.st = "IDLE" /\ ~ writer.done
        /\ ~ engine.chunk => (writer.done <=> writer.st = "IDLE")
        /\ writer.st \in {"CRC", "WRITE"} =>
             ChunkLen(writer.payload) \in 1..MaxChunk /\ writer.index < ChunkLen(writer.payload)
        /\ engine.timeout + ChunkLeft <= 7
    BY <1>1, <1>4 DEF InTime, RomInv
  <2>2. Waits \/ Finishes
    BY <1>1, <1>4 DEF EngineCase, Returns
  <2>3. CASE Finishes
    <3>1. writer.done /\ engine'.st = "RESP" /\ ~ engine'.chunk
      BY <1>4, <2>3 DEF Finishes
    <3>2. writer.st = "IDLE" /\ ~ engine.chunk
      BY <2>1, <3>1
    <3>. QED  BY <1>2, <3>1, <3>2 DEF RomInv
  <2>4. CASE Waits
    <3>1. /\ engine'.st = "ROM_WAIT" /\ ~ engine'.chunk /\ ~ writer.done
          /\ engine'.timeout = engine.timeout + 1
      BY <1>1, <1>4, <2>4, BaseFacts DEF Waits
    <3>2. CASE engine.chunk
      <4>. DEFINE payload == parser.payload
      <4>1. /\ writer.st = "IDLE" /\ engine.timeout = 0 /\ MaxChunk = 2
        BY <1>1, <2>1, <3>2 DEF ChunkLeft, MaxChunk
      <4>2. ChunkLen(payload) \in Nat
        BY ChunkLenType DEF TypeInv, DapTypeOK, ParserState
      <4>3. /\ writer'.payload = payload /\ writer'.index = 0 /\ ~ writer'.done
            /\ \/ writer'.st = "RESP"
               \/ writer'.st = "CRC" /\ ChunkLen(payload) # 0 /\ ~ ChunkLen(payload) > MaxChunk
        BY <1>1, <3>2, <4>1 DEF Chunk, WriterState
      <4>. HIDE DEF payload
      <4>4. CASE writer'.st = "RESP"
        BY <1>1, <3>1, <4>1, <4>3, <4>4 DEF RomInv, ChunkLeft
      <4>5. CASE writer'.st = "CRC"
        <5>1. ChunkLen(payload) \in 1..2
          BY <4>1, <4>2, <4>3, <4>5
        <5>2. ChunkLeft' = ChunkLen(payload) + 4
          BY <3>1, <4>1, <4>3, <4>5, <5>1 DEF ChunkLeft
        <5>. QED  BY <1>1, <3>1, <4>1, <4>3, <4>5, <5>1, <5>2 DEF RomInv
      <4>. QED  BY <4>3, <4>4, <4>5
    <3>3. CASE ~ engine.chunk
      <4>. DEFINE length == ChunkLen(writer.payload)
      <4>1. writer.st # "IDLE" /\ MaxChunk = 2 /\ writer.index \in Nat
        BY <1>1, <2>1, <3>1, <3>3 DEF MaxChunk, WriterState
      <4>2. CASE writer.st = "CRC"
        <5>1. /\ length \in 1..2 /\ writer.index < length
              /\ engine.timeout + (length - writer.index) + 4 <= 7
          <6>1. length \in 1..2 /\ writer.index < length
            BY <2>1, <4>1, <4>2
          <6>2. ChunkLeft = (length - writer.index) + 4
            BY <3>3, <4>1, <4>2, <6>1 DEF ChunkLeft
          <6>. HIDE DEF length
          <6>. QED  BY <1>1, <2>1, <4>1, <6>1, <6>2
        <5>2. writer'.payload = writer.payload /\ ~ writer'.done
          BY <1>1, <3>1, <4>2 DEF Chunk, WriterState
        <5>3. \/ writer'.st = "CRC" /\ writer'.index = writer.index + 1 /\ ~ LastByte
              \/ writer'.st = "WRITE" /\ writer'.index = 0
              \/ writer'.st = "RESP"
          BY <1>1, <4>2 DEF Chunk, WriterState
        <5>4. CASE writer'.st = "CRC" /\ writer'.index = writer.index + 1 /\ ~ LastByte
          <6>1. ChunkLeft' = (length - (writer.index + 1)) + 4 /\ writer'.index < length
            BY <3>1, <4>1, <5>1, <5>2, <5>4 DEF ChunkLeft, LastByte
          <6>. HIDE DEF length
          <6>2. engine'.timeout + ChunkLeft' <= 7
            BY <1>1, <3>1, <4>1, <5>1, <6>1
          <6>. QED  BY <1>1, <3>1, <4>1, <5>1, <5>2, <5>4, <6>1, <6>2 DEF RomInv, length
        <5>5. CASE writer'.st = "WRITE" /\ writer'.index = 0
          <6>1. ChunkLeft' = length + 2
            BY <3>1, <5>1, <5>2, <5>5 DEF ChunkLeft
          <6>. HIDE DEF length
          <6>2. engine'.timeout + ChunkLeft' <= 7
            BY <1>1, <3>1, <4>1, <5>1, <6>1
          <6>. QED  BY <1>1, <3>1, <4>1, <5>1, <5>2, <5>5, <6>2 DEF RomInv, length
        <5>6. CASE writer'.st = "RESP"
          <6>1. ChunkLeft' = 2
            BY <3>1, <5>6 DEF ChunkLeft
          <6>. HIDE DEF length
          <6>2. engine'.timeout + ChunkLeft' <= 7
            BY <1>1, <3>1, <4>1, <5>1, <6>1
          <6>. QED  BY <1>1, <3>1, <5>2, <5>6, <6>2 DEF RomInv
        <5>. QED  BY <5>3, <5>4, <5>5, <5>6
      <4>3. CASE writer.st = "WRITE"
        <5>1. /\ length \in 1..2 /\ writer.index < length
              /\ engine.timeout + (length - writer.index) + 2 <= 7
          <6>1. length \in 1..2 /\ writer.index < length
            BY <2>1, <4>1, <4>3
          <6>2. ChunkLeft = (length - writer.index) + 2
            BY <3>3, <4>1, <4>3, <6>1 DEF ChunkLeft
          <6>. HIDE DEF length
          <6>. QED  BY <1>1, <2>1, <4>1, <6>1, <6>2
        <5>2. writer'.payload = writer.payload /\ ~ writer'.done
          BY <1>1, <3>1, <4>3 DEF Chunk, WriterState
        <5>3. \/ writer'.st = "WRITE" /\ writer'.index = writer.index + 1 /\ ~ LastByte
              \/ writer'.st = "RESP"
          BY <1>1, <4>3 DEF Chunk, WriterState
        <5>4. CASE writer'.st = "WRITE" /\ writer'.index = writer.index + 1 /\ ~ LastByte
          <6>1. ChunkLeft' = (length - (writer.index + 1)) + 2 /\ writer'.index < length
            BY <3>1, <4>1, <5>1, <5>2, <5>4 DEF ChunkLeft, LastByte
          <6>. HIDE DEF length
          <6>2. engine'.timeout + ChunkLeft' <= 7
            BY <1>1, <3>1, <4>1, <5>1, <6>1
          <6>. QED  BY <1>1, <3>1, <4>1, <5>1, <5>2, <5>4, <6>1, <6>2 DEF RomInv, length
        <5>5. CASE writer'.st = "RESP"
          <6>1. ChunkLeft' = 2
            BY <3>1, <5>5 DEF ChunkLeft
          <6>. HIDE DEF length
          <6>2. engine'.timeout + ChunkLeft' <= 7
            BY <1>1, <3>1, <4>1, <5>1, <6>1
          <6>. QED  BY <1>1, <3>1, <5>2, <5>5, <6>2 DEF RomInv
        <5>. QED  BY <5>3, <5>4, <5>5
      <4>4. CASE writer.st = "RESP"
        <5>1. writer'.st = "IDLE" /\ writer'.done
          BY <1>1, <4>4 DEF Chunk, WriterState
        <5>2. engine.timeout + 2 <= 7 /\ ChunkLeft' = 1
          BY <2>1, <3>1, <3>3, <4>4, <5>1 DEF ChunkLeft
        <5>. QED  BY <1>1, <3>1, <5>1, <5>2 DEF RomInv
      <4>. QED  BY <1>1, <4>1, <4>2, <4>3, <4>4 DEF WriterState
    <3>. QED  BY <3>2, <3>3
  <2>. QED  BY <2>2, <2>3, <2>4
<1>. QED  BY <1>3, <1>4

LEMMA AnswerLenType ==
  ASSUME NEW a, Len(a.payload) \in 0..Len(Identity)  PROVE AnswerLen(a) \in 7..11
<1>1. Len(Identity) = 4
  BY DEF Identity
<1>2. PICK p \in 0..4 : Len(a.payload) = p
  BY <1>1
<1>. QED  BY <1>2 DEF AnswerLen, Framing

(* The transmitter and the FIFO in front of it, counted.                    *)
LEMMA FifoLen ==
  ASSUME NEW S, NEW queue \in Seq(S), NEW depth \in Nat, NEW push \in Seq(S),
         NEW pop \in BOOLEAN, pop => queue # <<>>
  PROVE  \E more \in {0, Len(push)} :
           /\ Len(queue) = depth => more = 0
           /\ pop   => Len(Fifo(queue, depth, push, pop)) = Len(queue) - 1 + more
           /\ ~ pop => Len(Fifo(queue, depth, push, pop)) = Len(queue) + more
<1>. DEFINE left == IF pop THEN Tail(queue) ELSE queue
            new  == IF Len(queue) < depth THEN push ELSE <<>>
<1>1. /\ left \in Seq(S)
      /\ pop => Len(left) = Len(queue) - 1
      /\ ~ pop => Len(left) = Len(queue)
  BY HeadTailProperties
<1>2. new \in Seq(S) /\ Len(new) \in {0, Len(push)} /\ (Len(queue) = depth => Len(new) = 0)
  BY EmptySeq
<1>3. Len(left \o new) = Len(left) + Len(new)
  <2>. HIDE DEF left, new
  <2>. QED  BY <1>1, <1>2, ConcatProperties
<1>4. Fifo(queue, depth, push, pop) = left \o new
  BY DEF Fifo
<1>. HIDE DEF left, new
<1>. QED  BY <1>1, <1>2, <1>3, <1>4

Full == Len(txFifo) = TxDepth
LEMMA TransmitFacts ==
  ASSUME TypeInv, Transmit
  PROVE  /\ tx.busy \in 0..ByteTime /\ tx'.busy \in 0..ByteTime
         /\ tx.busy > 0 => tx'.busy = tx.busy - 1
         /\ Full' /\ ~ Full => tx'.busy < ByteTime
         /\ Full /\ tx.busy = 0 => ~ Full'
<1>. DEFINE start == txFifo # <<>> /\ ~ TxBusy
            push  == IF resp.active THEN <<[answer |-> resp.answer, idx |-> resp.idx]>> ELSE <<>>
<1>1. /\ txFifo \in Seq(TxBytes) /\ Len(txFifo) <= TxDepth /\ Len(txFifo) \in Nat
      /\ tx \in [busy : 0..ByteTime, byte : Seq(TxBytes)]
      /\ ByteTime \in Nat \ {0} /\ TxDepth \in Nat \ {0}
  BY TimeTypes, LenProperties DEF TypeInv, DapTypeOK
<1>2. push \in Seq(TxBytes) /\ Len(push) \in 0..1
  <2>1. CASE resp.active
    <3>1. [answer |-> resp.answer, idx |-> resp.idx] \in TxBytes
      BY <2>1 DEF TypeInv, DapTypeOK, TxBytes
    <3>. QED  BY <2>1, <3>1
  <2>2. CASE ~ resp.active
    BY <2>2, EmptySeq
  <2>. QED  BY <2>1, <2>2
<1>3. start \in BOOLEAN /\ (start <=> txFifo # <<>> /\ tx.busy = 0)
  BY <1>1 DEF TxBusy
<1>4. txFifo' = Fifo(txFifo, TxDepth, push, start)
  BY DEF Transmit
<1>5. /\ start => tx'.busy = ByteTime
      /\ ~ start => tx'.busy = IF tx.busy > 1 THEN tx.busy - 1 ELSE 0
  BY <1>1 DEF Transmit
<1>. HIDE DEF start, push
<1>6. PICK more \in {0, Len(push)} :
        /\ Full => more = 0
        /\ start => Len(txFifo') = Len(txFifo) - 1 + more
        /\ ~ start => Len(txFifo') = Len(txFifo) + more
  <2>1. start => txFifo # <<>>
    BY <1>3
  <2>2. TxDepth \in Nat
    BY <1>1
  <2>. QED  BY <1>1, <1>2, <1>3, <1>4, <2>1, <2>2, FifoLen DEF Full
<1>7. Full /\ tx.busy = 0 => start
  <2>1. Full => txFifo # <<>>
    BY <1>1, EmptySeq DEF Full
  <2>. QED  BY <1>3, <2>1
<1>8. Full /\ tx.busy = 0 => ~ Full'
  <2>1. Full /\ tx.busy = 0 => Len(txFifo') = TxDepth - 1
    BY <1>1, <1>6, <1>7 DEF Full
  <2>. QED  BY <1>1, <2>1 DEF Full
<1>9. Full' /\ ~ Full => ~ start
  <2>1. Len(push) = 0 \/ Len(push) = 1
    BY <1>2
  <2>2. more = 0 \/ more = 1
    BY <1>6, <2>1
  <2>3. ~ Full /\ start => Len(txFifo') < TxDepth
    BY <1>1, <1>6, <2>2 DEF Full
  <2>. QED  BY <1>1, <2>3 DEF Full
<1>. QED  BY <1>1, <1>3, <1>5, <1>8, <1>9

LEMMA TurnProduct ==
  ASSUME NEW n \in 1..11, NEW turn \in Nat  PROVE n * turn = (n - 1) * turn + turn /\ n * turn <= 11 * turn
                                              /\ n * turn \in Nat /\ (n - 1) * turn \in Nat
OBVIOUS

LEMMA ResponseStep ==
  ASSUME TypeInv, LimitIsAmple, InTime, Tick, BusInv', RomInv'  PROVE ResponseInv'
<1>1. /\ EngineCase /\ engine' \in EngineState /\ engine \in EngineState
      /\ engine.timeout \in Nat
      /\ engine'.timeout = IF engine.st = "IDLE" THEN 0 ELSE engine.timeout + 1
      /\ Transmit
  BY EngineCases, TimeCases DEF Tick, TypeInv, DapTypeOK
<1>2. /\ ByteTime \in Nat \ {0} /\ TxDepth \in Nat \ {0}
      /\ ChunkTime = 7 /\ ResponseTime = 12 * (ByteTime + 1) + 1 /\ ResponseTime \in Nat
      /\ CommandTime = 7 + ResponseTime
  BY TimeTypes
<1>3. /\ engine.st # "ERROR"
      /\ resp.active => engine.st = "RESP" /\ resp.idx < AnswerLen(resp.answer)
      /\ engine.st = "RESP" => engine.timeout + ResponseLeft <= CommandTime
      /\ resp \in [active : BOOLEAN, answer : Begun \cup {None.answer}, idx : Nat]
      /\ resp.idx \in Nat
  BY DEF InTime, ResponseInv, TypeInv, DapTypeOK
<1>4. ~ resp.active => Pushed = resp
  BY DEF Pushed
<1>5. engine'.timeout <= CommandTime /\ engine'.st # "ERROR"
  <2>1. CASE engine'.st \in {"AXI_READ", "AXI_WRITE"}
    <3>1. engine'.timeout \in 0..3
      BY <2>1 DEF BusInv, Access
    <3>. QED  BY <1>2, <2>1, <3>1
  <2>2. CASE engine'.st = "ROM_WAIT"
    <3>1. engine'.timeout + ChunkLeft' <= 7 /\ engine'.timeout \in Nat
      BY <1>1, <1>2, <2>2 DEF RomInv
    <3>2. ChunkLeft' \in Nat
      <4>1. writer' \in WriterState /\ ChunkLen(writer'.payload) \in Nat /\ writer'.index \in Nat
        <5>1. writer' \in WriterState
          BY ChunkTypes DEF Tick
        <5>. QED  BY <5>1, ChunkLenType DEF WriterState
      <4>2. writer'.st \in {"CRC", "WRITE"} =>
              ChunkLen(writer'.payload) \in 1..MaxChunk /\ writer'.index < ChunkLen(writer'.payload)
        BY <2>2 DEF RomInv
      <4>. QED  BY <1>2, <4>1, <4>2 DEF ChunkLeft, MaxChunk
    <3>. QED  BY <1>2, <2>2, <3>1, <3>2
  <2>3. CASE engine'.st \in {"IDLE", "RESP", "ERROR"}
    <3>1. CASE engine.st = "IDLE"
      BY <1>1, <1>2, <2>3, <3>1 DEF EngineCase, Idles, Answers, Reads, Writes, Loads
    <3>2. CASE Finishes
      <4>1. engine.timeout <= 7 /\ engine'.st = "RESP"
        <5>1. Access => engine.timeout <= 7
          BY <1>1 DEF InTime, BusInv
        <5>2. engine.st = "ROM_WAIT" /\ writer.done => engine.timeout + 1 <= 7
          BY <1>2 DEF InTime, RomInv, ChunkLeft
        <5>. QED  BY <1>1, <3>2, <5>1, <5>2 DEF Finishes, Access
      <4>. QED  BY <1>1, <1>2, <4>1
    <3>3. CASE Returns
      <4>1. engine.st = "RESP" /\ engine.timeout + ResponseLeft <= CommandTime
        BY <1>3, <3>3 DEF Returns
      <4>2. ResponseLeft \in Nat /\ ResponseLeft >= 1
        <5>1. tx.busy \in Nat
          BY <1>1, TransmitFacts
        <5>2. CASE resp.active
          <6>. DEFINE n == AnswerLen(resp.answer) - resp.idx
          <6>1. n \in 1..11
            <7>1. resp.answer \in Begun /\ Len(resp.answer.payload) \in 0..Len(Identity)
              BY <5>2 DEF TypeInv, DapTypeOK
            <7>2. AnswerLen(resp.answer) \in 7..11
              BY <7>1, AnswerLenType
            <7>. QED  BY <1>3, <5>2, <7>2
          <6>2. n * (ByteTime + 1) \in Nat
            <7>. HIDE DEF n
            <7>. QED  BY <1>2, <6>1, TurnProduct
          <6>3. ResponseLeft = n * (ByteTime + 1) + 1 + (IF Full THEN tx.busy + 1 ELSE 0)
            BY <5>2 DEF ResponseLeft, Full
          <6>. HIDE DEF n
          <6>. QED  BY <5>1, <6>2, <6>3
        <5>3. CASE ~ resp.active
          BY <5>1, <5>3 DEF ResponseLeft
        <5>. QED  BY <5>2, <5>3
      <4>. QED  BY <1>1, <1>2, <1>3, <2>3, <3>3, <4>1, <4>2 DEF Returns
    <3>4. ~ Waits
      BY <1>1, <2>3, BaseFacts DEF Waits
    <3>. QED  BY <1>1, <3>1, <3>2, <3>3, <3>4 DEF EngineCase
  <2>. QED  BY <1>1, <2>1, <2>2, <2>3 DEF EngineState
<1>6. PICK started \in BOOLEAN : started <=> Answers \/ Finishes
  OBVIOUS
<1>7. tx'.busy \in 0..ByteTime /\ tx.busy \in 0..ByteTime
  BY <1>1, TransmitFacts
<1>8. CASE started
  <2>1. engine'.st = "RESP" /\ engine'.timeout \in 0..7
    <3>1. Access => engine.timeout <= 3
      BY <1>1 DEF InTime, BusInv
    <3>2. engine.st = "ROM_WAIT" /\ writer.done => engine.timeout + 1 <= 7
      BY <1>2 DEF InTime, RomInv, ChunkLeft
    <3>. QED  BY <1>1, <1>6, <1>8, <3>1, <3>2 DEF Answers, Finishes, CmdEvent, Access
  <2>2. PICK a : Replies(a)
    BY <1>6, <1>8 DEF Answers, Finishes
  <2>. DEFINE n == AnswerLen(a)
  <2>3. resp'.active /\ resp'.answer = a /\ resp'.idx = 0 /\ n \in 1..11
    <3>3. n \in 1..11
      BY <2>2, AnswerLenType DEF Replies
    <3>. QED  BY <2>2, <3>3 DEF Replies
  <2>4. ResponseLeft' = (n - 0) * (ByteTime + 1) + 1 + (IF Full' THEN tx'.busy + 1 ELSE 0)
    BY <2>3 DEF ResponseLeft, Full
  <2>5. n * (ByteTime + 1) \in Nat /\ n * (ByteTime + 1) <= 11 * (ByteTime + 1)
    <3>. HIDE DEF n
    <3>. QED  BY <1>2, <2>3, TurnProduct
  <2>6. ResponseLeft' <= ResponseTime /\ ResponseLeft' \in Nat
    <3>. HIDE DEF n
    <3>1. n - 0 = n
      BY <2>3
    <3>. QED  BY <1>2, <1>7, <2>4, <2>5, <3>1
  <2>. QED  BY <1>2, <1>5, <2>1, <2>3, <2>6 DEF ResponseInv
<1>9. CASE ~ started
  <2>1. resp' = Pushed
    BY <1>1, <1>6, <1>9 DEF EngineCase, Idles, Reads, Writes, Loads, Waits, Returns, NoResponse
  <2>2. CASE ~ Returns
    <3>1. ~ resp'.active
      <4>1. ~ resp.active
        BY <1>1, <1>3, <1>6, <1>9, <2>2 DEF EngineCase, Waits
      <4>. QED  BY <1>4, <2>1, <4>1
    <3>2. engine'.st # "RESP"
      BY <1>1, <1>6, <1>9, <2>2, BaseFacts DEF EngineCase, Idles, Reads, Writes, Loads, Waits
    <3>. QED  BY <1>5, <3>1, <3>2 DEF ResponseInv
  <2>3. CASE Returns
    <3>1. /\ engine.st = "RESP" /\ engine.timeout + ResponseLeft <= CommandTime
          /\ engine'.timeout = engine.timeout + 1
          /\ engine'.st = IF ~ resp.active /\ ~ TxBusy THEN "IDLE" ELSE "RESP"
      BY <1>1, <1>3, <2>3 DEF Returns
    <3>2. CASE ~ resp.active
      <4>1. ~ resp'.active
        BY <1>4, <2>1, <3>2
      <4>2. engine'.st = "RESP" => tx.busy > 0 /\ ResponseLeft = tx.busy + 1 /\ ResponseLeft' = tx.busy
        <5>1. engine'.st = "RESP" => tx.busy > 0
          BY <3>1, <3>2 DEF TxBusy
        <5>2. tx.busy > 0 => tx'.busy = tx.busy - 1
          BY <1>1, TransmitFacts
        <5>. QED  BY <1>7, <3>2, <4>1, <5>1, <5>2 DEF ResponseLeft
      <4>3. engine'.st = "RESP" => engine'.timeout + ResponseLeft' <= CommandTime
        BY <1>1, <1>2, <1>7, <3>1, <4>2
      <4>. QED  BY <1>5, <4>1, <4>3 DEF ResponseInv
    <3>3. CASE resp.active
      <4>. DEFINE n == AnswerLen(resp.answer) - resp.idx
                  turn == ByteTime + 1
      <4>1. AnswerLen(resp.answer) \in 7..11 /\ n \in 1..11 /\ resp.idx \in Nat /\ turn \in Nat
        <5>1. resp.answer \in Begun /\ Len(resp.answer.payload) \in 0..Len(Identity)
          BY <3>3 DEF TypeInv, DapTypeOK
        <5>4. AnswerLen(resp.answer) \in 7..11
          BY <5>1, AnswerLenType
        <5>5. n \in 1..11
          BY <1>3, <3>3, <5>4
        <5>. QED  BY <1>2, <1>3, <5>4, <5>5
      <4>2. ResponseLeft = n * turn + 1 + (IF Full THEN tx.busy + 1 ELSE 0)
        BY <3>3 DEF ResponseLeft, Full
      <4>3. n * turn = (n - 1) * turn + turn /\ n * turn \in Nat /\ (n - 1) * turn \in Nat
        <5>. HIDE DEF n, turn
        <5>. QED  BY <4>1, TurnProduct
      <4>4. engine'.st = "RESP"
        BY <3>1, <3>3
      <4>5. CASE Full
        <5>1. resp' = resp
          BY <2>1, <4>5 DEF Pushed, Full
        <5>2. ResponseLeft' = n * turn + 1 + (IF Full' THEN tx'.busy + 1 ELSE 0)
          BY <3>3, <5>1 DEF ResponseLeft, Full
        <5>3. CASE tx.busy = 0
          <6>1. ~ Full'
            BY <1>1, <4>5, <5>3, TransmitFacts
          <6>2. engine'.timeout + ResponseLeft' <= CommandTime
            <7>. HIDE DEF n, turn
            <7>. QED  BY <1>1, <1>2, <3>1, <4>2, <4>3, <4>5, <5>2, <5>3, <6>1
          <6>. QED  BY <1>3, <1>5, <3>3, <4>4, <5>1, <6>2 DEF ResponseInv
        <5>4. CASE tx.busy > 0
          <6>1. tx'.busy = tx.busy - 1
            BY <1>1, <5>4, TransmitFacts
          <6>2. engine'.timeout + ResponseLeft' <= CommandTime
            <7>. HIDE DEF n, turn
            <7>. QED  BY <1>1, <1>2, <1>7, <3>1, <4>2, <4>3, <4>5, <5>2, <5>4, <6>1
          <6>. QED  BY <1>3, <1>5, <3>3, <4>4, <5>1, <6>2 DEF ResponseInv
        <5>. QED  BY <1>7, <5>3, <5>4
      <4>6. CASE ~ Full
        <5>1. CASE resp.idx + 1 >= AnswerLen(resp.answer)
          <6>1. resp' = [resp EXCEPT !.idx = 0, !.active = FALSE] /\ n = 1
            <7>1. n = 1
              BY <1>3, <3>3, <4>1, <5>1
            <7>. QED  BY <2>1, <3>3, <4>6, <5>1, <7>1 DEF Pushed, Full, AnswerLen
          <6>2. ~ resp'.active /\ ResponseLeft' = tx'.busy + 1
            BY <1>3, <6>1 DEF ResponseLeft
          <6>3. engine'.timeout + ResponseLeft' <= CommandTime
            <7>1. n * turn = turn
              BY <4>1, <6>1
            <7>2. ResponseLeft = ByteTime + 2
              BY <1>2, <4>2, <4>6, <7>1
            <7>. HIDE DEF n, turn
            <7>. QED  BY <1>1, <1>2, <1>7, <3>1, <6>2, <7>2
          <6>. QED  BY <1>5, <6>2, <6>3 DEF ResponseInv
        <5>2. CASE ~ (resp.idx + 1 >= AnswerLen(resp.answer))
          <6>1. resp' = [resp EXCEPT !.idx = resp.idx + 1]
            BY <2>1, <3>3, <4>1, <4>6, <5>2 DEF Pushed, Full, AnswerLen
          <6>2. resp'.active /\ resp'.answer = resp.answer /\ resp'.idx = resp.idx + 1
            BY <1>3, <3>3, <6>1
          <6>3. ResponseLeft' = (n - 1) * turn + 1 + (IF Full' THEN tx'.busy + 1 ELSE 0)
            <7>1. AnswerLen(resp'.answer) - resp'.idx = n - 1
              BY <4>1, <6>2
            <7>. QED  BY <6>2, <7>1 DEF ResponseLeft, Full
          <6>4. Full' => tx'.busy < ByteTime
            BY <1>1, <4>6, TransmitFacts
          <6>5. engine'.timeout + ResponseLeft' <= CommandTime
            <7>1. turn = ByteTime + 1
              OBVIOUS
            <7>. HIDE DEF n, turn
            <7>. QED  BY <1>1, <1>2, <1>7, <3>1, <4>2, <4>3, <4>6, <6>3, <6>4, <7>1
          <6>6. resp'.idx < AnswerLen(resp'.answer)
            BY <4>1, <5>2, <6>2
          <6>. QED  BY <1>5, <4>4, <6>5, <6>6 DEF ResponseInv
        <5>. QED  BY <5>1, <5>2
      <4>. QED  BY <4>5, <4>6
    <3>. QED  BY <3>2, <3>3
  <2>. QED  BY <2>2, <2>3
<1>. QED  BY <1>8, <1>9

LEMMA UnlockStep ==
  ASSUME TypeInv, LimitIsAmple, InTime, Tick  PROVE UnlockInv'
<1>1. EngineCase /\ UnlockInv
  BY EngineCases DEF Tick, InTime
<1>2. Waits => engine'.st = engine.st /\ engine'.unlocked = engine.unlocked
  BY BaseFacts DEF Waits
<1>3. engine'.st \in {"AXI_WRITE", "ROM_WAIT"} => engine'.unlocked
  BY <1>1, <1>2 DEF EngineCase, Idles, Answers, Reads, Writes, Loads, Finishes, Returns, UnlockInv
<1>4. engine'.release => engine'.unlocked
  BY HeldOrReleased DEF Tick
<1>. QED  BY <1>3, <1>4 DEF UnlockInv

LEMMA InTimeInit == Init => InTime
<1>. SUFFICES ASSUME Init PROVE InTime
  OBVIOUS
<1>1. /\ engine.st = "IDLE" /\ engine.timeout = 0 /\ ~ engine.chunk
      /\ ~ engine.bready /\ ~ engine.rready /\ ~ engine.release
      /\ engine.aw = <<>> /\ engine.w = <<>> /\ engine.ar = <<>>
      /\ ~ resp.active /\ writer.st = "IDLE" /\ ~ writer.done
  BY DEF Init, None
<1>2. PortAt(skid, bridge, engine.st = "AXI_WRITE", 4) /\ OffersAt(engine, engine.st = "AXI_WRITE", 4)
  <2>1. skid = Axi!Quiet /\ bridge = Axi!Opened
    BY DEF Init, Axi!AxiInit
  <2>. QED  BY <1>1, <2>1 DEF PortAt, OffersAt, Axi!Quiet, Axi!Opened
<1>3. BusInv
  <2>1. ~ Access /\ Age = 4
    BY <1>1 DEF Age, Access
  <2>. QED  BY <1>1, <1>2, <2>1 DEF BusInv
<1>4. RomInv /\ UnlockInv
  BY <1>1 DEF RomInv, UnlockInv
<1>5. ResponseInv
  BY <1>1, TimeTypes DEF ResponseInv
<1>. QED  BY <1>3, <1>4, <1>5 DEF InTime

LEMMA InTimeStep ==
  ASSUME LimitIsAmple, TypeInv, InTime, [Tick]_vars  PROVE InTime'
<1>1. CASE Tick
  BY <1>1, BusStep, RomStep, ResponseStep, UnlockStep DEF InTime
<1>2. CASE UNCHANGED vars
  BY <1>2 DEF vars, wires, InTime, BusInv, Access, Age, OffersAt, PortAt, RomInv, ChunkLeft,
     ResponseInv, ResponseLeft, UnlockInv, AnswerLen
<1>. QED  BY <1>1, <1>2

(* With a limit longer than the longest command, no command reaches it: not *)
(* a bus access, a chunk of program, nor an answer that waits for the line. *)
THEOREM NoneTimesOut ==
  ASSUME LimitIsAmple PROVE Spec => []NoTimeout
<1>1. TypeInv /\ InTime => NoTimeout
  BY BelowLimit DEF NoTimeout
<1>2. TypeInv /\ InTime /\ [Tick]_vars => TypeInv' /\ InTime'
  BY TypeStep, InTimeStep
<1>. QED  BY <1>1, <1>2, TypeInit, InTimeInit, PTL DEF Spec

(* A locked bridge drives neither the write channels nor program memory nor *)
(* the release of the core, also while a command from before the lock might *)
(* still be under way.                                                      *)
THEOREM LockKeepsQuiet ==
  ASSUME LimitIsAmple PROVE Spec => []LockedIsQuiet
<1>1. InTime => LockedIsQuiet
  <2>. SUFFICES ASSUME InTime, ~ engine.unlocked
                PROVE  /\ engine.aw = <<>> /\ engine.w = <<>> /\ ~ engine.bready
                       /\ writer.st # "WRITE" /\ ~ engine.release
    BY DEF LockedIsQuiet
  <2>1. engine.st # "AXI_WRITE" /\ engine.st # "ROM_WAIT" /\ ~ engine.release
    BY DEF InTime, UnlockInv
  <2>2. engine.aw = <<>> /\ engine.w = <<>> /\ ~ engine.bready
    BY <2>1 DEF InTime, BusInv, OffersAt
  <2>3. writer.st # "WRITE"
    BY <2>1 DEF InTime, RomInv
  <2>. QED  BY <2>1, <2>2, <2>3
<1>2. TypeInv /\ InTime /\ [Tick]_vars => TypeInv' /\ InTime'
  BY TypeStep, InTimeStep
<1>. QED  BY <1>1, <1>2, TypeInit, InTimeInit, PTL DEF Spec

-----------------------------------------------------------------------------
(* The answers arrive whole.  Places that follow one another still do when  *)
(* the first byte is received, one is pushed, or another answer is begun.   *)
Extends(longer, answers) ==
  Len(answers) <= Len(longer) /\ \A k \in 1..Len(answers) : longer[k] = answers[k]

LEMMA AfterExtends ==
  ASSUME NEW T1, NEW answers \in Seq(T1), NEW T2, NEW longer \in Seq(T2), Extends(longer, answers),
         NEW p \in Place, p.answer \in 1..Len(answers)
  PROVE  /\ After(longer, p) = After(answers, p)
         /\ \A byte : IsAt(answers, p, byte) => IsAt(longer, p, byte)
<1>1. longer[p.answer] = answers[p.answer] /\ p.answer \in 1..Len(longer)
  BY LenProperties DEF Extends
<1>. QED  BY <1>1 DEF After, IsAt

(* d are taken at the front, p put at the end. *)
Shifts(moved, way, d, p) ==
  /\ d \in {0, 1} /\ p \in {0, 1} /\ d <= Len(way) /\ Len(moved) = Len(way) - d + p
  /\ \A k \in 1..(Len(way) - d) : moved[k] = way[k + d]

Advances(S, T, way, moved, d, p, answers, longer, in, out, at, first, next) ==
  /\ way \in Seq(S) /\ moved \in Seq(S) /\ Shifts(moved, way, d, p)
  /\ answers \in Seq(T) /\ longer \in Seq(T) /\ Extends(longer, answers)
  /\ Follows(at, way, answers, in, out)
  /\ p = 1 => IsAt(longer, out, moved[Len(moved)])
  /\ first = IF d = 1 THEN After(answers, in) ELSE in
  /\ next \in Place /\ next = IF p = 1 THEN After(longer, out) ELSE out

LEMMA FollowsStep ==
  ASSUME NEW S, NEW T, NEW way, NEW moved, NEW d, NEW p, NEW answers, NEW longer,
         NEW in, NEW out, NEW at, NEW first, NEW next,
         Advances(S, T, way, moved, d, p, answers, longer, in, out, at, first, next)
  PROVE  \E now : Follows(now, moved, longer, first, next)
<1>0. /\ way \in Seq(S) /\ moved \in Seq(S) /\ Shifts(moved, way, d, p)
      /\ answers \in Seq(T) /\ longer \in Seq(T) /\ Extends(longer, answers)
      /\ Follows(at, way, answers, in, out)
      /\ p = 1 => IsAt(longer, out, moved[Len(moved)])
      /\ first = IF d = 1 THEN After(answers, in) ELSE in
      /\ next \in Place /\ next = IF p = 1 THEN After(longer, out) ELSE out
  BY DEF Advances
<1>. DEFINE n   == Len(way)
            m   == Len(moved)
            now == [k \in 1..(m + 1) |-> IF k <= n - d + 1 THEN at[k + d] ELSE next]
<1>1. /\ n \in Nat /\ m \in Nat /\ m = n - d + p /\ n - d \in Nat
      /\ d \in {0, 1} /\ p \in {0, 1} /\ \A k \in 1..(n - d) : moved[k] = way[k + d]
  BY <1>0, LenProperties DEF Shifts
<1>2. /\ at \in [1..(n + 1) -> Place] /\ at[1] = in /\ at[n + 1] = out
      /\ \A k \in 1..n : IsAt(answers, at[k], way[k]) /\ at[k + 1] = After(answers, at[k])
  BY <1>0 DEF Follows
<1>. HIDE DEF n, m
<1>3. ASSUME NEW k \in 1..(n - d + 1)  PROVE k \in 1..(m + 1) /\ k + d \in 1..(n + 1) /\ now[k] = at[k + d]
  BY <1>1
<1>4. now \in [1..(m + 1) -> Place]
  <2>1. ASSUME NEW k \in 1..(m + 1)
        PROVE  (IF k <= n - d + 1 THEN at[k + d] ELSE next) \in Place
    <3>1. k <= n - d + 1 => k + d \in 1..(n + 1)
      BY <1>1
    <3>. QED  BY <1>0, <1>2, <3>1
  <2>. QED  BY <2>1
<1>5. now[1] = first
  <2>1. 1 \in 1..(n - d + 1)
    BY <1>1
  <2>2. now[1] = at[1 + d]
    BY <1>3, <2>1
  <2>3. CASE d = 0
    BY <1>0, <1>2, <2>2, <2>3
  <2>4. CASE d = 1
    <3>1. 1 \in 1..n
      BY <1>1, <2>4
    <3>. QED  BY <1>0, <1>2, <2>2, <2>4, <3>1
  <2>. QED  BY <1>1, <2>3, <2>4
<1>6. now[m + 1] = next
  <2>1. CASE p = 0
    <3>1. m + 1 = n - d + 1 /\ (m + 1) + d = n + 1 /\ m + 1 \in 1..(n - d + 1) /\ next = out
      BY <1>0, <1>1, <2>1
    <3>. QED  BY <1>2, <1>3, <3>1
  <2>2. CASE p = 1
    <3>1. m + 1 \in 1..(m + 1) /\ ~ (m + 1 <= n - d + 1)
      BY <1>1, <2>2
    <3>. QED  BY <3>1
  <2>. QED  BY <1>1, <2>1, <2>2
<1>7. ASSUME NEW k \in 1..m
      PROVE  IsAt(longer, now[k], moved[k]) /\ now[k + 1] = After(longer, now[k])
  <2>1. CASE k <= n - d
    <3>1. /\ k \in 1..(n - d) /\ k + d \in 1..n
          /\ k \in 1..(n - d + 1) /\ k + 1 \in 1..(n - d + 1) /\ (k + 1) + d = (k + d) + 1
      BY <1>1, <2>1
    <3>2. now[k] = at[k + d] /\ now[k + 1] = at[(k + d) + 1] /\ moved[k] = way[k + d]
      BY <1>1, <1>3, <3>1
    <3>3. IsAt(answers, at[k + d], way[k + d]) /\ at[(k + d) + 1] = After(answers, at[k + d])
      BY <1>2, <3>1
    <3>4. at[k + d] \in Place /\ at[k + d].answer \in 1..Len(answers)
      <4>1. k + d \in 1..(n + 1)
        BY <1>1, <3>1
      <4>. QED  BY <1>2, <3>3, <4>1 DEF IsAt
    <3>. HIDE DEF now
    <3>. QED  BY <1>0, <3>2, <3>3, <3>4, AfterExtends
  <2>2. CASE ~ (k <= n - d)
    <3>1. p = 1 /\ k = m /\ k = n - d + 1 /\ k + d = n + 1 /\ k \in 1..(n - d + 1)
      BY <1>1, <2>2
    <3>2. now[k] = out /\ now[k + 1] = next
      BY <1>2, <1>3, <1>6, <3>1
    <3>. HIDE DEF now
    <3>. QED  BY <1>0, <3>1, <3>2 DEF m
  <2>. QED  BY <2>1, <2>2
<1>8. Follows(now, moved, longer, first, next)
  <2>. HIDE DEF now
  <2>. QED  BY <1>4, <1>5, <1>6, <1>7 DEF Follows, m
<1>. QED  BY <1>8

LEMMA HeadThenTail ==
  ASSUME NEW S, NEW s \in Seq(S), s # <<>>  PROVE <<Head(s)>> \o Tail(s) = s
<1>. DEFINE one  == <<Head(s)>>
            both == one \o Tail(s)
<1>1. /\ Len(s) \in Nat \ {0} /\ Head(s) \in S /\ Head(s) = s[1] /\ Tail(s) \in Seq(S)
      /\ Len(Tail(s)) = Len(s) - 1 /\ \A i \in 1..Len(Tail(s)) : Tail(s)[i] = s[i + 1]
  BY EmptySeq, HeadTailProperties
<1>2. one \in Seq(S) /\ Len(one) = 1 /\ one[1] = s[1]
  BY <1>1
<1>. HIDE DEF one
<1>3. /\ both \in Seq(S) /\ Len(both) = Len(one) + Len(Tail(s))
      /\ \A i \in 1..(Len(one) + Len(Tail(s))) :
           both[i] = IF i <= Len(one) THEN one[i] ELSE Tail(s)[i - Len(one)]
  BY <1>1, <1>2, ConcatProperties
<1>. HIDE DEF both
<1>4. Len(both) = Len(s)
  BY <1>1, <1>2, <1>3
<1>5. ASSUME NEW i \in 1..Len(both)  PROVE both[i] = s[i]
  <2>1. CASE i = 1
    <3>1. 1 \in 1..(Len(one) + Len(Tail(s))) /\ 1 <= Len(one)
      BY <1>1, <1>2
    <3>. QED  BY <1>2, <1>3, <2>1, <3>1
  <2>2. CASE i # 1
    <3>1. /\ i \in 1..(Len(one) + Len(Tail(s))) /\ ~ (i <= Len(one))
          /\ i - Len(one) \in 1..Len(Tail(s)) /\ (i - Len(one)) + 1 = i
      BY <1>1, <1>2, <1>3, <1>5, <2>2
    <3>. QED  BY <1>1, <1>3, <3>1
  <2>. QED  BY <2>1, <2>2
<1>6. both = s
  BY <1>3, <1>4, <1>5, SeqEqual
<1>. QED  BY <1>6 DEF both, one

(* What a step does to the bytes on their way: it receives d and pushes p.  *)
LEMMA WayStep ==
  ASSUME TypeInv, Transmit,
         NEW d \in {0, 1}, d = 1 <=> tx.busy = 1, NEW p \in {0, 1}, p = 1 <=> resp.active /\ ~ Full
  PROVE  /\ OnTheWay \in Seq(TxBytes) /\ OnTheWay' \in Seq(TxBytes)
         /\ d <= Len(OnTheWay) /\ Len(OnTheWay') = Len(OnTheWay) - d + p
         /\ \A k \in 1..(Len(OnTheWay) - d) : OnTheWay'[k] = OnTheWay[k + d]
         /\ p = 1 => OnTheWay'[Len(OnTheWay')] = [answer |-> resp.answer, idx |-> resp.idx]
         /\ d = 1 => tx.byte[1] = OnTheWay[1]
<1>. DEFINE start == txFifo # <<>> /\ ~ TxBusy
            byte  == [answer |-> resp.answer, idx |-> resp.idx]
            push  == IF resp.active THEN <<byte>> ELSE <<>>
            new   == IF p = 1 THEN <<byte>> ELSE <<>>
            left  == IF d = 1 THEN txFifo ELSE OnTheWay
<1>1. /\ txFifo \in Seq(TxBytes) /\ Len(txFifo) \in Nat /\ Len(txFifo) <= TxDepth
      /\ tx \in [busy : 0..ByteTime, byte : Seq(TxBytes)] /\ tx.byte \in Seq(TxBytes)
      /\ Len(tx.byte) <= 1 /\ Len(tx.byte) \in Nat /\ tx.busy > 0 <=> tx.byte # <<>>
      /\ ByteTime \in Nat \ {0} /\ TxDepth \in Nat \ {0}
  BY TimeTypes, LenProperties DEF TypeInv, DapTypeOK
<1>2. new \in Seq(TxBytes) /\ Len(new) = p /\ (p = 1 => new[1] = byte)
  <2>1. CASE p = 1
    <3>1. byte \in TxBytes
      BY <2>1 DEF TypeInv, DapTypeOK, TxBytes
    <3>. HIDE DEF byte
    <3>. QED  BY <2>1, <3>1
  <2>2. CASE p = 0
    BY <2>2, EmptySeq
  <2>. QED  BY <2>1, <2>2
<1>3. txFifo' = (IF start THEN Tail(txFifo) ELSE txFifo) \o new
  <2>1. txFifo' = (IF start THEN Tail(txFifo) ELSE txFifo)
                  \o (IF Len(txFifo) < TxDepth THEN push ELSE <<>>)
    BY DEF Transmit, Fifo
  <2>2. (IF Len(txFifo) < TxDepth THEN push ELSE <<>>) = new
    <3>1. Len(txFifo) < TxDepth <=> ~ Full
      BY <1>1 DEF Full
    <3>. HIDE DEF byte
    <3>. QED  BY <3>1
  <2>. QED  BY <2>1, <2>2
<1>4. OnTheWay \in Seq(TxBytes) /\ Len(OnTheWay) = Len(tx.byte) + Len(txFifo)
      /\ left \in Seq(TxBytes)
  BY <1>1, ConcatProperties DEF OnTheWay
<1>. HIDE DEF new, byte, push
<1>5. OnTheWay' = left \o new
  <2>1. CASE d = 1
    <3>1. tx.busy = 1 /\ ~ start /\ tx'.byte = <<>>
      BY <1>1, <2>1 DEF Transmit, TxBusy
    <3>2. OnTheWay' = <<>> \o (txFifo \o new)
      BY <1>3, <3>1 DEF OnTheWay
    <3>3. txFifo \o new \in Seq(TxBytes)
      BY <1>1, <1>2, ConcatProperties
    <3>4. OnTheWay' = txFifo \o new
      BY <3>2, <3>3, ConcatEmptySeq
    <3>. QED  BY <2>1, <3>4
  <2>2. CASE d = 0 /\ tx.busy > 0
    <3>1. ~ start /\ tx.busy > 1
      BY <1>1, <2>2 DEF TxBusy
    <3>2. tx' = [tx EXCEPT !.busy = tx.busy - 1]
      BY <3>1 DEF Transmit
    <3>3. tx'.byte = tx.byte
      BY <1>1, <3>2
    <3>4. OnTheWay' = tx.byte \o (txFifo \o new)
      BY <1>3, <3>1, <3>3 DEF OnTheWay
    <3>5. (tx.byte \o txFifo) \o new = tx.byte \o (txFifo \o new)
      <4>1. tx.byte \in Seq(TxBytes) /\ txFifo \in Seq(TxBytes) /\ new \in Seq(TxBytes)
        BY <1>1, <1>2
      <4>2. ASSUME NEW s \in Seq(TxBytes), NEW t \in Seq(TxBytes), NEW u \in Seq(TxBytes)
            PROVE  (s \o t) \o u = s \o (t \o u)
        BY ConcatAssociative
      <4>. QED  BY <4>1, <4>2
    <3>6. OnTheWay' = OnTheWay \o new
      BY <3>4, <3>5 DEF OnTheWay
    <3>. QED  BY <2>2, <3>6
  <2>3. CASE tx.busy = 0
    <3>1. tx.byte = <<>> /\ OnTheWay = txFifo /\ d = 0
      <4>1. tx.byte = <<>> /\ d = 0
        BY <1>1, <2>3
      <4>. QED  BY <1>1, <4>1, ConcatEmptySeq DEF OnTheWay
    <3>2. CASE start
      <4>1. tx'.byte = <<Head(txFifo)>> /\ txFifo # <<>>
        BY <3>2 DEF Transmit
      <4>2. /\ Head(txFifo) \in TxBytes /\ Tail(txFifo) \in Seq(TxBytes)
            /\ <<Head(txFifo)>> \in Seq(TxBytes)
        BY <1>1, <4>1, HeadTailProperties
      <4>3. OnTheWay' = <<Head(txFifo)>> \o (Tail(txFifo) \o new)
        BY <1>3, <3>2, <4>1 DEF OnTheWay
      <4>4. OnTheWay' = (<<Head(txFifo)>> \o Tail(txFifo)) \o new
        BY <1>2, <4>2, <4>3, ConcatAssociative
      <4>5. <<Head(txFifo)>> \o Tail(txFifo) = txFifo
        BY <1>1, <4>1, HeadThenTail
      <4>. QED  BY <3>1, <4>4, <4>5
    <3>3. CASE ~ start
      <4>1. tx'.byte = <<>> /\ txFifo = <<>>
        BY <2>3, <3>3 DEF Transmit, TxBusy
      <4>2. txFifo \o new \in Seq(TxBytes)
        BY <1>1, <1>2, ConcatProperties
      <4>. QED  BY <1>3, <3>1, <3>3, <4>1, <4>2, ConcatEmptySeq DEF OnTheWay
    <3>. QED  BY <3>2, <3>3
  <2>. QED  BY <1>1, <2>1, <2>2, <2>3
<1>6. d = 1 => tx.byte[1] = OnTheWay[1] /\ Len(tx.byte) = 1
  <2>1. d = 1 => Len(tx.byte) = 1
    <3>1. ASSUME d = 1  PROVE Len(tx.byte) \in Nat \ {0}
      <4>1. tx.busy = 1
        BY <3>1
      <4>2. tx.byte # <<>>
        BY <1>1, <4>1
      <4>. QED  BY <1>1, <4>2, EmptySeq
    <3>2. PICK n \in Nat : Len(tx.byte) = n /\ n <= 1
      BY <1>1
    <3>3. d = 1 => n # 0
      BY <3>1, <3>2
    <3>. QED  BY <3>2, <3>3
  <2>2. \A i \in 1..(Len(tx.byte) + Len(txFifo)) :
          OnTheWay[i] = IF i <= Len(tx.byte) THEN tx.byte[i] ELSE txFifo[i - Len(tx.byte)]
    BY <1>1, ConcatProperties DEF OnTheWay
  <2>. QED  BY <1>1, <2>1, <2>2
<1>7. /\ d <= Len(OnTheWay) /\ Len(left) = Len(OnTheWay) - d
      /\ \A k \in 1..(Len(OnTheWay) - d) : left[k] = OnTheWay[k + d]
  <2>1. CASE d = 0
    <3>1. left = OnTheWay
      BY <2>1
    <3>2. Len(OnTheWay) \in Nat /\ \A k \in 1..Len(OnTheWay) : k + 0 = k
      BY <1>1, <1>4
    <3>. HIDE DEF left
    <3>. QED  BY <1>4, <2>1, <3>1, <3>2
  <2>2. CASE d = 1
    <3>1. left = txFifo /\ Len(OnTheWay) = 1 + Len(txFifo)
      BY <1>4, <1>6, <2>2
    <3>2. \A i \in 1..(Len(tx.byte) + Len(txFifo)) :
            OnTheWay[i] = IF i <= Len(tx.byte) THEN tx.byte[i] ELSE txFifo[i - Len(tx.byte)]
      BY <1>1, ConcatProperties DEF OnTheWay
    <3>3. ASSUME NEW k \in 1..Len(txFifo)  PROVE txFifo[k] = OnTheWay[k + 1]
      <4>1. k + 1 \in 1..(Len(tx.byte) + Len(txFifo)) /\ ~ (k + 1 <= Len(tx.byte))
            /\ (k + 1) - Len(tx.byte) = k
        BY <1>1, <1>6, <2>2
      <4>. QED  BY <3>2, <4>1
    <3>. HIDE DEF left
    <3>. QED  BY <1>1, <2>2, <3>1, <3>3
  <2>. QED  BY <2>1, <2>2
<1>. HIDE DEF left
<1>8. /\ OnTheWay' \in Seq(TxBytes) /\ Len(OnTheWay') = Len(left) + p
      /\ \A i \in 1..(Len(left) + p) :
           OnTheWay'[i] = IF i <= Len(left) THEN left[i] ELSE new[i - Len(left)]
  BY <1>2, <1>4, <1>5, ConcatProperties
<1>9. Len(left) \in Nat /\ Len(OnTheWay) \in Nat
  BY <1>4, LenProperties
<1>10. \A k \in 1..(Len(OnTheWay) - d) : OnTheWay'[k] = OnTheWay[k + d]
  BY <1>7, <1>8, <1>9
<1>11. p = 1 => OnTheWay'[Len(OnTheWay')] = byte
  <2>1. p = 1 => /\ Len(OnTheWay') \in 1..(Len(left) + p) /\ ~ (Len(OnTheWay') <= Len(left))
                 /\ Len(OnTheWay') - Len(left) = 1
    BY <1>8, <1>9
  <2>. QED  BY <1>2, <1>8, <2>1
<1>. QED  BY <1>4, <1>6, <1>7, <1>8, <1>10, <1>11 DEF byte

LEMMA AppendExtends ==
  ASSUME NEW T, NEW answers \in Seq(T), NEW a
  PROVE  /\ Extends(Append(answers, a), answers)
         /\ Len(Append(answers, a)) = Len(answers) + 1
         /\ Append(answers, a)[Len(answers) + 1] = a
<1>1. answers \in Seq(T \cup {a})
  BY SeqDef
<1>. QED  BY <1>1, AppendProperties DEF Extends

(* What a step does to the response under way, and to the answers begun.    *)
LEMMA OutStep ==
  ASSUME TypeInv, LimitIsAmple, InTime, StreamInv, Tick,
         NEW p \in {0, 1}, p = 1 <=> resp.active /\ ~ Full
  PROVE  /\ Extends(begun', begun) /\ NextOut' \in Place
         /\ NextOut' = IF p = 1 THEN After(begun', NextOut) ELSE NextOut
         /\ p = 1 => IsAt(begun', NextOut, [answer |-> resp.answer, idx |-> resp.idx])
         /\ resp'.active => begun' # <<>> /\ resp'.answer = begun'[Len(begun')]
<1>1. /\ EngineCase /\ Engine
      /\ resp.active => engine.st = "RESP" /\ resp.idx < AnswerLen(resp.answer)
      /\ resp \in [active : BOOLEAN, answer : Begun \cup {None.answer}, idx : Nat] /\ resp.idx \in Nat
      /\ begun \in Seq(Begun) /\ Len(begun) \in Nat
      /\ resp.active => begun # <<>> /\ resp.answer = begun[Len(begun)]
  BY EngineCases, LenProperties DEF Tick, InTime, ResponseInv, TypeInv, DapTypeOK, StreamInv
<1>2. resp.active => Len(begun) \in 1..Len(begun)
  BY <1>1, EmptySeq
<1>3. CASE NoResponse
  <2>1. begun' = begun /\ resp' = Pushed
    BY <1>3 DEF NoResponse
  <2>2. Extends(begun', begun)
    BY <1>1, <2>1 DEF Extends
  <2>3. CASE p = 0
    <3>1. resp' = resp
      BY <2>1, <2>3 DEF Pushed, Full
    <3>2. NextOut' = NextOut
      BY <2>1, <3>1 DEF NextOut
    <3>3. NextOut \in Place
      BY <1>1 DEF NextOut, Place
    <3>. QED  BY <1>1, <2>1, <2>2, <2>3, <3>1, <3>2, <3>3
  <2>4. CASE p = 1
    <3>1. resp.active /\ ~ Full
      BY <2>4
    <3>2. NextOut = [answer |-> Len(begun), idx |-> resp.idx]
      BY <3>1 DEF NextOut
    <3>3. IsAt(begun', NextOut, [answer |-> resp.answer, idx |-> resp.idx])
      BY <1>1, <1>2, <2>1, <3>1, <3>2 DEF IsAt
    <3>4. PICK n \in 7..11 : n = AnswerLen(resp.answer)
      <4>1. resp.answer \in Begun /\ Len(resp.answer.payload) \in 0..Len(Identity)
        BY <3>1 DEF TypeInv, DapTypeOK
      <4>. QED  BY <4>1, AnswerLenType
    <3>5. /\ resp.idx + 1 >= n <=> resp.idx + 1 = n
          /\ n = Len(resp.answer.payload) + Framing
      BY <1>1, <3>1, <3>4 DEF AnswerLen
    <3>6. CASE resp.idx + 1 = n
      <4>1. resp' = [resp EXCEPT !.idx = 0, !.active = FALSE]
        BY <2>1, <3>1, <3>5, <3>6 DEF Pushed, Full
      <4>2. ~ resp'.active
        BY <1>1, <4>1
      <4>3. NextOut' = [answer |-> Len(begun) + 1, idx |-> 0]
        BY <2>1, <4>2 DEF NextOut
      <4>4. After(begun', NextOut) = [answer |-> Len(begun) + 1, idx |-> 0]
        BY <1>1, <2>1, <3>1, <3>2, <3>4, <3>6 DEF After
      <4>. QED  BY <1>1, <2>2, <2>4, <3>3, <4>2, <4>3, <4>4 DEF Place
    <3>7. CASE resp.idx + 1 # n
      <4>1. resp' = [resp EXCEPT !.idx = resp.idx + 1]
        BY <2>1, <3>1, <3>5, <3>7 DEF Pushed, Full
      <4>2. resp'.active /\ resp'.answer = resp.answer /\ resp'.idx = resp.idx + 1
        BY <1>1, <3>1, <4>1
      <4>3. NextOut' = [answer |-> Len(begun), idx |-> resp.idx + 1]
        BY <2>1, <4>2 DEF NextOut
      <4>4. After(begun', NextOut) = [answer |-> Len(begun), idx |-> resp.idx + 1]
        BY <1>1, <2>1, <3>1, <3>2, <3>4, <3>7 DEF After
      <4>. QED  BY <1>1, <2>1, <2>2, <2>4, <3>1, <3>3, <4>2, <4>3, <4>4 DEF Place
    <3>. QED  BY <3>6, <3>7
  <2>. QED  BY <2>3, <2>4
<1>4. ASSUME NEW a, Replies(a), Answers \/ Finishes
      PROVE  /\ Extends(begun', begun) /\ NextOut' \in Place
             /\ NextOut' = IF p = 1 THEN After(begun', NextOut) ELSE NextOut
             /\ p = 1 => IsAt(begun', NextOut, [answer |-> resp.answer, idx |-> resp.idx])
             /\ resp'.active => begun' # <<>> /\ resp'.answer = begun'[Len(begun')]
  <2>1. ~ resp.active /\ p = 0
    <3>1. ~ resp.active
      BY <1>1, <1>4 DEF Answers, CmdEvent, Finishes
    <3>. QED  BY <3>1
  <2>2. resp'.active /\ resp'.answer = a /\ resp'.idx = 0 /\ begun' = Append(begun, a)
    BY <1>4 DEF Replies
  <2>3. Extends(begun', begun) /\ Len(begun') = Len(begun) + 1 /\ begun'[Len(begun) + 1] = a
    BY <1>1, <2>2, AppendExtends
  <2>4. begun' # <<>>
    <3>1. begun' \in Seq(Begun')
      BY <1>1, EngineTypes, BegunGrows
    <3>2. Len(begun') # 0
      BY <1>1, <2>3
    <3>. QED  BY <3>2, EmptySeq
  <2>5. NextOut' = [answer |-> Len(begun) + 1, idx |-> 0] /\ NextOut = NextOut'
    BY <2>1, <2>2, <2>3 DEF NextOut
  <2>. QED  BY <1>1, <2>1, <2>2, <2>3, <2>4, <2>5 DEF Place
<1>5. NoResponse \/ ((Answers \/ Finishes) /\ \E a : Replies(a))
  BY <1>1 DEF EngineCase, Idles, Answers, Reads, Writes, Loads, Waits, Finishes, Returns
<1>. QED  BY <1>3, <1>4, <1>5

(* What a step does to what the host has.                                   *)
LEMMA InStep ==
  ASSUME TypeInv, Line, NEW at, Follows(at, OnTheWay, begun, NextIn, NextOut),
         OnTheWay \in Seq(TxBytes),
         NEW d \in {0, 1}, d = 1 <=> tx.busy = 1, d <= Len(OnTheWay), d = 1 => tx.byte[1] = OnTheWay[1]
  PROVE  /\ NextIn' = IF d = 1 THEN After(begun, NextIn) ELSE NextIn
         /\ \/ host'.got = host.got
            \/ /\ host'.got = Append(host.got, begun[Len(host.got) + 1])
               /\ Len(host.got) + 1 \in 1..Len(begun)
<1>1. host \in HostState /\ host.got \in Seq(Begun) /\ Len(host.got) \in Nat /\ host.part \in Nat
  BY LenProperties DEF TypeInv, DapTypeOK, HostState
<1>2. PICK h \in HostState : host' = Received(h) /\ h.got = host.got /\ h.part = host.part
  BY LineCases
<1>3. /\ at[1] = NextIn /\ Len(OnTheWay) \in Nat
      /\ d = 1 => IsAt(begun, NextIn, tx.byte[1])
  <2>1. Len(OnTheWay) \in Nat
    BY LenProperties
  <2>2. d = 1 => 1 \in 1..Len(OnTheWay)
    BY <2>1
  <2>. QED  BY <2>1, <2>2 DEF Follows
<1>4. CASE d = 0
  <2>1. host'.got = host.got /\ host'.part = host.part
    BY <1>2, <1>4 DEF Received
  <2>. QED  BY <1>4, <2>1 DEF NextIn
<1>5. CASE d = 1
  <2>. DEFINE b == tx.byte[1]
              more == Append(host.got, b.answer)
  <2>1. /\ Len(host.got) + 1 \in 1..Len(begun) /\ b.answer = begun[Len(host.got) + 1]
        /\ b.idx = host.part
    BY <1>3, <1>5 DEF IsAt, NextIn
  <2>2. host' = IF b.idx + 1 = AnswerLen(b.answer) /\ host.part = b.idx
                THEN [h EXCEPT !.got = more, !.part = 0]
                ELSE [h EXCEPT !.part = IF host.part = b.idx THEN host.part + 1 ELSE 255]
    BY <1>2, <1>5 DEF Received, AnswerLen
  <2>3. Len(more) = Len(host.got) + 1
    BY <1>1, AppendExtends
  <2>. HIDE DEF b, more
  <2>4. CASE host.part + 1 = AnswerLen(b.answer)
    <3>1. host' = [h EXCEPT !.got = more, !.part = 0]
      BY <2>1, <2>2, <2>4
    <3>2. host'.got = more /\ host'.part = 0
      BY <3>1 DEF HostState
    <3>3. After(begun, NextIn) = [answer |-> (Len(host.got) + 1) + 1, idx |-> 0]
      BY <2>1, <2>4 DEF After, NextIn
    <3>. QED  BY <1>5, <2>1, <2>3, <3>2, <3>3 DEF NextIn, more
  <2>5. CASE host.part + 1 # AnswerLen(b.answer)
    <3>. DEFINE part == host.part + 1
    <3>1. host' = [h EXCEPT !.part = part]
      BY <2>1, <2>2, <2>5
    <3>. HIDE DEF part
    <3>2. host'.got = host.got /\ host'.part = part
      BY <1>2, <3>1 DEF HostState
    <3>3. After(begun, NextIn) = [answer |-> Len(host.got) + 1, idx |-> part]
      BY <2>1, <2>5 DEF After, NextIn, part
    <3>. QED  BY <1>5, <3>2, <3>3 DEF NextIn
  <2>. QED  BY <2>4, <2>5
<1>. QED  BY <1>4, <1>5

LEMMA StreamStep ==
  ASSUME TypeInv, TypeInv', LimitIsAmple, InTime, StreamInv, Tick  PROVE StreamInv'
<1>1. PICK at : Follows(at, OnTheWay, begun, NextIn, NextOut)
  BY DEF StreamInv
<1>2. PICK d \in {0, 1} : d = 1 <=> tx.busy = 1
  <2>1. (IF tx.busy = 1 THEN 1 ELSE 0) \in {0, 1}
    OBVIOUS
  <2>. QED  BY <2>1
<1>3. PICK p \in {0, 1} : p = 1 <=> resp.active /\ ~ Full
  <2>1. (IF resp.active /\ ~ Full THEN 1 ELSE 0) \in {0, 1}
    OBVIOUS
  <2>. QED  BY <2>1
<1>4. /\ OnTheWay \in Seq(TxBytes) /\ OnTheWay' \in Seq(TxBytes)
      /\ d <= Len(OnTheWay) /\ Len(OnTheWay') = Len(OnTheWay) - d + p
      /\ \A k \in 1..(Len(OnTheWay) - d) : OnTheWay'[k] = OnTheWay[k + d]
      /\ p = 1 => OnTheWay'[Len(OnTheWay')] = [answer |-> resp.answer, idx |-> resp.idx]
      /\ d = 1 => tx.byte[1] = OnTheWay[1]
  <2>1. Transmit
    BY DEF Tick
  <2>. QED  BY <1>2, <1>3, <2>1, WayStep
<1>5. /\ Extends(begun', begun) /\ NextOut' \in Place
      /\ NextOut' = IF p = 1 THEN After(begun', NextOut) ELSE NextOut
      /\ p = 1 => IsAt(begun', NextOut, [answer |-> resp.answer, idx |-> resp.idx])
      /\ resp'.active => begun' # <<>> /\ resp'.answer = begun'[Len(begun')]
  BY <1>3, OutStep
<1>6. /\ NextIn' = IF d = 1 THEN After(begun, NextIn) ELSE NextIn
      /\ \/ host'.got = host.got
         \/ /\ host'.got = Append(host.got, begun[Len(host.got) + 1])
            /\ Len(host.got) + 1 \in 1..Len(begun)
  <2>1. Line
    BY DEF Tick
  <2>. QED  BY <1>1, <1>2, <1>4, <2>1, InStep
<1>7. /\ begun \in Seq(Begun) /\ begun' \in Seq(Begun') /\ Len(begun) \in Nat
      /\ host.got \in Seq(Begun) /\ Len(host.got) \in Nat
  BY LenProperties DEF TypeInv, DapTypeOK, HostState
<1>8. \E now : Follows(now, OnTheWay', begun', NextIn', NextOut')
  <2>1. p = 1 => IsAt(begun', NextOut, OnTheWay'[Len(OnTheWay')])
    BY <1>4, <1>5
  <2>2. Shifts(OnTheWay', OnTheWay, d, p)
    BY <1>4 DEF Shifts
  <2>3. OnTheWay' \in Seq(TxBytes') /\ OnTheWay \in Seq(TxBytes') /\ begun \in Seq(Begun')
    <3>1. Begun \subseteq Begun' /\ TxBytes \subseteq TxBytes'
      <4>1. Begun \subseteq Begun'
        BY EngineTypes, BegunGrows DEF Tick
      <4>. QED  BY <4>1 DEF TxBytes
    <3>. QED  BY <1>4, <1>7, <3>1, SeqDef
  <2>4. ASSUME NEW moved, moved = OnTheWay', NEW longer, longer = begun',
               NEW first, first = NextIn', NEW next, next = NextOut'
        PROVE  \E now : Follows(now, moved, longer, first, next)
    <3>1. /\ moved \in Seq(TxBytes') /\ Shifts(moved, OnTheWay, d, p)
          /\ longer \in Seq(Begun') /\ Extends(longer, begun)
          /\ p = 1 => IsAt(longer, NextOut, moved[Len(moved)])
          /\ first = IF d = 1 THEN After(begun, NextIn) ELSE NextIn
          /\ next \in Place /\ next = IF p = 1 THEN After(longer, NextOut) ELSE NextOut
      BY <1>5, <1>6, <1>7, <2>1, <2>2, <2>3, <2>4
    <3>2. Advances(TxBytes', Begun', OnTheWay, moved, d, p, begun, longer, NextIn, NextOut, at,
                   first, next)
      BY <1>1, <2>3, <3>1 DEF Advances
    <3>. QED  BY <3>2, FollowsStep
  <2>. QED  BY <2>4
<1>9. Len(host.got) <= Len(begun)
  <2>. DEFINE n == Len(OnTheWay)
  <2>1. n \in Nat
    BY <1>4, LenProperties
  <2>2. CASE n = 0
    <3>1. NextIn = NextOut
      BY <1>1, <2>2 DEF Follows
    <3>2. Len(host.got) + 1 = Len(begun) \/ Len(host.got) + 1 = Len(begun) + 1
      BY <3>1 DEF NextIn, NextOut
    <3>. QED  BY <1>7, <3>2
  <2>3. CASE n # 0
    <3>1. 1 \in 1..Len(OnTheWay)
      BY <2>1, <2>3
    <3>2. NextIn.answer \in 1..Len(begun)
      BY <1>1, <3>1 DEF Follows, IsAt
    <3>. QED  BY <1>7, <3>2 DEF NextIn
  <2>. QED  BY <2>2, <2>3
<1>10. \A k \in 1..Len(host'.got) : host'.got[k] = begun'[k]
  <2>1. /\ \A k \in 1..Len(host.got) : host.got[k] = begun[k]
        /\ \A k \in 1..Len(begun) : begun'[k] = begun[k]
    BY <1>5 DEF StreamInv, Extends
  <2>2. CASE host'.got = host.got
    BY <1>7, <1>9, <2>1, <2>2
  <2>3. CASE /\ host'.got = Append(host.got, begun[Len(host.got) + 1])
             /\ Len(host.got) + 1 \in 1..Len(begun)
    <3>. DEFINE a == begun[Len(host.got) + 1]
    <3>1. /\ Extends(host'.got, host.got) /\ Len(host'.got) = Len(host.got) + 1
          /\ host'.got[Len(host.got) + 1] = a
      BY <1>7, <2>3, AppendExtends
    <3>2. ASSUME NEW k \in 1..(Len(host.got) + 1)  PROVE host'.got[k] = begun'[k]
      <4>1. CASE k = Len(host.got) + 1
        BY <2>1, <2>3, <3>1, <4>1
      <4>2. CASE k # Len(host.got) + 1
        <5>1. k \in 1..Len(host.got) /\ k \in 1..Len(begun)
          BY <1>7, <1>9, <4>2
        <5>. QED  BY <2>1, <3>1, <5>1 DEF Extends
      <4>. QED  BY <4>1, <4>2
    <3>. QED  BY <3>1, <3>2
  <2>. QED  BY <1>6, <2>2, <2>3
<1>. QED  BY <1>5, <1>8, <1>10 DEF StreamInv

LEMMA StreamInit == Init => StreamInv
<1>. SUFFICES ASSUME Init PROVE StreamInv
  OBVIOUS
<1>1. /\ begun = <<>> /\ ~ resp.active /\ tx.byte = <<>> /\ txFifo = <<>>
      /\ host.got = <<>> /\ host.part = 0
  BY DEF Init, None
<1>2. OnTheWay = <<>> /\ NextIn = [answer |-> 1, idx |-> 0] /\ NextOut = [answer |-> 1, idx |-> 0]
  BY <1>1 DEF OnTheWay, NextIn, NextOut
<1>. DEFINE at == [k \in 1..1 |-> [answer |-> 1, idx |-> 0]]
<1>3. Follows(at, <<>>, begun, NextIn, NextOut)
  BY <1>2 DEF Follows, Place
<1>. HIDE DEF at
<1>. QED  BY <1>1, <1>2, <1>3 DEF StreamInv

(* The host never gets a byte that does not belong where it comes: what it  *)
(* has is the first answers begun, whole and in their order, whatever is    *)
(* lost on the way to the bridge, however full the FIFO, slow the line, or  *)
(* close the commands.                                                      *)
THEOREM AnswersArriveWhole ==
  ASSUME LimitIsAmple PROVE Spec => []AnswersWhole
<1>. DEFINE Inv == TypeInv /\ InTime /\ StreamInv
<1>1. Inv => AnswersWhole
  <2>. SUFFICES ASSUME TypeInv, InTime, StreamInv PROVE AnswersWhole
    OBVIOUS
  <2>1. PICK at : Follows(at, OnTheWay, begun, NextIn, NextOut)
    BY DEF StreamInv
  <2>2. /\ begun \in Seq(Begun) /\ Len(begun) \in Nat /\ host.got \in Seq(Begun)
        /\ Len(host.got) \in Nat /\ host.part \in Nat
        /\ OnTheWay \in Seq(TxBytes) /\ Len(OnTheWay) \in Nat
        /\ \A a \in Begun : Len(a.payload) \in 0..Len(Identity)
    <3>1. OnTheWay \in Seq(TxBytes)
      BY ConcatProperties DEF OnTheWay, TypeInv, DapTypeOK
    <3>. QED  BY <3>1, LenProperties DEF TypeInv, DapTypeOK, HostState
  <2>3. NextIn.answer \in 1..(Len(begun) + 1) /\ NextIn.idx <= 10
    <3>1. CASE Len(OnTheWay) = 0
      <4>1. NextIn = NextOut
        BY <2>1, <3>1 DEF Follows
      <4>2. CASE resp.active
        <5>1. AnswerLen(resp.answer) \in 7..11
          BY <2>2, <4>2, AnswerLenType DEF TypeInv
        <5>2. NextOut = [answer |-> Len(begun), idx |-> resp.idx]
          BY <4>2 DEF NextOut
        <5>3. Len(begun) # 0 /\ resp.idx < AnswerLen(resp.answer) /\ resp.idx \in Nat
          BY <2>2, <4>2, EmptySeq DEF StreamInv, InTime, ResponseInv, TypeInv, DapTypeOK
        <5>. QED  BY <2>2, <4>1, <5>1, <5>2, <5>3
      <4>3. CASE ~ resp.active
        BY <2>2, <4>1, <4>3 DEF NextOut
      <4>. QED  BY <4>2, <4>3
    <3>2. CASE Len(OnTheWay) # 0
      <4>1. 1 \in 1..Len(OnTheWay)
        BY <2>2, <3>2
      <4>2. NextIn.answer \in 1..Len(begun) /\ NextIn.idx < AnswerLen(begun[NextIn.answer])
        BY <2>1, <4>1 DEF Follows, IsAt
      <4>3. begun[NextIn.answer] \in Begun
        BY <2>2, <4>2, ElementOfSeq
      <4>4. AnswerLen(begun[NextIn.answer]) \in 7..11
        BY <2>2, <4>3, AnswerLenType
      <4>. QED  BY <2>2, <4>2, <4>4 DEF NextIn
    <3>. QED  BY <3>1, <3>2
  <2>4. host.part # 255 /\ Len(host.got) <= Len(begun)
    BY <2>2, <2>3 DEF NextIn
  <2>5. host.got = SubSeq(begun, 1, Len(host.got))
    <3>. DEFINE n == Len(host.got)
    <3>1. \A k \in 1..n : begun[k] \in Begun /\ host.got[k] = begun[k]
      BY <2>2, <2>4, ElementOfSeq DEF StreamInv
    <3>2. /\ SubSeq(begun, 1, n) \in Seq(Begun)
          /\ Len(SubSeq(begun, 1, n)) = IF 1 <= n THEN n - 1 + 1 ELSE 0
          /\ \A k \in 1..(n - 1 + 1) : SubSeq(begun, 1, n)[k] = begun[1 + k - 1]
      BY <2>2, <3>1, SubSeqProperties
    <3>3. Len(SubSeq(begun, 1, n)) = n /\ \A k \in 1..n : SubSeq(begun, 1, n)[k] = begun[k]
      BY <2>2, <3>2
    <3>. QED  BY <2>2, <3>1, <3>2, <3>3, SeqEqual
  <2>. QED  BY <2>4, <2>5 DEF AnswersWhole
<1>2. Inv /\ [Tick]_vars => Inv'
  <2>. SUFFICES ASSUME TypeInv, InTime, StreamInv, [Tick]_vars PROVE Inv'
    OBVIOUS
  <2>1. TypeInv' /\ InTime'
    BY TypeStep, InTimeStep
  <2>2. CASE Tick
    BY <2>1, <2>2, StreamStep
  <2>3. CASE UNCHANGED vars
    <3>1. OnTheWay' = OnTheWay /\ NextIn' = NextIn /\ NextOut' = NextOut /\ begun' = begun
      BY <2>3 DEF vars, wires, OnTheWay, NextIn, NextOut
    <3>. QED  BY <2>1, <2>3, <3>1 DEF StreamInv, vars, wires
  <2>. QED  BY <2>2, <2>3
<1>3. Init => Inv
  BY TypeInit, InTimeInit, StreamInit
<1>. QED  BY <1>1, <1>2, <1>3, PTL DEF Spec
=============================================================================
