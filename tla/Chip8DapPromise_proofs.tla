----------------------- MODULE Chip8DapPromise_proofs -----------------------
(***************************************************************************)
(* The debug bridge implements the target of Chip8DapTarget, for all        *)
(* scripts, losses, FIFO depths and line speeds, when the time limit is     *)
(* longer than the longest command.  The packets still on the line are      *)
(* told by their last bytes, what the parser holds by what its checksum     *)
(* covers, and the command under way by the packet it was given.            *)
(***************************************************************************)
EXTENDS Chip8Dap_proofs, WellFoundedInduction

-----------------------------------------------------------------------------
(* The bytes on their way to the parser.  The last byte of a packet is the  *)
(* one whose half is 1; mark[k] is the packet it ends.  The packets so      *)
(* ended come one after the other, past all those executed, and the one the *)
(* parser holds, if it is whole, is one of them.                            *)
OnTheLine == rxFifo \o line
Ends(script, n, byte) == n \in 1..Len(script) /\ byte = Check(Body(script[n]), 1)
Marked(mark, way, script, from, to) ==
  /\ mark \in [1..Len(way) -> Nat]
  /\ \A k \in 1..Len(way) :
       way[k].half = 1 => /\ from < mark[k] /\ mark[k] <= to /\ Ends(script, mark[k], way[k])
                          /\ \A m \in 1..(k - 1) : way[m].half = 1 => mark[m] < mark[k]
Whole == Emitted /\ parser.error = "OK"
Places(past, held, mark) ==
  /\ past <= held /\ held <= host.sent
  /\ todo = SubSeq(host.script, past + 1, Len(host.script))
  /\ Marked(mark, OnTheLine, host.script, held, host.sent)
  /\ Whole => past < held /\ host.script[held] = Packet
PacketInv ==
  /\ host.sent <= Len(host.script)
  /\ \E past \in Nat, held \in Nat : \E mark : Places(past, held, mark)

(* What the parser has read of a packet is what its checksum covers.        *)
Header(k) == /\ parser.payload = <<>> /\ Len(parser.crc) = k
             /\ k > 1 => parser.crc[2].n = parser.seq
             /\ k > 2 => parser.crc[3].n = parser.cmd
Covers    == /\ Len(parser.crc) = 4 + Len(parser.payload)
             /\ parser.crc[2].n = parser.seq /\ parser.crc[3].n = parser.cmd
             /\ \A k \in 1..Len(parser.payload) : parser.crc[4 + k] = parser.payload[k]
ParserInv ==
  /\ ~ Emitted => parser.error = "OK"
  /\ parser.st = "VER" => Header(0)
  /\ parser.st = "SEQ" => Header(1)
  /\ parser.st = "CMD" => Header(2)
  /\ parser.st = "LEN" => Header(3)
  /\ parser.st = "PAYLOAD" => Covers /\ Len(parser.payload) < parser.len
  /\ parser.st \in {"CRC0", "CRC1"} \/ Whole => Covers /\ Len(parser.payload) = parser.len

(* The work under way is that of the packet last taken: a value on its way  *)
(* to the registers or to the host, and the chunk, are those of the packet. *)
Optional(entry, x) == entry # <<>> => entry = <<x>>
ByteOf(k)   == doing[1].payload[k].n
WriteInv == /\ doing[1].cmd = Code.WRITE32
            /\ Optional(engine.aw, ByteOf(1)) /\ Optional(engine.w, ByteOf(2))
            /\ Optional(skid.aw, ByteOf(1)) /\ Optional(skid.w, ByteOf(2))
            /\ bridge.state = "WAIT_REG" => bridge.req = <<ByteOf(1)>> /\ bridge.w = <<ByteOf(2)>>
ReadInv  == /\ doing[1].cmd = Code.READ32
            /\ Optional(engine.ar, ByteOf(1)) /\ Optional(skid.ar, ByteOf(1))
            /\ bridge.state = "WAIT_REG" => bridge.req = <<ByteOf(1)>>
            /\ Optional(bridge.r, regs[ByteOf(1)])
LoadInv  == /\ doing[1].cmd = Code.ROM_WRITE
            /\ doing[1].payload \in Seq(Bytes) /\ LengthByte(doing[1].payload) < LengthSpan
            /\ engine.chunk => parser.seq = doing[1].seq /\ parser.payload = doing[1].payload
            /\ ~ engine.chunk => writer.payload = doing[1].payload
            /\ ~ engine.chunk /\ writer.st \in {"CRC", "WRITE"} =>
                 ~ writer.badSeq /\ ~ writer.badCrc /\ writer.seq = doing[1].seq
            /\ ~ engine.chunk /\ ~ writer.badSeq /\ ~ writer.badCrc =>
                 ChunkLen(writer.payload) > 0
Working  == engine.st \in {"AXI_WRITE", "AXI_READ", "ROM_WAIT"}
WorkInv  == /\ Working => doing = <<doing[1]>> /\ doing[1].seq = engine.seq
            /\ engine.st = "AXI_WRITE" => WriteInv
            /\ engine.st = "AXI_READ" => ReadInv
            /\ engine.st = "ROM_WAIT" => LoadInv

(* Only the last byte of a packet ends it. *)
LEMMA WireBytes ==
  ASSUME NEW p \in Packets, NEW k \in 1..Len(Wire(p))
  PROVE  /\ k # Len(Wire(p)) => Wire(p)[k].half = 0
         /\ k = Len(Wire(p)) => Wire(p)[k] = Check(Body(p), 1)
<1>. DEFINE body  == Body(p)
            first == <<Plain(SOF)>>
            last  == <<Check(body, 0), Check(body, 1)>>
            most  == first \o body
<1>1. body \in Seq(Data) /\ body \in Seq(Bytes) /\ Len(body) \in Nat
  BY BodyType, DataTypes, LenProperties
<1>2. first \in Seq(Bytes) /\ Len(first) = 1 /\ first[1] = Plain(SOF)
  BY DataTypes DEF SOF
<1>3. /\ last \in Seq(Bytes) /\ Len(last) = 2
      /\ last[1] = Check(body, 0) /\ last[2] = Check(body, 1)
  BY <1>1, CheckType
<1>4. \A b \in Data : b.half = 0
  BY DEF Data
<1>5. Plain(SOF).half = 0 /\ Check(body, 0).half = 0
  BY DEF Plain, Check
<1>6. Wire(p) = most \o last
  BY DEF Wire
<1>. HIDE DEF body, first, last
<1>7. /\ most \in Seq(Bytes) /\ Len(most) = 1 + Len(body)
      /\ \A i \in 1..(1 + Len(body)) : most[i] = IF i <= 1 THEN first[i] ELSE body[i - 1]
  <2>1. /\ most \in Seq(Bytes) /\ Len(most) = Len(first) + Len(body)
        /\ \A i \in 1..(Len(first) + Len(body)) :
             most[i] = IF i <= Len(first) THEN first[i] ELSE body[i - Len(first)]
    BY <1>1, <1>2, ConcatProperties
  <2>. HIDE DEF most
  <2>. QED  BY <1>2, <2>1
<1>. HIDE DEF most
<1>8. /\ Len(Wire(p)) = 3 + Len(body)
      /\ \A i \in 1..(3 + Len(body)) :
           Wire(p)[i] = IF i <= 1 + Len(body) THEN most[i] ELSE last[i - (1 + Len(body))]
  <2>1. /\ Len(most \o last) = Len(most) + Len(last)
        /\ \A i \in 1..(Len(most) + Len(last)) :
             (most \o last)[i] = IF i <= Len(most) THEN most[i] ELSE last[i - Len(most)]
    BY <1>3, <1>7, ConcatProperties
  <2>. QED  BY <1>1, <1>3, <1>6, <1>7, <2>1
<1>9. CASE k = 1
  BY <1>1, <1>2, <1>5, <1>7, <1>8, <1>9
<1>10. CASE k \in 2..(1 + Len(body))
  <2>1. k - 1 \in 1..Len(body) /\ Wire(p)[k] = body[k - 1]
    BY <1>1, <1>7, <1>8, <1>10
  <2>. QED  BY <1>1, <1>4, <1>8, <1>10, <2>1, ElementOfSeq
<1>11. CASE k = 2 + Len(body)
  BY <1>1, <1>3, <1>5, <1>8, <1>11
<1>12. CASE k = 3 + Len(body)
  BY <1>1, <1>3, <1>8, <1>12 DEF body
<1>. QED  BY <1>1, <1>8, <1>9, <1>10, <1>11, <1>12

(* d bytes are taken at the front, n kept, and at most one put at the end,  *)
(* which ends the next packet if it ends any.                               *)
Moved(way, moved, n, d) ==
  /\ n \in Nat /\ d \in {0, 1} /\ n + d <= Len(way) /\ Len(moved) \in {n, n + 1}
  /\ \A k \in 1..n : moved[k] = way[k + d]
Passes(S, way, moved, n, d, mark, script, from, to, from2, to2) ==
  /\ way \in Seq(S) /\ moved \in Seq(S) /\ Moved(way, moved, n, d)
  /\ from \in Nat /\ to \in Nat /\ to2 \in {to, to + 1} /\ from <= to
  /\ Marked(mark, way, script, from, to)
  /\ from2 = from \/ (d = 1 /\ way[1].half = 1 /\ from2 = mark[1])
  /\ Len(moved) = n + 1 /\ moved[n + 1].half = 1 =>
       to2 = to + 1 /\ Ends(script, to + 1, moved[n + 1])

LEMMA MarkedStep ==
  ASSUME NEW S, NEW way, NEW moved, NEW n, NEW d, NEW mark, NEW script,
         NEW from, NEW to, NEW from2, NEW to2,
         Passes(S, way, moved, n, d, mark, script, from, to, from2, to2)
  PROVE  \E now : Marked(now, moved, script, from2, to2)
<1>. DEFINE now == [k \in 1..Len(moved) |-> IF k <= n THEN mark[k + d] ELSE to2]
<1>1. /\ way \in Seq(S) /\ moved \in Seq(S) /\ Len(way) \in Nat /\ Len(moved) \in Nat
      /\ n \in Nat /\ d \in {0, 1} /\ n + d <= Len(way) /\ Len(moved) \in {n, n + 1}
      /\ from \in Nat /\ to \in Nat /\ to2 \in {to, to + 1} /\ from <= to
  BY LenProperties DEF Passes, Moved
<1>2. \A k \in 1..n : moved[k] = way[k + d]
  BY DEF Passes, Moved
<1>3. /\ mark \in [1..Len(way) -> Nat]
      /\ \A k \in 1..Len(way) :
           way[k].half = 1 => /\ from < mark[k] /\ mark[k] <= to /\ Ends(script, mark[k], way[k])
                              /\ \A m \in 1..(k - 1) : way[m].half = 1 => mark[m] < mark[k]
  BY DEF Passes, Marked
<1>4. /\ from2 = from \/ (d = 1 /\ way[1].half = 1 /\ from2 = mark[1])
      /\ Len(moved) = n + 1 /\ moved[n + 1].half = 1 =>
           to2 = to + 1 /\ Ends(script, to + 1, moved[n + 1])
  BY DEF Passes
<1>5. ASSUME NEW k \in 1..n
      PROVE  /\ k \in 1..Len(moved) /\ k + d \in 1..Len(way)
             /\ now[k] = mark[k + d] /\ moved[k] = way[k + d]
  BY <1>1, <1>2
<1>6. now \in [1..Len(moved) -> Nat]
  <2>1. ASSUME NEW k \in 1..Len(moved)
        PROVE  (IF k <= n THEN mark[k + d] ELSE to2) \in Nat
    <3>1. to2 \in Nat
      BY <1>1
    <3>2. ASSUME k <= n  PROVE mark[k + d] \in Nat
      <4>1. k + d \in 1..Len(way)
        BY <1>1, <3>2
      <4>. QED  BY <1>3, <4>1
    <3>. QED  BY <3>1, <3>2
  <2>. QED  BY <2>1
<1>. HIDE DEF now
<1>7. ASSUME NEW k \in 1..n, moved[k].half = 1
      PROVE  /\ from2 < now[k] /\ now[k] <= to /\ Ends(script, now[k], moved[k])
             /\ \A m \in 1..(k - 1) : moved[m].half = 1 => now[m] < now[k]
  <2>1. PICK j \in 1..Len(way) : j = k + d /\ now[k] = mark[j] /\ moved[k] = way[j]
    BY <1>5
  <2>2. /\ from < mark[j] /\ mark[j] <= to /\ Ends(script, mark[j], way[j])
        /\ \A m \in 1..(j - 1) : way[m].half = 1 => mark[m] < mark[j]
    BY <1>3, <1>7, <2>1
  <2>3. from2 < now[k]
    <3>1. CASE from2 = from
      BY <2>1, <2>2, <3>1
    <3>2. CASE d = 1 /\ way[1].half = 1 /\ from2 = mark[1]
      <4>1. 1 \in 1..(j - 1)
        BY <2>1, <3>2
      <4>. QED  BY <2>1, <2>2, <3>2, <4>1
    <3>. QED  BY <1>4, <3>1, <3>2
  <2>4. ASSUME NEW m \in 1..(k - 1), moved[m].half = 1  PROVE now[m] < now[k]
    <3>1. m \in 1..n /\ m + d \in 1..(j - 1)
      BY <1>1, <2>1, <2>4
    <3>2. now[m] = mark[m + d] /\ way[m + d].half = 1
      BY <1>5, <2>4, <3>1
    <3>. QED  BY <2>1, <2>2, <3>1, <3>2
  <2>. QED  BY <2>1, <2>2, <2>3, <2>4
<1>8. from2 <= to /\ from2 \in Nat
  <2>1. d = 1 => 1 \in 1..Len(way)
    BY <1>1
  <2>. QED  BY <1>1, <1>3, <1>4, <2>1
<1>9. ASSUME NEW k \in 1..Len(moved), k = n + 1, moved[k].half = 1
      PROVE  /\ from2 < now[k] /\ now[k] <= to2 /\ Ends(script, now[k], moved[k])
             /\ \A m \in 1..(k - 1) : moved[m].half = 1 => now[m] < now[k]
  <2>1. now[k] = to2 /\ to2 = to + 1 /\ Ends(script, to2, moved[k])
    <3>1. ~ (k <= n) /\ Len(moved) = n + 1
      BY <1>1, <1>9
    <3>. QED  BY <1>4, <1>9, <3>1 DEF now
  <2>2. ASSUME NEW m \in 1..(k - 1), moved[m].half = 1  PROVE now[m] < now[k]
    <3>1. m \in 1..n
      BY <1>1, <1>9, <2>2
    <3>2. now[m] <= to /\ now[m] = mark[m + d] /\ m + d \in 1..Len(way)
      BY <1>5, <1>7, <2>2, <3>1
    <3>3. now[m] \in Nat
      BY <1>3, <3>2
    <3>. QED  BY <1>1, <2>1, <3>2, <3>3
  <2>. QED  BY <1>1, <1>8, <2>1, <2>2
<1>10. ASSUME NEW k \in 1..Len(moved), moved[k].half = 1
       PROVE  /\ from2 < now[k] /\ now[k] <= to2 /\ Ends(script, now[k], moved[k])
              /\ \A m \in 1..(k - 1) : moved[m].half = 1 => now[m] < now[k]
  <2>1. CASE k = n + 1
    BY <1>9, <1>10, <2>1
  <2>2. CASE k # n + 1
    <3>1. k \in 1..n
      BY <1>1, <2>2
    <3>2. /\ from2 < now[k] /\ now[k] <= to /\ Ends(script, now[k], moved[k])
          /\ \A m \in 1..(k - 1) : moved[m].half = 1 => now[m] < now[k]
      BY <1>7, <1>10, <3>1
    <3>3. now[k] \in Nat
      BY <1>6
    <3>4. now[k] <= to2
      BY <1>1, <3>2, <3>3
    <3>. QED  BY <3>2, <3>4
  <2>. QED  BY <2>1, <2>2
<1>. QED  BY <1>6, <1>10 DEF Marked

(* What the host puts on the line: the end of the packet it is in, some     *)
(* other byte, or none.                                                     *)
LEMMA LineMarks ==
  ASSUME TypeInv, PacketInv, Line
  PROVE  /\ host'.script = host.script /\ host'.sent \in {host.sent, host.sent + 1}
         /\ host'.sent <= Len(host.script) /\ host.sent \in Nat
         /\ line' \in Seq(Bytes) /\ Len(line') <= 1
         /\ Len(line') = 1 /\ line'[1].half = 1 =>
              host'.sent = host.sent + 1 /\ Ends(host.script, host.sent + 1, line'[1])
<1>1. PICK h \in HostState :
        /\ host' = Received(h) /\ h.script = host.script
        /\ \/ MaySend /\ h.byte = Sent.host.byte /\ h.sent = Sent.host.sent
           \/ ~ MaySend /\ h.byte = host.byte /\ h.sent = host.sent
  BY LineCases
<1>2. host'.sent = h.sent /\ host'.script = host.script
  BY <1>1, ReceivedType
<1>3. line' \in Seq(Bytes) /\ Len(line') <= 1 /\ host.sent \in Nat /\ Len(host.script) \in Nat
  BY LineTypes, HostTypes
<1>4. CASE ~ MaySend
  <2>1. line' = <<>> /\ host'.sent = host.sent
    BY <1>1, <1>2, <1>4 DEF Line
  <2>. QED  BY <1>2, <1>3, <2>1, EmptySeq DEF PacketInv
<1>5. CASE MaySend
  <2>. DEFINE p     == host.script[host.sent + 1]
              bytes == Wire(p)
              k     == host.byte + 1
  <2>1. /\ host.sent < Len(host.script) /\ host.sent + 1 \in 1..Len(host.script)
        /\ host.byte \in Nat /\ Len(bytes) \in Nat /\ host.byte < Len(bytes)
    BY <1>3, <1>5, HostTypes DEF MaySend, TypeInv, HostInPlace
  <2>2. p \in Packets
    BY <2>1, HostTypes, ElementOfSeq
  <2>3. k \in 1..Len(bytes)
    BY <2>1
  <2>4. /\ Sent.byte = bytes[k]
        /\ Sent.host.sent = IF k = Len(bytes) THEN host.sent + 1 ELSE host.sent
    BY HostTypes DEF Sent, HostState
  <2>5. /\ k # Len(bytes) => Sent.byte.half = 0
        /\ k = Len(bytes) => Sent.byte = Check(Body(p), 1)
    BY <2>2, <2>3, <2>4, WireBytes
  <2>. HIDE DEF k, bytes
  <2>6. line' = <<Sent.byte>> \/ line' = <<>>
    BY <1>5 DEF Line
  <2>7. host'.sent = IF k = Len(bytes) THEN host.sent + 1 ELSE host.sent
    BY <1>1, <1>2, <1>5, <2>4
  <2>8. ASSUME Len(line') = 1, line'[1].half = 1
        PROVE  host'.sent = host.sent + 1 /\ Ends(host.script, host.sent + 1, line'[1])
    <3>1. line'[1] = Sent.byte
      <4>1. line' # <<>>
        <5>1. Len(<<>>) # 1
          BY EmptySeq
        <5>. QED  BY <2>8, <5>1, Zenon
      <4>. QED  BY <2>6, <4>1
    <3>2. k = Len(bytes) /\ line'[1] = Check(Body(p), 1)
      BY <2>5, <2>8, <3>1
    <3>. QED  BY <2>1, <2>7, <3>2 DEF Ends
  <2>. QED  BY <1>2, <1>3, <2>1, <2>7, <2>8
<1>. QED  BY <1>4, <1>5

(* Bytes on their way: the parser takes the first, a full FIFO drops the    *)
(* last, the host adds one.                                                 *)
Queued(S, queue, depth, push, last, d, way, moved) ==
  /\ queue \in Seq(S) /\ push \in Seq(S) /\ Len(push) <= 1 /\ last \in Seq(S) /\ Len(last) <= 1
  /\ d \in {0, 1} /\ (d = 1 => queue # <<>>)
  /\ way = queue \o push
  /\ moved = ((IF d = 1 THEN Tail(queue) ELSE queue)
               \o (IF Len(queue) < depth THEN push ELSE <<>>)) \o last
LEMMA FifoMoves ==
  ASSUME NEW S, NEW queue, NEW depth, NEW push, NEW last, NEW d, NEW before, NEW after,
         Queued(S, queue, depth, push, last, d, before, after)
  PROVE  /\ before \in Seq(S) /\ after \in Seq(S)
         /\ \E n \in Nat : /\ Moved(before, after, n, d)
                           /\ Len(after) = n + Len(last)
                           /\ Len(last) = 1 => after[n + 1] = last[1]
<1>. DEFINE left == IF d = 1 THEN Tail(queue) ELSE queue
            new  == IF Len(queue) < depth THEN push ELSE <<>>
            room == left \o new
            n    == Len(room)
<1>a. /\ queue \in Seq(S) /\ push \in Seq(S) /\ Len(push) <= 1 /\ last \in Seq(S) /\ Len(last) <= 1
      /\ d \in {0, 1} /\ (d = 1 => queue # <<>>)
  BY DEF Queued
<1>b. before = queue \o push /\ after = room \o last
  BY DEF Queued
<1>0. Len(last) \in {0, 1}
  <2>1. PICK m : m = Len(last)
    OBVIOUS
  <2>2. m \in Nat /\ m <= 1
    BY <1>a, <2>1, LenProperties
  <2>. QED  BY <2>1, <2>2
<1>1. /\ left \in Seq(S) /\ Len(left) = Len(queue) - d
      /\ \A k \in 1..Len(left) : left[k] = queue[k + d]
  <2>1. CASE d = 1
    BY <1>a, <2>1, HeadTailProperties
  <2>2. CASE d = 0
    BY <1>a, <2>2
  <2>. QED  BY <1>a, <2>1, <2>2
<1>2. new \in Seq(S) /\ (new = push \/ Len(new) = 0)
  BY <1>a, EmptySeq
<1>4. /\ Len(queue) \in Nat /\ Len(push) \in Nat /\ Len(left) \in Nat /\ Len(new) \in Nat
      /\ Len(last) \in Nat
  BY <1>a, <1>1, <1>2, LenProperties
<1>. HIDE DEF left, new
<1>5. /\ room \in Seq(S) /\ Len(room) = Len(left) + Len(new)
      /\ \A k \in 1..(Len(left) + Len(new)) :
           room[k] = IF k <= Len(left) THEN left[k] ELSE new[k - Len(left)]
  BY <1>1, <1>2, ConcatProperties
<1>. HIDE DEF room
<1>6. /\ before \in Seq(S) /\ Len(before) = Len(queue) + Len(push)
      /\ \A k \in 1..(Len(queue) + Len(push)) :
           before[k] = IF k <= Len(queue) THEN queue[k] ELSE push[k - Len(queue)]
  BY <1>a, <1>b, ConcatProperties
<1>7. /\ after \in Seq(S) /\ Len(after) = Len(room) + Len(last)
      /\ \A k \in 1..(Len(room) + Len(last)) :
           after[k] = IF k <= Len(room) THEN room[k] ELSE last[k - Len(room)]
  BY <1>a, <1>b, <1>5, ConcatProperties
<1>8. n \in Nat /\ n + d <= Len(before) /\ Len(after) \in {n, n + 1}
  <2>1. Len(new) <= Len(push)
    BY <1>2, <1>4
  <2>2. n \in Nat /\ Len(after) = n + Len(last) /\ Len(last) \in {0, 1}
    <3>1. n \in Nat
      BY <1>4, <1>5
    <3>. QED  BY <1>0, <1>7, <3>1
  <2>3. n + d = Len(queue) + Len(new)
    BY <1>a, <1>1, <1>4, <1>5
  <2>. HIDE DEF n
  <2>4. n + d <= Len(before)
    BY <1>a, <1>4, <1>6, <2>1, <2>3
  <2>5. Len(after) \in {n, n + 1}
    <3>1. PICK m \in {0, 1} : m = Len(last)
      BY <2>2
    <3>. QED  BY <2>2, <3>1
  <2>. QED  BY <2>2, <2>4, <2>5
<1>9. ASSUME NEW k \in 1..n  PROVE after[k] = before[k + d]
  <2>1. after[k] = room[k]
    BY <1>4, <1>5, <1>7
  <2>2. CASE k <= Len(left)
    <3>1. room[k] = queue[k + d]
      BY <1>a, <1>1, <1>4, <1>5, <2>2
    <3>2. k + d \in 1..Len(queue)
      BY <1>a, <1>1, <1>4, <2>2
    <3>3. before[k + d] = queue[k + d]
      BY <1>4, <1>6, <3>2
    <3>. QED  BY <2>1, <3>1, <3>3
  <2>3. CASE ~ (k <= Len(left))
    <3>1. room[k] = new[k - Len(left)] /\ new = push
      BY <1>2, <1>4, <1>5, <2>3
    <3>2. PICK j : j = k + d
      OBVIOUS
    <3>3. /\ j \in 1..(Len(queue) + Len(push)) /\ ~ (j <= Len(queue))
          /\ j - Len(queue) = k - Len(left)
      BY <1>a, <1>1, <1>4, <1>5, <2>3, <3>1, <3>2
    <3>4. before[j] = push[k - Len(left)]
      BY <1>6, <3>3
    <3>. QED  BY <2>1, <3>1, <3>2, <3>4
  <2>. QED  BY <2>2, <2>3
<1>10. Len(last) = 1 => after[n + 1] = last[1]
  <2>. SUFFICES ASSUME Len(last) = 1 PROVE after[n + 1] = last[1]
    OBVIOUS
  <2>1. PICK k : k = n + 1
    OBVIOUS
  <2>2. k \in 1..(Len(room) + Len(last)) /\ ~ (k <= Len(room)) /\ k - Len(room) = 1
    BY <1>8, <2>1
  <2>. QED  BY <1>7, <2>1, <2>2
<1>11. Moved(before, after, n, d)
  BY <1>a, <1>8, <1>9 DEF Moved
<1>12. \E m \in Nat : /\ Moved(before, after, m, d) /\ Len(after) = m + Len(last)
                      /\ Len(last) = 1 => after[m + 1] = last[1]
  BY <1>7, <1>8, <1>10, <1>11
<1>. QED  BY <1>6, <1>7, <1>12

(* The parser: header and payload are what the checksum covers. *)
LEMMA ParsedInv ==
  ASSUME TypeInv, ParserInv, NEW b \in Bytes, ~ Emitted, parser' = Parsed(b)
  PROVE  ParserInv'
<1>. DEFINE covered == Covered(b)
            longer  == Append(parser.payload, b)
<1>1. /\ parser \in ParserState /\ parser.error = "OK" /\ parser.st # "EMIT" /\ b.n \in Nat
      /\ parser.crc \in Seq(Bytes) /\ parser.payload \in Seq(Bytes) /\ parser.len \in Nat
      /\ Len(parser.crc) \in Nat /\ Len(parser.payload) \in Nat
  BY LenProperties DEF TypeInv, DapTypeOK, ParserState, ParserInv, Emitted, Bytes
<1>2. /\ Len(covered) = Len(parser.crc) + 1 /\ covered[Len(parser.crc) + 1] = b
      /\ \A k \in 1..Len(parser.crc) : covered[k] = parser.crc[k]
  BY <1>1, AppendProperties DEF Covered
<1>3. /\ Len(longer) = Len(parser.payload) + 1 /\ longer[Len(parser.payload) + 1] = b
      /\ \A k \in 1..Len(parser.payload) : longer[k] = parser.payload[k]
  BY <1>1, AppendProperties
<1>4. Len(<<>>) = 0
  BY EmptySeq
<1>5. ASSUME parser'.st = "EMIT", parser'.error # "OK"  PROVE ParserInv'
  BY <1>5 DEF ParserInv, Whole, Emitted
<1>6. CASE parser.st = "SOF"
  <2>1. \/ parser' = [parser EXCEPT !.st = "VER", !.payload = <<>>, !.crc = <<>>]
        \/ parser' = [[parser EXCEPT !.st = "EMIT", !.error = "BAD_SOF"]
                         EXCEPT !.payload = <<>>, !.crc = <<>>]
    BY <1>6 DEF Parsed, Fail
  <2>2. \/ /\ parser'.st = "VER" /\ parser'.error = "OK"
           /\ parser'.payload = <<>> /\ parser'.crc = <<>>
        \/ parser'.st = "EMIT" /\ parser'.error # "OK"
    BY <1>1, <2>1 DEF ParserState
  <2>. QED  BY <1>4, <1>5, <2>2 DEF ParserInv, Header, Whole, Emitted
<1>. HIDE DEF covered, longer
<1>7. CASE parser.st = "VER"
  <2>1. \/ parser' = [parser EXCEPT !.st = "SEQ", !.crc = covered]
        \/ parser' = [parser EXCEPT !.st = "EMIT", !.error = "BAD_VERSION"]
    BY <1>7 DEF Parsed, Fail, covered
  <2>2. \/ /\ parser'.st = "SEQ" /\ parser'.error = "OK"
           /\ parser'.payload = parser.payload /\ parser'.crc = covered
        \/ parser'.st = "EMIT" /\ parser'.error # "OK"
    BY <1>1, <2>1 DEF ParserState
  <2>3. parser.payload = <<>> /\ Len(parser.crc) = 0
    BY <1>7 DEF ParserInv, Header
  <2>. QED  BY <1>2, <1>5, <2>2, <2>3 DEF ParserInv, Header, Whole, Emitted
<1>8. CASE parser.st = "SEQ"
  <2>1. parser' = [parser EXCEPT !.st = "CMD", !.seq = b.n, !.crc = covered]
    BY <1>8 DEF Parsed, covered
  <2>2. /\ parser'.st = "CMD" /\ parser'.error = "OK" /\ parser'.seq = b.n
        /\ parser'.payload = parser.payload /\ parser'.crc = covered
    BY <1>1, <2>1 DEF ParserState
  <2>3. parser.payload = <<>> /\ Len(parser.crc) = 1
    BY <1>8 DEF ParserInv, Header
  <2>. QED  BY <1>2, <2>2, <2>3 DEF ParserInv, Header, Whole, Emitted
<1>9. CASE parser.st = "CMD"
  <2>1. parser' = [parser EXCEPT !.st = "LEN", !.cmd = b.n, !.crc = covered]
    BY <1>9 DEF Parsed, covered
  <2>2. /\ parser'.st = "LEN" /\ parser'.error = "OK" /\ parser'.cmd = b.n
        /\ parser'.seq = parser.seq
        /\ parser'.payload = parser.payload /\ parser'.crc = covered
    BY <1>1, <2>1 DEF ParserState
  <2>3. parser.payload = <<>> /\ Len(parser.crc) = 2 /\ parser.crc[2].n = parser.seq
    BY <1>9 DEF ParserInv, Header
  <2>. QED  BY <1>2, <2>2, <2>3 DEF ParserInv, Header, Whole, Emitted
<1>10. CASE parser.st = "LEN"
  <2>1. \/ parser' = [[parser EXCEPT !.st = "EMIT", !.error = "BAD_LEN"] EXCEPT !.len = b.n]
        \/ /\ b.n = 0
           /\ parser' = [parser EXCEPT !.len = b.n, !.crc = covered, !.st = "CRC0"]
        \/ /\ b.n # 0
           /\ parser' = [parser EXCEPT !.len = b.n, !.crc = covered, !.st = "PAYLOAD"]
    BY <1>10 DEF Parsed, Fail, covered
  <2>2. \/ parser'.st = "EMIT" /\ parser'.error # "OK"
        \/ /\ \/ b.n = 0 /\ parser'.st = "CRC0"
              \/ b.n # 0 /\ parser'.st = "PAYLOAD"
           /\ parser'.error = "OK" /\ parser'.len = b.n
           /\ parser'.seq = parser.seq /\ parser'.cmd = parser.cmd
           /\ parser'.payload = parser.payload /\ parser'.crc = covered
    BY <1>1, <2>1 DEF ParserState
  <2>3. /\ parser.payload = <<>> /\ Len(parser.crc) = 3
        /\ parser.crc[2].n = parser.seq /\ parser.crc[3].n = parser.cmd
    BY <1>10 DEF ParserInv, Header
  <2>4. CASE parser'.st = "EMIT" /\ parser'.error # "OK"
    BY <1>5, <2>4
  <2>5. CASE ~ (parser'.st = "EMIT" /\ parser'.error # "OK")
    <3>1. Covers'
      <4>1. /\ Len(parser.payload) = 0 /\ Len(covered) = 4 + Len(parser.payload)
            /\ covered[2].n = parser.seq /\ covered[3].n = parser.cmd
        BY <1>2, <1>4, <2>3
      <4>2. \A k \in 1..Len(parser.payload) : covered[4 + k] = parser.payload[k]
        BY <4>1
      <4>3. /\ parser'.payload = parser.payload /\ parser'.crc = covered
            /\ parser'.seq = parser.seq /\ parser'.cmd = parser.cmd
        BY <2>2, <2>5
      <4>. QED  BY <4>1, <4>2, <4>3 DEF Covers
    <3>2. Len(parser'.payload) = 0
      BY <1>4, <2>2, <2>3, <2>5
    <3>. QED  BY <1>1, <2>2, <2>5, <3>1, <3>2 DEF ParserInv, Whole, Emitted
  <2>. QED  BY <2>4, <2>5
<1>11. CASE parser.st = "PAYLOAD"
  <2>1. parser' = [parser EXCEPT !.payload = longer, !.crc = covered,
                     !.st = IF Len(parser.payload) + 1 = parser.len THEN "CRC0" ELSE parser.st]
    BY <1>11 DEF Parsed, covered, longer
  <2>2. /\ parser'.st = IF Len(parser.payload) + 1 = parser.len THEN "CRC0" ELSE "PAYLOAD"
        /\ parser'.error = "OK" /\ parser'.len = parser.len
        /\ parser'.seq = parser.seq /\ parser'.cmd = parser.cmd
        /\ parser'.payload = longer /\ parser'.crc = covered
    BY <1>1, <1>11, <2>1 DEF ParserState
  <2>3. Covers /\ Len(parser.payload) < parser.len
    BY <1>11 DEF ParserInv
  <2>4. Covers'
    <3>1. /\ Len(parser.crc) = 4 + Len(parser.payload)
          /\ parser.crc[2].n = parser.seq /\ parser.crc[3].n = parser.cmd
          /\ \A k \in 1..Len(parser.payload) : parser.crc[4 + k] = parser.payload[k]
      BY <2>3 DEF Covers
    <3>2. covered[2].n = parser.seq /\ covered[3].n = parser.cmd
      BY <1>1, <1>2, <3>1
    <3>3. ASSUME NEW k \in 1..Len(longer)  PROVE covered[4 + k] = longer[k]
      <4>1. CASE k \in 1..Len(parser.payload)
        <5>1. 4 + k \in 1..Len(parser.crc)
          BY <1>1, <3>1, <4>1
        <5>. QED  BY <1>2, <1>3, <3>1, <4>1, <5>1
      <4>2. CASE k = Len(parser.payload) + 1
        <5>1. 4 + k = Len(parser.crc) + 1
          BY <1>1, <3>1, <4>2
        <5>. QED  BY <1>2, <1>3, <4>2, <5>1
      <4>. QED  BY <1>1, <1>3, <4>1, <4>2
    <3>4. Len(covered) = 4 + Len(longer)
      BY <1>1, <1>2, <1>3, <3>1
    <3>. QED  BY <2>2, <3>2, <3>3, <3>4 DEF Covers
  <2>5. parser'.st = "CRC0" => Len(parser'.payload) = parser'.len
    BY <1>3, <2>2
  <2>6. parser'.st = "PAYLOAD" => Len(parser'.payload) < parser'.len
    BY <1>1, <1>3, <2>2, <2>3
  <2>. QED  BY <2>2, <2>4, <2>5, <2>6 DEF ParserInv, Whole, Emitted
<1>12. CASE parser.st \in {"CRC0", "CRC1"}
  <2>1. \/ parser' = [parser EXCEPT !.st = "CRC1", !.low = b]
        \/ parser' = [parser EXCEPT !.st = "EMIT"]
        \/ parser' = [parser EXCEPT !.st = "EMIT", !.error = "BAD_CRC"]
    BY <1>12 DEF Parsed, Fail
  <2>2. /\ parser'.len = parser.len /\ parser'.seq = parser.seq /\ parser'.cmd = parser.cmd
        /\ parser'.payload = parser.payload /\ parser'.crc = parser.crc
        /\ \/ parser'.st = "EMIT"
           \/ parser'.st = "CRC1" /\ parser'.error = "OK"
    BY <1>1, <2>1 DEF ParserState
  <2>3. Covers /\ Len(parser.payload) = parser.len
    BY <1>12 DEF ParserInv
  <2>4. Covers' /\ Len(parser'.payload) = parser'.len
    BY <2>2, <2>3 DEF Covers
  <2>. QED  BY <2>2, <2>4 DEF ParserInv, Whole, Emitted
<1>. QED  BY <1>1, <1>6, <1>7, <1>8, <1>9, <1>10, <1>11, <1>12 DEF ParserState

LEMMA ParserStep ==
  ASSUME TypeInv, ParserInv, Parse  PROVE ParserInv'
<1>1. parser \in ParserState /\ rxFifo \in Seq(Bytes)
  BY DEF TypeInv, DapTypeOK
<1>2. CASE CmdEvent
  <2>1. parser' = [parser EXCEPT !.st = "SOF", !.crc = <<>>, !.error = "OK"]
    BY <1>2 DEF Parse
  <2>2. parser'.st = "SOF" /\ parser'.error = "OK"
    BY <1>1, <2>1 DEF ParserState
  <2>. QED  BY <2>2 DEF ParserInv, Whole, Emitted
<1>3. CASE ~ CmdEvent /\ ~ Emitted /\ rxFifo # <<>>
  <2>1. parser' = Parsed(Head(rxFifo)) /\ Head(rxFifo) \in Bytes
    BY <1>1, <1>3, HeadByte DEF Parse
  <2>. QED  BY <1>3, <2>1, ParsedInv
<1>4. CASE ~ CmdEvent /\ ~ (~ Emitted /\ rxFifo # <<>>)
  <2>1. parser' = parser
    BY <1>4 DEF Parse
  <2>. QED  BY <2>1 DEF ParserInv, Header, Covers, Whole, Emitted
<1>. QED  BY <1>2, <1>3, <1>4

(* A packet is told by what its checksum covers.                            *)
LEMMA PacketIs ==
  ASSUME TypeInv, Covers, NEW p \in Packets, Body(p) = parser.crc  PROVE Packet = p
<1>. DEFINE head == <<Plain(VERSION), Plain(p.seq), Plain(p.cmd), Plain(Len(p.payload))>>
<1>1. /\ p = [seq |-> p.seq, cmd |-> p.cmd, payload |-> p.payload]
      /\ p.seq \in Nat /\ p.cmd \in Nat /\ p.payload \in Seq(Data) /\ Len(p.payload) \in Nat
  BY LenProperties DEF Packets
<1>2. p.payload \in Seq(Bytes) /\ parser.payload \in Seq(Bytes) /\ Len(parser.payload) \in Nat
  BY <1>1, DataTypes, LenProperties DEF TypeInv, DapTypeOK, ParserState
<1>3. /\ head \in Seq(Bytes) /\ Len(head) = 4
      /\ head[2].n = p.seq /\ head[3].n = p.cmd
  <2>1. /\ Plain(VERSION) \in Bytes /\ Plain(p.seq) \in Bytes /\ Plain(p.cmd) \in Bytes
        /\ Plain(Len(p.payload)) \in Bytes
    BY <1>1, DataTypes DEF VERSION
  <2>2. Plain(p.seq).n = p.seq /\ Plain(p.cmd).n = p.cmd
    BY DEF Plain
  <2>. QED  BY <2>1, <2>2
<1>4. Body(p) = head \o p.payload
  BY DEF Body
<1>. HIDE DEF head
<1>5. /\ Len(Body(p)) = 4 + Len(p.payload)
      /\ \A i \in 1..(4 + Len(p.payload)) :
           Body(p)[i] = IF i <= 4 THEN head[i] ELSE p.payload[i - 4]
  <2>1. /\ Len(head \o p.payload) = Len(head) + Len(p.payload)
        /\ \A i \in 1..(Len(head) + Len(p.payload)) :
             (head \o p.payload)[i] = IF i <= Len(head) THEN head[i] ELSE p.payload[i - Len(head)]
    BY <1>2, <1>3, ConcatProperties
  <2>. QED  BY <1>3, <1>4, <2>1
<1>6. /\ Len(parser.crc) = 4 + Len(parser.payload)
      /\ parser.crc[2].n = parser.seq /\ parser.crc[3].n = parser.cmd
      /\ \A k \in 1..Len(parser.payload) : parser.crc[4 + k] = parser.payload[k]
  BY DEF Covers
<1>7. parser.seq = p.seq /\ parser.cmd = p.cmd
  <2>1. 2 \in 1..(4 + Len(p.payload)) /\ 3 \in 1..(4 + Len(p.payload))
    BY <1>1
  <2>2. Body(p)[2] = head[2] /\ Body(p)[3] = head[3]
    BY <1>5, <2>1
  <2>. QED  BY <1>3, <1>6, <2>2
<1>8. Len(parser.payload) = Len(p.payload)
  BY <1>1, <1>2, <1>5, <1>6
<1>9. ASSUME NEW k \in 1..Len(parser.payload)  PROVE parser.payload[k] = p.payload[k]
  <2>1. PICK i \in 1..(4 + Len(p.payload)) : i = 4 + k /\ ~ (i <= 4) /\ i - 4 = k
    BY <1>1, <1>8
  <2>2. Body(p)[i] = p.payload[k]
    BY <1>5, <2>1
  <2>. QED  BY <1>6, <2>1, <2>2
<1>10. parser.payload = p.payload
  BY <1>2, <1>8, <1>9, SeqEqual
<1>. QED  BY <1>1, <1>7, <1>10 DEF Packet

(* The parser gets hold of a packet with the byte that ends it.             *)
LEMMA WholeByEnd ==
  ASSUME TypeInv, ParserInv, NEW b \in Bytes, ~ Emitted, parser' = Parsed(b), Whole'
  PROVE  /\ b = Check(parser.crc, 1) /\ Covers
         /\ Packet' = Packet
<1>1. parser \in ParserState /\ parser.st # "EMIT"
  BY DEF TypeInv, DapTypeOK, Emitted
<1>2. parser'.st = "EMIT" /\ parser'.error = "OK"
  BY DEF Whole, Emitted
<1>3. CASE parser.st = "SOF"
  <2>1. \/ parser' = [parser EXCEPT !.st = "VER", !.payload = <<>>, !.crc = <<>>]
        \/ parser' = [[parser EXCEPT !.st = "EMIT", !.error = "BAD_SOF"]
                         EXCEPT !.payload = <<>>, !.crc = <<>>]
    BY <1>3 DEF Parsed, Fail
  <2>. QED  BY <1>1, <1>2, <2>1 DEF ParserState
<1>4. CASE parser.st \in {"VER", "SEQ", "CMD"}
  <2>. DEFINE covered == Covered(b)
  <2>1. \/ parser' = [parser EXCEPT !.st = "SEQ", !.crc = covered]
        \/ parser' = [parser EXCEPT !.st = "EMIT", !.error = "BAD_VERSION"]
        \/ parser' = [parser EXCEPT !.st = "CMD", !.seq = b.n, !.crc = covered]
        \/ parser' = [parser EXCEPT !.st = "LEN", !.cmd = b.n, !.crc = covered]
    BY <1>4 DEF Parsed, Fail
  <2>. HIDE DEF covered
  <2>. QED  BY <1>1, <1>2, <2>1 DEF ParserState
<1>5. CASE parser.st = "LEN"
  <2>. DEFINE covered == Covered(b)
  <2>1. \/ parser' = [[parser EXCEPT !.st = "EMIT", !.error = "BAD_LEN"] EXCEPT !.len = b.n]
        \/ parser' = [parser EXCEPT !.len = b.n, !.crc = covered, !.st = "CRC0"]
        \/ parser' = [parser EXCEPT !.len = b.n, !.crc = covered, !.st = "PAYLOAD"]
    BY <1>5 DEF Parsed, Fail
  <2>. HIDE DEF covered
  <2>. QED  BY <1>1, <1>2, <2>1 DEF ParserState
<1>6. CASE parser.st = "PAYLOAD"
  <2>. DEFINE covered == Covered(b)
              longer  == Append(parser.payload, b)
  <2>1. \/ parser' = [parser EXCEPT !.payload = longer, !.crc = covered, !.st = "CRC0"]
        \/ parser' = [parser EXCEPT !.payload = longer, !.crc = covered, !.st = parser.st]
    BY <1>6 DEF Parsed
  <2>. HIDE DEF covered, longer
  <2>. QED  BY <1>1, <1>2, <2>1 DEF ParserState
<1>7. CASE parser.st = "CRC0"
  <2>1. parser' = [parser EXCEPT !.st = "CRC1", !.low = b]
    BY <1>7 DEF Parsed
  <2>. QED  BY <1>1, <1>2, <2>1 DEF ParserState
<1>8. CASE parser.st = "CRC1"
  <2>1. \/ b = Check(parser.crc, 1) /\ parser' = [parser EXCEPT !.st = "EMIT"]
        \/ parser' = [parser EXCEPT !.st = "EMIT", !.error = "BAD_CRC"]
    BY <1>8 DEF Parsed, Fail
  <2>2. /\ b = Check(parser.crc, 1)
        /\ parser'.seq = parser.seq /\ parser'.cmd = parser.cmd /\ parser'.payload = parser.payload
    BY <1>1, <1>2, <2>1 DEF ParserState
  <2>3. Covers
    BY <1>8 DEF ParserInv
  <2>. QED  BY <2>2, <2>3 DEF Packet
<1>. QED  BY <1>1, <1>3, <1>4, <1>5, <1>6, <1>7, <1>8 DEF ParserState

(* Dropping the first packets of what is left of a script.                  *)
LEMMA LaterPart ==
  ASSUME NEW S, NEW script \in Seq(S), NEW past \in Nat, past <= Len(script),
         NEW left, left = SubSeq(script, past + 1, Len(script))
  PROVE  /\ left \in Seq(S) /\ Len(left) = Len(script) - past
         /\ \A k \in 1..Len(left) : left[k] = script[past + k]
         /\ \A first \in 1..Len(left) :
              SubSeq(left, first + 1, Len(left)) = SubSeq(script, (past + first) + 1, Len(script))
<1>. DEFINE n == Len(script)
<1>1. n \in Nat /\ \A k \in 1..n : script[k] \in S
  BY LenProperties, ElementOfSeq
<1>2. /\ left \in Seq(S) /\ Len(left) = n - past
      /\ \A k \in 1..(n - past) : left[k] = script[past + k]
  <2>1. past + 1 \in Int /\ n \in Int /\ \A i \in (past + 1)..n : script[i] \in S
    BY <1>1
  <2>2. /\ SubSeq(script, past + 1, n) \in Seq(S)
        /\ Len(SubSeq(script, past + 1, n)) = IF past + 1 <= n THEN n - (past + 1) + 1 ELSE 0
        /\ \A i \in 1..(n - (past + 1) + 1) : SubSeq(script, past + 1, n)[i] = script[past + 1 + i - 1]
    BY <2>1, SubSeqProperties
  <2>3. n - (past + 1) + 1 = n - past /\ (~ (past + 1 <= n) => n - past = 0)
    BY <1>1
  <2>4. \A k \in 1..(n - past) : past + 1 + k - 1 = past + k
    BY <1>1
  <2>. QED  BY <2>2, <2>3, <2>4
<1>3. ASSUME NEW first \in 1..(n - past)
      PROVE  SubSeq(left, first + 1, Len(left)) = SubSeq(script, (past + first) + 1, n)
  <2>. DEFINE a == SubSeq(left, first + 1, n - past)
              b == SubSeq(script, (past + first) + 1, n)
              m == n - past - first
  <2>1. /\ first \in Nat /\ past + first \in Nat /\ m \in Nat
        /\ first + 1 \in Int /\ (past + first) + 1 \in Int /\ n \in Int /\ n - past \in Int
    BY <1>1
  <2>2. /\ a \in Seq(S) /\ Len(a) = m /\ \A i \in 1..m : a[i] = left[first + i]
    <3>1. \A i \in (first + 1)..(n - past) : left[i] \in S
      BY <1>2, <2>1, ElementOfSeq
    <3>2. /\ a \in Seq(S)
          /\ Len(a) = IF first + 1 <= n - past THEN (n - past) - (first + 1) + 1 ELSE 0
          /\ \A i \in 1..((n - past) - (first + 1) + 1) : a[i] = left[first + 1 + i - 1]
      BY <2>1, <3>1, SubSeqProperties
    <3>. HIDE DEF a
    <3>3. (n - past) - (first + 1) + 1 = m /\ (~ (first + 1 <= n - past) => m = 0)
      BY <1>1, <2>1
    <3>4. \A i \in 1..m : first + 1 + i - 1 = first + i
      BY <2>1
    <3>. QED  BY <3>2, <3>3, <3>4
  <2>3. /\ b \in Seq(S) /\ Len(b) = m /\ \A i \in 1..m : b[i] = script[(past + first) + i]
    <3>1. \A i \in ((past + first) + 1)..n : script[i] \in S
      BY <1>1, <2>1
    <3>2. /\ b \in Seq(S)
          /\ Len(b) = IF (past + first) + 1 <= n THEN n - ((past + first) + 1) + 1 ELSE 0
          /\ \A i \in 1..(n - ((past + first) + 1) + 1) : b[i] = script[(past + first) + 1 + i - 1]
      BY <2>1, <3>1, SubSeqProperties
    <3>. HIDE DEF b
    <3>3. n - ((past + first) + 1) + 1 = m /\ (~ ((past + first) + 1 <= n) => m = 0)
      BY <1>1, <2>1
    <3>4. \A i \in 1..m : (past + first) + 1 + i - 1 = (past + first) + i
      BY <2>1
    <3>. QED  BY <3>2, <3>3, <3>4
  <2>. HIDE DEF a, b
  <2>4. ASSUME NEW i \in 1..m  PROVE a[i] = b[i]
    <3>1. first + i \in 1..(n - past) /\ past + (first + i) = (past + first) + i
      BY <1>1, <2>1
    <3>2. left[first + i] = script[past + (first + i)]
      BY <1>2, <3>1
    <3>. HIDE DEF m
    <3>3. a[i] = left[first + i] /\ b[i] = script[(past + first) + i]
      BY <2>2, <2>3
    <3>. QED  BY <3>1, <3>2, <3>3
  <2>. HIDE DEF m
  <2>5. a = b
    <3>1. a \in Seq(S) /\ b \in Seq(S) /\ Len(a) = Len(b)
      BY <2>2, <2>3
    <3>2. \A i \in 1..Len(a) : a[i] = b[i]
      BY <2>2, <2>4
    <3>. QED  BY <3>1, <3>2, SeqEqual
  <2>6. Len(left) = n - past
    BY <1>2
  <2>. QED  BY <2>5, <2>6, Zenon DEF a, b
<1>. QED  BY <1>1, <1>2, <1>3

(* A set of numbers has a least. *)
LEMMA Least ==
  ASSUME NEW K, K \subseteq Nat, K # {}  PROVE \E k \in K : \A j \in K : k <= j
<1>1. PICK k \in K : \A j \in K : <<j, k>> \notin OpToRel(<, Nat)
  BY WFMin, NatLessThanWellFounded, Zenon
<1>2. \A j \in K : ~ (j < k)
  BY <1>1, Zenon DEF OpToRel
<1>3. ASSUME NEW j \in K  PROVE k <= j
  <2>1. j \in Nat /\ k \in Nat /\ ~ (j < k)
    BY <1>2
  <2>. QED  BY <2>1
<1>. QED  BY <1>3

(* Executing a packet takes the first equal one of those left.              *)
LEMMA ExecutedFirst ==
  ASSUME Executed, CmdEvent, parser.error = "OK", NEW S, todo \in Seq(S),
         NEW k \in 1..Len(todo), todo[k] = Packet
  PROVE  \E first \in 1..k : /\ todo[first] = Packet /\ doing' = <<Packet>>
                             /\ todo' = SubSeq(todo, first + 1, Len(todo))
<1>. DEFINE K == {i \in 1..Len(todo) : todo[i] = Packet}
            IsFirst(i) == todo[i] = Packet /\ \A j \in 1..(i - 1) : todo[j] # Packet
            first == CHOOSE i \in DOMAIN todo : IsFirst(i)
<1>1. Len(todo) \in Nat /\ DOMAIN todo = 1..Len(todo)
  BY LenProperties
<1>2. PICK least \in K : \A j \in K : least <= j
  <2>1. K \subseteq Nat /\ K # {}
    BY <1>1
  <2>. HIDE DEF K
  <2>. QED  BY <2>1, Least
<1>3. least \in DOMAIN todo /\ IsFirst(least)
  <2>1. least \in 1..Len(todo) /\ todo[least] = Packet
    BY <1>2
  <2>2. ASSUME NEW j \in 1..(least - 1), todo[j] = Packet  PROVE FALSE
    <3>1. j \in K
      BY <1>1, <2>1, <2>2
    <3>. QED  BY <1>2, <2>1, <2>2, <3>1
  <2>. QED  BY <1>1, <2>1, <2>2
<1>4. first \in DOMAIN todo /\ IsFirst(first)
  <2>. HIDE DEF IsFirst
  <2>. QED  BY <1>3
<1>5. \E i \in DOMAIN todo : todo[i] = Packet
  BY <1>1
<1>6. todo' = SubSeq(todo, first + 1, Len(todo)) /\ doing' = <<Packet>>
  BY <1>5 DEF Executed
<1>. HIDE DEF first
<1>7. first \in 1..k
  <2>1. first \in 1..Len(todo) /\ todo[first] = Packet /\ \A j \in 1..(first - 1) : todo[j] # Packet
    BY <1>1, <1>4
  <2>2. ~ (k \in 1..(first - 1))
    BY <2>1
  <2>. QED  BY <1>1, <2>1, <2>2
<1>. QED  BY <1>4, <1>6, <1>7

(* A packet the parser holds whole is one of those left.                    *)
LEMMA HeldIsLeft ==
  ASSUME TypeInv, NEW past \in Nat, NEW held \in Nat, NEW mark, Places(past, held, mark),
         host.sent <= Len(host.script), Whole
  PROVE  held - past \in 1..Len(todo) /\ todo[held - past] = Packet
<1>1. /\ host.script \in Seq(Packets) /\ Len(host.script) \in Nat /\ host.sent \in Nat
  BY HostTypes
<1>2. /\ past < held /\ held <= host.sent /\ host.script[held] = Packet
      /\ todo = SubSeq(host.script, past + 1, Len(host.script))
  BY DEF Places
<1>3. past <= Len(host.script) /\ held <= Len(host.script)
  BY <1>1, <1>2
<1>4. /\ Len(todo) = Len(host.script) - past
      /\ \A k \in 1..Len(todo) : todo[k] = host.script[past + k]
  <2>1. PICK script : script = host.script
    OBVIOUS
  <2>2. script \in Seq(Packets) /\ past <= Len(script)
    BY <1>1, <1>3, <2>1
  <2>3. PICK left : left = SubSeq(script, past + 1, Len(script))
    OBVIOUS
  <2>4. /\ Len(left) = Len(script) - past
        /\ \A k \in 1..Len(left) : left[k] = script[past + k]
    BY <2>2, <2>3, LaterPart
  <2>5. script = host.script /\ left = todo
    BY <1>2, <2>1, <2>3
  <2>. QED  BY <2>4, <2>5
<1>5. held - past \in 1..Len(todo)
  BY <1>1, <1>2, <1>3, <1>4
<1>6. PICK k \in 1..Len(todo) : k = held - past /\ past + k = held
  BY <1>5
<1>. QED  BY <1>2, <1>4, <1>6

(* The first byte of a queue is the first of what follows on it.            *)
LEMMA HeadOfWay ==
  ASSUME NEW S, NEW queue \in Seq(S), queue # <<>>, NEW push \in Seq(S)
  PROVE  Head(queue) = (queue \o push)[1] /\ 1 \in 1..Len(queue \o push)
<1>1. Head(queue) = queue[1] /\ Len(queue) \in Nat \ {0} /\ Len(push) \in Nat
  BY HeadTailProperties, EmptySeq, LenProperties
<1>2. /\ Len(queue \o push) = Len(queue) + Len(push)
      /\ \A i \in 1..(Len(queue) + Len(push)) :
           (queue \o push)[i] = IF i <= Len(queue) THEN queue[i] ELSE push[i - Len(queue)]
  BY ConcatProperties
<1>. QED  BY <1>1, <1>2

(* A step of the line and the parser, seen from the packets: where the last *)
(* byte of a packet goes, its packet goes.                                  *)
LEMMA MarksMove ==
  ASSUME TypeInv, PacketInv, Line, Parse,
         NEW held \in Nat, NEW mark, Marked(mark, OnTheLine, host.script, held, host.sent),
         held <= host.sent, NEW d \in {0, 1}, d = 1 <=> ~ Emitted /\ rxFifo # <<>>,
         NEW held2, held2 = held \/ (d = 1 /\ OnTheLine[1].half = 1 /\ held2 = mark[1])
  PROVE  \E now : Marked(now, OnTheLine', host'.script, held2, host'.sent)
<1>1. /\ rxFifo \in Seq(Bytes) /\ line \in Seq(Bytes) /\ Len(line) <= 1
      /\ host.sent \in Nat
  BY HostTypes DEF TypeInv, DapTypeOK
<1>2. /\ host'.script = host.script /\ host'.sent \in {host.sent, host.sent + 1}
      /\ line' \in Seq(Bytes) /\ Len(line') <= 1
      /\ Len(line') = 1 /\ line'[1].half = 1 =>
           host'.sent = host.sent + 1 /\ Ends(host.script, host.sent + 1, line'[1])
  BY LineMarks
<1>3. PICK queue, push, fifo, last : queue = rxFifo /\ push = line /\ fifo = rxFifo' /\ last = line'
  OBVIOUS
<1>4. fifo = (IF d = 1 THEN Tail(queue) ELSE queue)
             \o (IF Len(queue) < RxDepth THEN push ELSE <<>>)
  BY <1>3 DEF Parse, Fifo
<1>5. PICK way, moved : way = OnTheLine /\ moved = OnTheLine'
  OBVIOUS
<1>6. way = queue \o push /\ moved = fifo \o last
  BY <1>3, <1>5 DEF OnTheLine
<1>7. /\ way \in Seq(Bytes) /\ moved \in Seq(Bytes)
      /\ \E n \in Nat : /\ Moved(way, moved, n, d)
                        /\ Len(moved) = n + Len(last)
                        /\ Len(last) = 1 => moved[n + 1] = last[1]
  <2>1. Queued(Bytes, queue, RxDepth, push, last, d, way, moved)
    BY <1>1, <1>2, <1>3, <1>4, <1>6 DEF Queued
  <2>. QED  BY <2>1, FifoMoves
<1>8. PICK n \in Nat : /\ Moved(way, moved, n, d) /\ Len(moved) = n + Len(last)
                       /\ Len(last) = 1 => moved[n + 1] = last[1]
  BY <1>7
<1>9. Len(moved) = n + 1 /\ moved[n + 1].half = 1 =>
        host'.sent = host.sent + 1 /\ Ends(host.script, host.sent + 1, moved[n + 1])
  <2>1. Len(last) \in Nat
    BY <1>2, <1>3, LenProperties
  <2>2. Len(moved) = n + 1 => Len(last) = 1 /\ moved[n + 1] = last[1]
    <3>1. PICK m \in Nat : m = Len(last)
      BY <2>1
    <3>2. Len(moved) = n + m /\ (m = 1 => moved[n + 1] = last[1])
      BY <1>8, <3>1
    <3>3. n + m = n + 1 => m = 1
      OBVIOUS
    <3>. QED  BY <3>1, <3>2, <3>3
  <2>3. Len(last) = 1 /\ last[1].half = 1 =>
          host'.sent = host.sent + 1 /\ Ends(host.script, host.sent + 1, last[1])
    BY <1>2, <1>3
  <2>. QED  BY <2>2, <2>3
<1>10. Passes(Bytes, way, moved, n, d, mark, host.script, held, host.sent, held2, host'.sent)
  BY <1>1, <1>2, <1>5, <1>7, <1>8, <1>9 DEF Passes
<1>11. \E now : Marked(now, moved, host.script, held2, host'.sent)
  BY <1>10, MarkedStep
<1>. QED  BY <1>2, <1>5, <1>11

LEMMA PacketStep ==
  ASSUME TypeInv, PacketInv, ParserInv, Tick  PROVE PacketInv'
<1>1. PICK past \in Nat, held \in Nat : \E mark : Places(past, held, mark)
  BY DEF PacketInv
<1>2. PICK mark : Places(past, held, mark)
  BY <1>1
<1>3. /\ past <= held /\ held <= host.sent
      /\ todo = SubSeq(host.script, past + 1, Len(host.script))
      /\ Marked(mark, OnTheLine, host.script, held, host.sent)
      /\ Whole => past < held /\ host.script[held] = Packet
  BY <1>2 DEF Places
<1>4. /\ Line /\ Parse /\ Executed
      /\ host.script \in Seq(Packets) /\ Len(host.script) \in Nat /\ host.sent \in Nat
      /\ host.sent <= Len(host.script)
      /\ parser \in ParserState /\ rxFifo \in Seq(Bytes) /\ line \in Seq(Bytes)
  BY HostTypes DEF Tick, PacketInv, TypeInv, DapTypeOK
<1>5. /\ host'.script = host.script /\ host'.sent \in {host.sent, host.sent + 1}
      /\ host'.sent <= Len(host.script)
  BY <1>4, LineMarks
<1>6. /\ past <= Len(host.script) /\ todo \in Seq(Packets) /\ Len(todo) = Len(host.script) - past
      /\ \A k \in 1..Len(todo) : todo[k] = host.script[past + k]
      /\ \A k \in 1..Len(todo) : SubSeq(todo, k + 1, Len(todo)) =
                                   SubSeq(host.script, (past + k) + 1, Len(host.script))
  <2>1. past <= Len(host.script)
    BY <1>3, <1>4
  <2>2. PICK script : script = host.script
    OBVIOUS
  <2>3. script \in Seq(Packets) /\ past <= Len(script)
    BY <1>4, <2>1, <2>2
  <2>4. PICK left : left = SubSeq(script, past + 1, Len(script))
    OBVIOUS
  <2>5. /\ left \in Seq(Packets) /\ Len(left) = Len(script) - past
        /\ \A k \in 1..Len(left) : left[k] = script[past + k]
        /\ \A k \in 1..Len(left) :
             SubSeq(left, k + 1, Len(left)) = SubSeq(script, (past + k) + 1, Len(script))
    BY <2>3, <2>4, LaterPart
  <2>6. script = host.script /\ left = todo
    BY <1>3, <2>2, <2>4
  <2>. QED  BY <2>1, <2>5, <2>6
<1>. DEFINE d == IF ~ Emitted /\ rxFifo # <<>> THEN 1 ELSE 0
<1>7. ASSUME NEW held2 \in Nat, held2 = held \/ (d = 1 /\ OnTheLine[1].half = 1 /\ held2 = mark[1])
      PROVE  \E now : Marked(now, OnTheLine', host'.script, held2, host'.sent)
  <2>1. d \in {0, 1} /\ (d = 1 <=> ~ Emitted /\ rxFifo # <<>>)
    OBVIOUS
  <2>. HIDE DEF d
  <2>. QED  BY <1>3, <1>4, <1>7, <2>1, MarksMove
<1>8. CASE CmdEvent /\ Whole
  <2>1. held - past \in 1..Len(todo) /\ todo[held - past] = Packet
    BY <1>2, <1>4, <1>8, HeldIsLeft
  <2>2. PICK k \in 1..Len(todo) : k = held - past /\ todo[k] = Packet
    BY <2>1
  <2>3. parser.error = "OK"
    BY <1>8 DEF Whole
  <2>4. PICK first \in 1..k : todo' = SubSeq(todo, first + 1, Len(todo))
    BY <1>4, <1>6, <1>8, <2>2, <2>3, ExecutedFirst
  <2>5. first \in 1..Len(todo) /\ past + first \in Nat /\ past + first <= held
    BY <1>6, <2>2, <2>4
  <2>6. todo' = SubSeq(host'.script, (past + first) + 1, Len(host'.script))
    BY <1>5, <1>6, <2>4, <2>5
  <2>7. PICK now : Marked(now, OnTheLine', host'.script, held, host'.sent)
    BY <1>7
  <2>8. ~ Whole'
    <3>1. parser' = [parser EXCEPT !.st = "SOF", !.crc = <<>>, !.error = "OK"]
      BY <1>4, <1>8 DEF Parse
    <3>. QED  BY <1>4, <3>1 DEF ParserState, Whole, Emitted
  <2>9. held <= host'.sent
    BY <1>3, <1>4, <1>5
  <2>10. Places(past + first, held, now)'
    BY <2>5, <2>6, <2>7, <2>8, <2>9 DEF Places
  <2>. QED  BY <1>5, <2>5, <2>10 DEF PacketInv
<1>9. CASE ~ (CmdEvent /\ Whole)
  <2>1. todo' = todo
    BY <1>4, <1>9 DEF Executed, Whole, CmdEvent
  <2>2. todo' = SubSeq(host'.script, past + 1, Len(host'.script))
    BY <1>3, <1>5, <2>1
  <2>3. CASE Whole' /\ ~ Whole
    <3>1. ~ Emitted /\ rxFifo # <<>> /\ parser' = Parsed(Head(rxFifo))
      <4>1. CmdEvent => ~ Whole'
        <5>1. CmdEvent => parser' = [parser EXCEPT !.st = "SOF", !.crc = <<>>, !.error = "OK"]
          BY <1>4 DEF Parse
        <5>. QED  BY <1>4, <5>1 DEF ParserState, Whole, Emitted
      <4>2. parser' # parser
        BY <2>3 DEF Whole, Emitted
      <4>. QED  BY <1>4, <2>3, <4>1, <4>2 DEF Parse
    <3>2. Head(rxFifo) \in Bytes /\ Head(rxFifo) = OnTheLine[1] /\ 1 \in 1..Len(OnTheLine)
      BY <1>4, <3>1, HeadByte, HeadOfWay DEF OnTheLine
    <3>3. /\ OnTheLine[1] = Check(parser.crc, 1) /\ Covers /\ Packet' = Packet
      BY <2>3, <3>1, <3>2, WholeByEnd
    <3>4. OnTheLine[1].half = 1 /\ OnTheLine[1].covers = parser.crc
      BY <3>3 DEF Check
    <3>5. /\ mark \in [1..Len(OnTheLine) -> Nat]
          /\ held < mark[1] /\ mark[1] <= host.sent /\ Ends(host.script, mark[1], OnTheLine[1])
      BY <1>3, <3>2, <3>4 DEF Marked
    <3>6. mark[1] \in Nat
      BY <3>2, <3>5
    <3>7. host.script[mark[1]] = Packet
      <4>1. PICK p : p = host.script[mark[1]]
        OBVIOUS
      <4>2. mark[1] \in 1..Len(host.script) /\ OnTheLine[1] = Check(Body(p), 1)
        BY <3>5, <4>1 DEF Ends
      <4>3. p \in Packets
        BY <1>4, <4>1, <4>2, ElementOfSeq
      <4>4. Body(p) = parser.crc
        BY <3>4, <4>2 DEF Check
      <4>. QED  BY <3>3, <4>1, <4>3, <4>4, PacketIs
    <3>8. PICK now : Marked(now, OnTheLine', host'.script, mark[1], host'.sent)
      BY <1>7, <3>1, <3>4, <3>6
    <3>9. past <= mark[1] /\ past < mark[1] /\ mark[1] <= host'.sent
      BY <1>3, <1>4, <1>5, <3>5, <3>6
    <3>10. host'.script[mark[1]] = Packet'
      BY <1>5, <3>3, <3>7
    <3>11. Places(past, mark[1], now)'
      BY <2>2, <3>8, <3>9, <3>10 DEF Places
    <3>. QED  BY <1>5, <3>6, <3>11 DEF PacketInv
  <2>4. CASE ~ (Whole' /\ ~ Whole)
    <3>1. Whole' => Whole /\ Packet' = Packet
      <4>1. Whole /\ ~ CmdEvent => parser' = parser
        BY <1>4 DEF Parse, Whole
      <4>. QED  BY <1>9, <2>4, <4>1 DEF Packet
    <3>2. PICK now : Marked(now, OnTheLine', host'.script, held, host'.sent)
      BY <1>7
    <3>3. held <= host'.sent
      BY <1>3, <1>4, <1>5
    <3>4. Whole' => past < held /\ host'.script[held] = Packet'
      BY <1>3, <1>5, <3>1
    <3>5. Places(past, held, now)'
      BY <1>3, <2>2, <3>2, <3>3, <3>4 DEF Places
    <3>. QED  BY <1>5, <3>5 DEF PacketInv
  <2>. QED  BY <2>3, <2>4
<1>. QED  BY <1>8, <1>9

LEMMA PacketInit == Init => PacketInv /\ ParserInv
<1>. SUFFICES ASSUME Init PROVE PacketInv /\ ParserInv
  OBVIOUS
<1>1. /\ parser.st = "SOF" /\ parser.error = "OK" /\ rxFifo = <<>> /\ line = <<>>
      /\ host.sent = 0 /\ todo = host.script
  BY DEF Init
<1>2. ~ Emitted /\ ~ Whole /\ ParserInv
  BY <1>1 DEF ParserInv, Emitted, Whole
<1>3. OnTheLine = <<>> /\ Len(OnTheLine) = 0
  <2>1. <<>> \in Seq(Bytes)
    OBVIOUS
  <2>. QED  BY <1>1, <2>1, ConcatEmptySeq, EmptySeq DEF OnTheLine
<1>4. host.script \in Seq(Packets) /\ Len(host.script) \in Nat
  BY TypeInit, HostTypes
<1>5. todo = SubSeq(host.script, 0 + 1, Len(host.script))
  <2>1. PICK all : all = SubSeq(host.script, 0 + 1, Len(host.script))
    OBVIOUS
  <2>2. /\ all \in Seq(Packets) /\ Len(all) = Len(host.script) - 0
        /\ \A k \in 1..Len(all) : all[k] = host.script[0 + k]
    BY <1>4, <2>1, LaterPart
  <2>3. Len(all) = Len(host.script) /\ \A k \in 1..Len(all) : all[k] = host.script[k]
    BY <1>4, <2>2
  <2>4. all = host.script
    BY <1>4, <2>2, <2>3, SeqEqual
  <2>. QED  BY <1>1, <2>1, <2>4
<1>6. \E mark : Marked(mark, OnTheLine, host.script, 0, 0)
  <2>1. [k \in 1..Len(OnTheLine) |-> 0] \in [1..Len(OnTheLine) -> Nat]
    OBVIOUS
  <2>2. \A k : k \notin 1..Len(OnTheLine)
    BY <1>3
  <2>. QED  BY <2>1, <2>2 DEF Marked
<1>7. PICK mark : Places(0, 0, mark)
  BY <1>1, <1>2, <1>5, <1>6 DEF Places
<1>. QED  BY <1>1, <1>2, <1>4, <1>7 DEF PacketInv

-----------------------------------------------------------------------------
(* What a step of the engine keeps of the lock and whose work it begins.    *)
SameLock == engine'.unlocked = engine.unlocked /\ engine'.hold = engine.hold

LEMMA AnsweredKeeps ==
  ASSUME TypeInv
  PROVE  /\ Answered.unlocked = engine.unlocked /\ Answered.hold = engine.hold
         /\ Answered.seq = parser.seq /\ Answered.st = "RESP" /\ Answered \in EngineState
         /\ Started.unlocked = engine.unlocked /\ Started.hold = engine.hold
         /\ Started.seq = parser.seq /\ Started \in EngineState
         /\ Base.unlocked = engine.unlocked /\ Base.hold = engine.hold /\ Base.st = engine.st
         /\ Base.seq = engine.seq /\ Base \in EngineState
<1>1. engine \in EngineState /\ parser.seq \in Nat
  BY DEF TypeInv, DapTypeOK, ParserState
<1>2. Base \in EngineState /\ Base.hold = engine.hold
  <2>. DEFINE aw == IF Axi!AwTaken THEN <<>> ELSE engine.aw
              w  == IF Axi!WTaken THEN <<>> ELSE engine.w
              ar == IF Axi!ArTaken THEN <<>> ELSE engine.ar
              timeout == IF engine.st = "IDLE" THEN 0
                         ELSE IF engine.timeout < TimeoutCycles THEN engine.timeout + 1
                         ELSE engine.timeout
  <2>1. Base = [engine EXCEPT !.aw = aw, !.w = w, !.ar = ar, !.chunk = FALSE,
                              !.release = FALSE, !.timeout = timeout]
    BY DEF Base
  <2>. HIDE DEF aw, w, ar, timeout
  <2>2. Base.hold = engine.hold
    BY <1>1, <2>1 DEF EngineState
  <2>. QED  BY <2>2, BaseFacts
<1>3. Answered.hold = engine.hold /\ Answered.seq = parser.seq
  BY <1>1, <1>2 DEF Answered, EngineState
<1>4. Started.hold = engine.hold /\ Started.seq = parser.seq
  BY <1>3, AnsweredFacts DEF Started, EngineState
<1>. QED  BY <1>2, <1>3, <1>4, AnsweredFacts, BaseFacts

BeginsRead  == /\ engine'.st = "AXI_READ" /\ parser.cmd = Code.READ32 /\ parser.len = AddrLen
               /\ engine'.ar = <<Arg(1).n>>
BeginsWrite == /\ engine'.st = "AXI_WRITE" /\ engine.unlocked
               /\ parser.cmd = Code.WRITE32 /\ parser.len = WriteLen
               /\ engine'.aw = <<Arg(1).n>> /\ engine'.w = <<Arg(2).n>>
BeginsLoad  == /\ engine'.st = "ROM_WAIT" /\ engine.unlocked /\ parser.cmd = Code.ROM_WRITE
               /\ engine'.chunk
LEMMA BeginsAsGiven ==
  ASSUME TypeInv, Command, Working'
  PROVE  /\ CmdEvent /\ Whole /\ engine'.seq = parser.seq /\ NoResponse /\ SameLock
         /\ BeginsRead \/ BeginsWrite \/ BeginsLoad
<1>1. ASSUME engine' = Answered  PROVE FALSE
  BY <1>1, AnsweredKeeps DEF Working
<1>2. ~ NoCommand
  <2>1. NoCommand => engine'.st = "IDLE"
    BY BaseFacts DEF NoCommand, EngineState
  <2>. QED  BY <2>1 DEF Working
<1>3. ~ (BadPacket \/ Unknown \/ Ping \/ Ident \/ Status)
  BY <1>1 DEF BadPacket, Unknown, Ping, Ident, Status, Refused
<1>4. ~ Unlock
  <2>. DEFINE right == parser.len = KeyLen /\ Arg(1) = Key
  <2>1. Unlock => engine' = [Answered EXCEPT !.unlocked = right]
    BY DEF Unlock
  <2>. HIDE DEF right
  <2>. QED  BY <2>1, AnsweredKeeps DEF Working, EngineState
<1>5. ~ Lock
  <2>1. Lock => engine' = [Answered EXCEPT !.unlocked = FALSE, !.hold = FALSE]
    BY DEF Lock
  <2>. QED  BY <2>1, AnsweredKeeps DEF Working, EngineState
<1>6. ~ HoldCore
  <2>. DEFINE one == (Arg(1).n % 2 = 1)
              let == ~ one
  <2>1. HoldCore => engine' = Answered \/ engine' = [Answered EXCEPT !.hold = one, !.release = let]
    BY DEF HoldCore, Refused
  <2>. HIDE DEF one, let
  <2>. QED  BY <1>1, <2>1, AnsweredKeeps DEF Working, EngineState
<1>7. ASSUME Read32
      PROVE  CmdEvent /\ Whole /\ engine'.seq = parser.seq /\ NoResponse /\ SameLock /\ BeginsRead
  <2>. DEFINE ar == <<Arg(1).n>>
  <2>1. /\ CmdEvent /\ parser.error = "OK" /\ parser.cmd = Code.READ32 /\ parser.len = AddrLen
        /\ NoResponse /\ engine' = [Started EXCEPT !.st = "AXI_READ", !.ar = ar, !.rready = TRUE]
    BY <1>1, <1>7 DEF Read32, Given, Refused
  <2>. HIDE DEF ar
  <2>2. engine'.st = "AXI_READ" /\ engine'.ar = ar /\ engine'.seq = parser.seq /\ SameLock
    BY <2>1, AnsweredKeeps DEF EngineState, SameLock
  <2>. QED  BY <2>1, <2>2 DEF BeginsRead, Whole, CmdEvent, ar
<1>8. ASSUME Write32
      PROVE  CmdEvent /\ Whole /\ engine'.seq = parser.seq /\ NoResponse /\ SameLock /\ BeginsWrite
  <2>. DEFINE aw == <<Arg(1).n>>
              w  == <<Arg(2).n>>
  <2>1. /\ CmdEvent /\ parser.error = "OK" /\ parser.cmd = Code.WRITE32 /\ parser.len = WriteLen
        /\ engine.unlocked /\ NoResponse
        /\ engine' = [Started EXCEPT !.st = "AXI_WRITE", !.aw = aw, !.w = w, !.bready = TRUE]
    BY <1>1, <1>8 DEF Write32, Given, Refused
  <2>. HIDE DEF aw, w
  <2>2. /\ engine'.st = "AXI_WRITE" /\ engine'.aw = aw /\ engine'.w = w
        /\ engine'.seq = parser.seq /\ SameLock
    BY <2>1, AnsweredKeeps DEF EngineState, SameLock
  <2>. QED  BY <2>1, <2>2 DEF BeginsWrite, Whole, CmdEvent, aw, w
<1>9. ASSUME RomWrite
      PROVE  CmdEvent /\ Whole /\ engine'.seq = parser.seq /\ NoResponse /\ SameLock /\ BeginsLoad
  <2>1. /\ CmdEvent /\ parser.error = "OK" /\ parser.cmd = Code.ROM_WRITE
        /\ engine.unlocked /\ NoResponse
        /\ engine' = [Started EXCEPT !.st = "ROM_WAIT", !.chunk = TRUE]
    BY <1>1, <1>9 DEF RomWrite, Given, Refused
  <2>2. /\ engine'.st = "ROM_WAIT" /\ engine'.chunk
        /\ engine'.seq = parser.seq /\ SameLock
    BY <2>1, AnsweredKeeps DEF EngineState, SameLock
  <2>. QED  BY <2>1, <2>2 DEF BeginsLoad, Whole, CmdEvent
<1>. QED  BY <1>2, <1>3, <1>4, <1>5, <1>6, <1>7, <1>8, <1>9 DEF Command

(* A packet executed is the one the parser holds.                           *)
LEMMA ExecutedPacket ==
  ASSUME TypeInv, PacketInv, Executed, CmdEvent, Whole
  PROVE  \E first \in DOMAIN todo : /\ todo[first] = Packet /\ doing' = <<Packet>>
                                    /\ todo' = SubSeq(todo, first + 1, Len(todo))
<1>1. PICK past \in Nat, held \in Nat : \E mark : Places(past, held, mark)
  BY DEF PacketInv
<1>2. PICK mark : Places(past, held, mark)
  BY <1>1
<1>3. PICK k \in 1..Len(todo) : todo[k] = Packet
  BY <1>2, HeldIsLeft DEF PacketInv
<1>4. todo \in Seq(Packets) /\ Len(todo) \in Nat /\ DOMAIN todo = 1..Len(todo)
  <2>1. PICK script : script = host.script
    OBVIOUS
  <2>2. /\ script \in Seq(Packets) /\ past <= Len(script)
        /\ todo = SubSeq(script, past + 1, Len(script))
    <3>1. /\ past <= held /\ held <= host.sent
          /\ todo = SubSeq(host.script, past + 1, Len(host.script))
      BY <1>2 DEF Places
    <3>2. host.sent <= Len(host.script)
      BY DEF PacketInv
    <3>3. past <= Len(host.script)
      BY <3>1, <3>2, HostTypes
    <3>. QED  BY <2>1, <3>1, <3>3, HostTypes
  <2>3. PICK left : left = SubSeq(script, past + 1, Len(script))
    OBVIOUS
  <2>4. left \in Seq(Packets)
    BY <2>2, <2>3, LaterPart
  <2>. QED  BY <2>2, <2>3, <2>4, LenProperties
<1>5. PICK first \in 1..k : /\ todo[first] = Packet /\ doing' = <<Packet>>
                            /\ todo' = SubSeq(todo, first + 1, Len(todo))
  BY <1>3, <1>4, ExecutedFirst DEF Whole
<1>6. first \in DOMAIN todo
  BY <1>3, <1>4
<1>. QED  BY <1>5, <1>6

(* A whole packet is one of the script: it fits if those of the script do.  *)
LEMMA WholeFits ==
  ASSUME ScriptsFit, TypeInv, PacketInv, Whole  PROVE WellFormed(Packet)
<1>1. PICK past \in Nat, held \in Nat : \E mark : Places(past, held, mark)
  BY DEF PacketInv
<1>2. /\ past < held /\ held <= host.sent /\ host.sent <= Len(host.script)
      /\ host.script[held] = Packet
  BY <1>1 DEF Places, PacketInv
<1>3. /\ host.script \in Scripts /\ host.sent \in Nat /\ Len(host.script) \in Nat
      /\ DOMAIN host.script = 1..Len(host.script)
  BY HostTypes, LenProperties DEF TypeInv, DapTypeOK, HostState
<1>4. held \in DOMAIN host.script
  BY <1>2, <1>3
<1>. QED  BY <1>2, <1>3, <1>4 DEF ScriptsFit

(* The arguments of the command are the payload, when it is as long as they *)
(* are.                                                                     *)
LEMMA ArgIs ==
  ASSUME TypeInv, ParserInv, Whole, NEW k \in 1..parser.len
  PROVE  Arg(k) = Packet.payload[k]
<1>1. Len(parser.payload) = parser.len /\ parser.payload \in Seq(Bytes)
  BY DEF ParserInv, TypeInv, DapTypeOK, ParserState
<1>2. k \in DOMAIN parser.payload
  BY <1>1, LenProperties
<1>. QED  BY <1>2 DEF Arg, Byte, Packet

(* What the skid buffers and the bridge make of what they have.             *)
LEMMA PortKeeps ==
  ASSUME TypeInv, LimitIsAmple, InTime, Tick, Access
  PROVE  /\ skid'.aw \in {engine.aw, skid.aw} /\ skid'.w \in {engine.w, skid.w}
         /\ skid'.ar \in {engine.ar, skid.ar}
         /\ bridge'.state = "WAIT_REG" =>
              /\ engine.st = "AXI_WRITE" => /\ skid.aw # <<>> /\ bridge'.req = skid.aw
                                            /\ skid.w # <<>> /\ bridge'.w = skid.w
              /\ engine.st = "AXI_READ" => skid.ar # <<>> /\ bridge'.req = skid.ar
         /\ engine.st = "AXI_READ" => regs' = regs
         /\ engine.st = "AXI_READ" /\ bridge.r = <<>> /\ bridge'.r # <<>> =>
              bridge.state = "WAIT_REG" /\ bridge'.r = <<regs[bridge.req[1]]>>
         /\ engine.st = "AXI_WRITE" /\ ~ bridge.b /\ bridge'.b =>
              /\ bridge.state = "WAIT_REG"
              /\ regs' = [regs EXCEPT ![bridge.req[1]] =
                            [val |-> bridge.w[1], odd |-> ~ regs[bridge.req[1]].odd]]
         /\ engine.st = "AXI_WRITE" /\ (bridge.b \/ ~ bridge'.b) => regs' = regs
<1>. DEFINE we == engine.st = "AXI_WRITE"
<1>1. /\ bridge \in BridgeState /\ Port /\ Age \in 0..3 /\ PortAt(skid, bridge, we, Age)
      /\ we <=> engine.st # "AXI_READ"
  BY DEF TypeInv, DapTypeOK, Tick, InTime, BusInv, Age, Access
<1>. HIDE DEF we
<1>2. skid' = [aw |-> IF Axi!AwTaken THEN engine.aw ELSE skid.aw,
               w  |-> IF Axi!WTaken THEN engine.w ELSE skid.w,
               ar |-> IF Axi!ArTaken THEN engine.ar ELSE skid.ar]
  BY <1>1 DEF Port, Axi!Skids, Bus
<1>3. /\ skid'.aw \in {engine.aw, skid.aw} /\ skid'.w \in {engine.w, skid.w}
      /\ skid'.ar \in {engine.ar, skid.ar}
  BY <1>2
<1>4. /\ skid.aw # <<>> <=> we /\ Age = 1
      /\ skid.w # <<>>  <=> we /\ Age = 1
      /\ skid.ar # <<>> <=> ~ we /\ Age = 1
      /\ bridge.state = IF Age = 2 THEN "WAIT_REG" ELSE IF Age = 3 THEN "RESP" ELSE "IDLE"
      /\ Age \in {2, 3} => (bridge.we <=> we)
      /\ Age \notin {2, 3} => bridge.aw = <<>> /\ bridge.w = <<>>
      /\ bridge.b <=> we /\ Age = 3
      /\ bridge.r # <<>> <=> ~ we /\ Age = 3
  BY <1>1 DEF PortAt
<1>5. CASE Axi!Join
  <2>1. bridge.state = "IDLE" /\ bridge.aw = <<>> /\ bridge.w = <<>>
    BY <1>1, <1>4, <1>5 DEF Axi!Join
  <2>2. Axi!Address = skid.aw /\ Axi!Data = skid.w
    BY <2>1 DEF Axi!Address, Axi!Data, Axi!AwReady, Axi!WReady
  <2>3. /\ skid.aw # <<>> /\ skid.w # <<>> /\ regs' = regs
        /\ bridge' = [bridge EXCEPT !.state = "WAIT_REG", !.we = TRUE,
                        !.aw = skid.aw, !.w = skid.w, !.req = skid.aw]
    BY <1>5, <2>2 DEF Axi!Join
  <2>4. bridge'.req = skid.aw /\ bridge'.w = skid.w /\ bridge'.b = bridge.b /\ bridge'.r = bridge.r
    BY <1>1, <2>3 DEF BridgeState
  <2>. QED  BY <1>1, <1>3, <1>4, <2>3, <2>4 DEF we
<1>6. CASE Axi!TakeRead
  <2>1. /\ skid.ar # <<>> /\ regs' = regs
        /\ bridge' = [bridge EXCEPT !.state = "WAIT_REG", !.we = FALSE, !.req = skid.ar]
    BY <1>6 DEF Axi!TakeRead
  <2>2. bridge'.req = skid.ar /\ bridge'.b = bridge.b /\ bridge'.r = bridge.r
    BY <1>1, <2>1 DEF BridgeState
  <2>. QED  BY <1>1, <1>3, <1>4, <2>1, <2>2 DEF we
<1>7. CASE Axi!Collect
  <2>1. /\ bridge.state = "IDLE" /\ regs' = regs
        /\ bridge' = [bridge EXCEPT !.aw = Axi!Address, !.w = Axi!Data]
    BY <1>7 DEF Axi!Collect
  <2>2. bridge'.state = "IDLE" /\ bridge'.b = bridge.b /\ bridge'.r = bridge.r
    BY <1>1, <2>1 DEF BridgeState
  <2>. QED  BY <1>1, <1>3, <1>4, <2>1, <2>2 DEF we
<1>8. CASE Axi!PerformWrite
  <2>1. /\ bridge.state = "WAIT_REG" /\ bridge.we
        /\ regs' = [regs EXCEPT ![bridge.req[1]] =
                      [val |-> bridge.w[1], odd |-> ~ regs[bridge.req[1]].odd]]
        /\ bridge' = [bridge EXCEPT !.state = "RESP", !.b = TRUE]
    BY <1>8 DEF Axi!PerformWrite
  <2>2. bridge'.state = "RESP" /\ bridge'.b /\ bridge'.r = bridge.r
    BY <1>1, <2>1 DEF BridgeState
  <2>3. we /\ ~ bridge.b
    BY <1>1, <1>4, <2>1
  <2>. QED  BY <1>1, <1>3, <2>1, <2>2, <2>3 DEF we
<1>9. CASE Axi!PerformRead
  <2>. DEFINE value == <<regs[bridge.req[1]]>>
  <2>1. /\ bridge.state = "WAIT_REG" /\ ~ bridge.we /\ regs' = regs
        /\ bridge' = [bridge EXCEPT !.state = "RESP", !.r = value]
    BY <1>9 DEF Axi!PerformRead
  <2>. HIDE DEF value
  <2>2. bridge'.state = "RESP" /\ bridge'.b = bridge.b /\ bridge'.r = value
    BY <1>1, <2>1 DEF BridgeState
  <2>3. ~ we
    BY <1>1, <1>4, <2>1
  <2>. QED  BY <1>1, <1>3, <2>1, <2>2, <2>3 DEF we, value
<1>10. CASE Axi!Close
  <2>1. /\ regs' = regs
        /\ bridge' = [bridge EXCEPT !.state = "IDLE", !.aw = <<>>, !.w = <<>>,
                        !.b = FALSE, !.r = <<>>]
    BY <1>10 DEF Axi!Close
  <2>2. bridge'.state = "IDLE" /\ ~ bridge'.b /\ bridge'.r = <<>>
    BY <1>1, <2>1 DEF BridgeState
  <2>. QED  BY <1>1, <1>3, <2>1, <2>2 DEF we
<1>11. CASE Axi!Hold
  <2>1. bridge.state = "RESP" /\ bridge' = bridge /\ regs' = regs
    BY <1>11 DEF Axi!Hold
  <2>. QED  BY <1>1, <1>3, <1>4, <2>1 DEF we
<1>. QED  BY <1>1, <1>5, <1>6, <1>7, <1>8, <1>9, <1>10, <1>11 DEF Port

(* A step leaves the command under way where it is, or begins that of the   *)
(* packet held.                                                             *)
LEMMA WorkGoesOn ==
  ASSUME TypeInv, LimitIsAmple, InTime, Tick, Working'
  PROVE  \/ /\ Working /\ Waits /\ engine'.st = engine.st /\ engine'.seq = engine.seq
            /\ SameLock /\ doing' = doing /\ todo' = todo
         \/ Command
<1>1. EngineCase /\ Engine
  BY EngineCases DEF Tick
<1>2. Command \/ Work
  BY <1>1, BelowLimit, TimeTypes DEF Engine
<1>3. ASSUME Work  PROVE Waits /\ Working /\ engine'.st = engine.st /\ engine' = Base
  <2>1. Waits \/ Finishes \/ Returns
    BY <1>3, WorkCases
  <2>2. ~ Finishes
    BY DEF Finishes, Working
  <2>3. ~ Returns
    BY DEF Returns, Working
  <2>4. Waits /\ engine' = Base /\ Base.st = engine.st
    BY <2>1, <2>2, <2>3, BaseFacts DEF Waits
  <2>. QED  BY <2>4 DEF Waits, Working
<1>4. ASSUME Work  PROVE doing' = doing /\ todo' = todo
  <2>1. ~ CmdEvent
    BY <1>3, <1>4 DEF Working, CmdEvent
  <2>2. Executed
    BY DEF Tick
  <2>. QED  BY <2>1, <2>2 DEF Executed
<1>. QED  BY <1>2, <1>3, <1>4, AnsweredKeeps DEF SameLock

LEMMA WriteStep ==
  ASSUME TypeInv, LimitIsAmple, InTime, Tick, WorkInv, ParserInv, PacketInv,
         BusInv', Working', engine'.st = "AXI_WRITE"
  PROVE  WriteInv' /\ doing' = <<doing'[1]>> /\ doing'[1].seq = engine'.seq
<1>1. /\ engine'.aw # <<>> <=> Age' = 0
      /\ engine'.w # <<>> <=> Age' = 0
      /\ skid'.aw # <<>> <=> Age' = 1
      /\ skid'.w # <<>>  <=> Age' = 1
      /\ bridge'.state = IF Age' = 2 THEN "WAIT_REG" ELSE IF Age' = 3 THEN "RESP" ELSE "IDLE"
      /\ Age' = engine'.timeout
  BY DEF BusInv, OffersAt, PortAt, Age, Access
<1>2. CASE Command
  <2>1. /\ CmdEvent /\ Whole /\ engine'.seq = parser.seq /\ BeginsWrite
    BY <1>2, BeginsAsGiven DEF BeginsRead, BeginsLoad
  <2>2. doing' = <<Packet>>
    BY <2>1, ExecutedPacket DEF Tick
  <2>3. Arg(1) = Packet.payload[1] /\ Arg(2) = Packet.payload[2]
    <3>1. 1 \in 1..parser.len /\ 2 \in 1..parser.len
      BY <2>1 DEF BeginsWrite, WriteLen
    <3>. QED  BY <2>1, <3>1, ArgIs
  <2>4. engine'.timeout = 0
    BY <2>1, TimeCases DEF CmdEvent, Tick
  <2>5. doing'[1] = Packet /\ Packet.cmd = Code.WRITE32 /\ Packet.seq = parser.seq
    BY <2>1, <2>2 DEF Packet, BeginsWrite
  <2>6. engine'.aw = <<Packet.payload[1].n>> /\ engine'.w = <<Packet.payload[2].n>>
    BY <2>1, <2>3 DEF BeginsWrite
  <2>7. skid'.aw = <<>> /\ skid'.w = <<>> /\ bridge'.state = "IDLE"
    BY <1>1, <2>4
  <2>. HIDE DEF Packet
  <2>. QED  BY <2>1, <2>2, <2>5, <2>6, <2>7 DEF WriteInv, Optional, ByteOf
<1>3. CASE Working /\ Waits /\ engine'.st = engine.st /\ engine'.seq = engine.seq /\ doing' = doing
  <2>1. /\ WriteInv /\ doing = <<doing[1]>> /\ doing[1].seq = engine.seq /\ Access
    BY <1>3 DEF WorkInv, Access
  <2>2. /\ doing[1].cmd = Code.WRITE32
        /\ engine.aw # <<>> => engine.aw = <<ByteOf(1)>>
        /\ engine.w # <<>>  => engine.w = <<ByteOf(2)>>
        /\ skid.aw # <<>> => skid.aw = <<ByteOf(1)>>
        /\ skid.w # <<>>  => skid.w = <<ByteOf(2)>>
    BY <2>1 DEF WriteInv, Optional
  <2>3. engine'.aw = <<>> /\ engine'.w = <<>>
    BY <1>3, OffersTaken DEF Waits, InTime
  <2>4. /\ skid'.aw \in {engine.aw, skid.aw} /\ skid'.w \in {engine.w, skid.w}
        /\ bridge'.state = "WAIT_REG" => /\ skid.aw # <<>> /\ bridge'.req = skid.aw
                                         /\ skid.w # <<>> /\ bridge'.w = skid.w
    BY <1>3, <2>1, PortKeeps
  <2>5. /\ skid'.aw # <<>> => skid'.aw = <<ByteOf(1)>>
        /\ skid'.w # <<>>  => skid'.w = <<ByteOf(2)>>
        /\ bridge'.state = "WAIT_REG" => bridge'.req = <<ByteOf(1)>> /\ bridge'.w = <<ByteOf(2)>>
    BY <2>2, <2>4
  <2>6. \A k : ByteOf(k)' = ByteOf(k)
    BY <1>3 DEF ByteOf
  <2>. QED  BY <1>3, <2>1, <2>2, <2>3, <2>5, <2>6 DEF WriteInv, Optional
<1>. QED  BY <1>2, <1>3, WorkGoesOn

LEMMA ReadStep ==
  ASSUME TypeInv, LimitIsAmple, InTime, Tick, WorkInv, ParserInv, PacketInv,
         BusInv', Working', engine'.st = "AXI_READ"
  PROVE  ReadInv' /\ doing' = <<doing'[1]>> /\ doing'[1].seq = engine'.seq
<1>1. /\ engine'.ar # <<>> <=> Age' = 0
      /\ skid'.ar # <<>> <=> Age' = 1
      /\ bridge'.state = IF Age' = 2 THEN "WAIT_REG" ELSE IF Age' = 3 THEN "RESP" ELSE "IDLE"
      /\ bridge'.r # <<>> <=> Age' = 3
      /\ Age' = engine'.timeout
  BY DEF BusInv, OffersAt, PortAt, Age, Access
<1>2. CASE Command
  <2>1. /\ CmdEvent /\ Whole /\ engine'.seq = parser.seq /\ BeginsRead
    BY <1>2, BeginsAsGiven DEF BeginsWrite, BeginsLoad
  <2>2. doing' = <<Packet>>
    BY <2>1, ExecutedPacket DEF Tick
  <2>3. Arg(1) = Packet.payload[1]
    <3>1. 1 \in 1..parser.len
      BY <2>1 DEF BeginsRead, AddrLen
    <3>. QED  BY <2>1, <3>1, ArgIs
  <2>4. engine'.timeout = 0
    BY <2>1, TimeCases DEF CmdEvent, Tick
  <2>5. doing'[1] = Packet /\ Packet.cmd = Code.READ32 /\ Packet.seq = parser.seq
    BY <2>1, <2>2 DEF Packet, BeginsRead
  <2>6. engine'.ar = <<Packet.payload[1].n>>
    BY <2>1, <2>3 DEF BeginsRead
  <2>7. skid'.ar = <<>> /\ bridge'.state = "IDLE" /\ bridge'.r = <<>>
    BY <1>1, <2>4
  <2>. HIDE DEF Packet
  <2>. QED  BY <2>1, <2>2, <2>5, <2>6, <2>7 DEF ReadInv, Optional, ByteOf
<1>3. CASE Working /\ Waits /\ engine'.st = engine.st /\ engine'.seq = engine.seq /\ doing' = doing
  <2>1. /\ ReadInv /\ doing = <<doing[1]>> /\ doing[1].seq = engine.seq /\ Access
    BY <1>3 DEF WorkInv, Access
  <2>2. /\ doing[1].cmd = Code.READ32
        /\ engine.ar # <<>> => engine.ar = <<ByteOf(1)>>
        /\ skid.ar # <<>> => skid.ar = <<ByteOf(1)>>
        /\ bridge.state = "WAIT_REG" => bridge.req = <<ByteOf(1)>>
    BY <2>1 DEF ReadInv, Optional
  <2>3. engine'.ar = <<>> /\ bridge.r = <<>>
    BY <1>3, OffersTaken DEF Waits, InTime
  <2>4. /\ skid'.ar \in {engine.ar, skid.ar}
        /\ bridge'.state = "WAIT_REG" => skid.ar # <<>> /\ bridge'.req = skid.ar
        /\ bridge'.r # <<>> => bridge.state = "WAIT_REG" /\ bridge'.r = <<regs[bridge.req[1]]>>
        /\ regs' = regs
    BY <1>3, <2>1, <2>3, PortKeeps
  <2>5. /\ skid'.ar # <<>> => skid'.ar = <<ByteOf(1)>>
        /\ bridge'.state = "WAIT_REG" => bridge'.req = <<ByteOf(1)>>
        /\ bridge'.r # <<>> => bridge'.r = <<regs'[ByteOf(1)]>>
    BY <2>2, <2>4
  <2>6. \A k : ByteOf(k)' = ByteOf(k)
    BY <1>3 DEF ByteOf
  <2>. QED  BY <1>3, <2>1, <2>2, <2>3, <2>5, <2>6 DEF ReadInv, Optional
<1>. QED  BY <1>2, <1>3, WorkGoesOn

(* A step of the chunk writer while the engine waits for it.                *)
LEMMA ChunkGoesOn ==
  ASSUME TypeInv, LimitIsAmple, InTime, Tick, WorkInv, engine.st = "ROM_WAIT", ~ writer.done
  PROVE  /\ writer.st # "WRITE" => rom' = rom /\ writer'.seq = writer.seq
         /\ \/ /\ engine.chunk /\ writer.st = "IDLE" /\ writer'.payload = doing[1].payload
               /\ ~ writer'.done
               /\ \/ writer'.st = "RESP" /\ (writer'.badSeq \/ writer'.badCrc)
                  \/ /\ writer'.st = "CRC" /\ ~ writer'.badSeq /\ ~ writer'.badCrc
                     /\ writer'.seq = doing[1].seq /\ ChunkLen(doing[1].payload) > 0
            \/ /\ ~ engine.chunk /\ writer.st = "CRC" /\ writer'.payload = writer.payload
               /\ ~ writer'.done /\ writer'.badSeq = writer.badSeq
               /\ \/ writer'.st = "CRC" /\ writer'.badCrc = writer.badCrc
                  \/ writer'.st = "WRITE" /\ writer'.index = 0 /\ writer'.badCrc = writer.badCrc
                  \/ writer'.st = "RESP" /\ writer'.badCrc
            \/ /\ ~ engine.chunk /\ writer.st = "WRITE" /\ writer'.payload = writer.payload
               /\ ~ writer'.done /\ writer'.badSeq = writer.badSeq /\ writer'.badCrc = writer.badCrc
               /\ rom' = [rom EXCEPT ![(ChunkOffset(writer.payload) + writer.index) % RomSize] =
                            ChunkByte(writer.payload, writer.index + 1)]
               /\ \/ /\ ~ LastByte /\ writer'.st = "WRITE"
                     /\ writer'.index = writer.index + 1 /\ writer'.seq = writer.seq
                  \/ /\ LastByte /\ writer'.st = "RESP" /\ writer'.seq = (writer.seq + 1) % SeqSpace
            \/ /\ ~ engine.chunk /\ writer.st = "RESP" /\ writer'.payload = writer.payload
               /\ writer'.done /\ writer'.st = "IDLE"
               /\ writer'.badSeq = writer.badSeq /\ writer'.badCrc = writer.badCrc
<1>1. writer \in WriterState /\ Chunk /\ parser.payload \in Seq(Bytes)
  BY DEF TypeInv, DapTypeOK, Tick, ParserState
<1>2. /\ engine.chunk => writer.st = "IDLE"
      /\ ~ engine.chunk => (writer.done <=> writer.st = "IDLE")
      /\ engine.chunk => parser.seq = doing[1].seq /\ parser.payload = doing[1].payload
  BY DEF InTime, RomInv, WorkInv, Working, LoadInv
<1>3. CASE engine.chunk
  <2>. DEFINE payload == parser.payload
              length == ChunkLen(payload)
              badSeq == parser.seq # writer.seq
              badLen == length = 0 \/ length > MaxChunk
              badCrc == ~ badSeq /\ badLen
              st     == IF badSeq \/ badLen THEN "RESP" ELSE "CRC"
  <2>1. /\ writer.st = "IDLE" /\ rom' = rom
        /\ writer' = [writer EXCEPT !.done = FALSE, !.index = 0, !.payload = payload,
                        !.badSeq = badSeq, !.badCrc = badCrc, !.st = st]
    BY <1>1, <1>2, <1>3 DEF Chunk
  <2>2. length \in Nat
    BY <1>1, ChunkLenType
  <2>3. \/ st = "RESP" /\ (badSeq \/ badCrc)
        \/ st = "CRC" /\ ~ badSeq /\ ~ badCrc /\ length > 0
    BY <2>2
  <2>4. badSeq \in BOOLEAN /\ badCrc \in BOOLEAN
    OBVIOUS
  <2>5. ~ badSeq => writer.seq = parser.seq
    OBVIOUS
  <2>. HIDE DEF payload, length, badSeq, badCrc, st
  <2>6. /\ writer'.done = FALSE /\ writer'.payload = payload /\ writer'.badSeq = badSeq
        /\ writer'.badCrc = badCrc /\ writer'.st = st /\ writer'.seq = writer.seq
    BY <1>1, <2>1 DEF WriterState
  <2>7. payload = doing[1].payload /\ length = ChunkLen(doing[1].payload) /\ parser.seq = doing[1].seq
    BY <1>2, <1>3 DEF payload, length
  <2>. QED  BY <1>3, <2>1, <2>3, <2>4, <2>5, <2>6, <2>7
<1>4. CASE ~ engine.chunk /\ writer.st = "CRC"
  <2>. DEFINE next == writer.index + 1
  <2>1. /\ rom' = rom
        /\ \/ writer' = [writer EXCEPT !.index = next]
           \/ writer' = [writer EXCEPT !.index = 0, !.st = "WRITE"]
           \/ writer' = [writer EXCEPT !.index = 0, !.badCrc = TRUE, !.st = "RESP"]
    BY <1>1, <1>4 DEF Chunk
  <2>. HIDE DEF next
  <2>2. /\ writer'.payload = writer.payload /\ writer'.done = writer.done
        /\ writer'.badSeq = writer.badSeq /\ writer'.seq = writer.seq
        /\ \/ writer'.st = "CRC" /\ writer'.badCrc = writer.badCrc
           \/ writer'.st = "WRITE" /\ writer'.index = 0 /\ writer'.badCrc = writer.badCrc
           \/ writer'.st = "RESP" /\ writer'.badCrc
    BY <1>1, <1>4, <2>1 DEF WriterState
  <2>. QED  BY <1>4, <2>1, <2>2
<1>5. CASE ~ engine.chunk /\ writer.st = "WRITE"
  <2>. DEFINE seq  == (writer.seq + 1) % SeqSpace
              next == writer.index + 1
  <2>1. /\ rom' = [rom EXCEPT ![(ChunkOffset(writer.payload) + writer.index) % RomSize] =
                     ChunkByte(writer.payload, writer.index + 1)]
        /\ \/ LastByte /\ writer' = [writer EXCEPT !.seq = seq, !.st = "RESP"]
           \/ ~ LastByte /\ writer' = [writer EXCEPT !.index = next]
    BY <1>1, <1>5 DEF Chunk
  <2>. HIDE DEF next, seq
  <2>2. /\ writer'.payload = writer.payload /\ writer'.done = writer.done
        /\ writer'.badSeq = writer.badSeq /\ writer'.badCrc = writer.badCrc
        /\ \/ /\ ~ LastByte /\ writer'.st = "WRITE"
              /\ writer'.index = next /\ writer'.seq = writer.seq
           \/ LastByte /\ writer'.st = "RESP" /\ writer'.seq = seq
    BY <1>1, <1>5, <2>1 DEF WriterState
  <2>. QED  BY <1>5, <2>1, <2>2 DEF next, seq
<1>6. CASE ~ engine.chunk /\ writer.st = "RESP"
  <2>1. rom' = rom /\ writer' = [writer EXCEPT !.done = TRUE, !.st = "IDLE"]
    BY <1>1, <1>6 DEF Chunk
  <2>2. /\ writer'.payload = writer.payload /\ writer'.done /\ writer'.st = "IDLE"
        /\ writer'.seq = writer.seq
        /\ writer'.badSeq = writer.badSeq /\ writer'.badCrc = writer.badCrc
    BY <1>1, <2>1 DEF WriterState
  <2>. QED  BY <1>6, <2>1, <2>2
<1>. QED  BY <1>1, <1>2, <1>3, <1>4, <1>5, <1>6 DEF WriterState

LEMMA LoadStep ==
  ASSUME ScriptsFit, TypeInv, LimitIsAmple, InTime, Tick, WorkInv, ParserInv, PacketInv,
         Working', engine'.st = "ROM_WAIT"
  PROVE  LoadInv' /\ doing' = <<doing'[1]>> /\ doing'[1].seq = engine'.seq
<1>1. CASE Command
  <2>1. /\ CmdEvent /\ Whole /\ engine'.seq = parser.seq /\ BeginsLoad
    BY <1>1, BeginsAsGiven DEF BeginsRead, BeginsWrite
  <2>2. doing' = <<Packet>>
    BY <2>1, ExecutedPacket DEF Tick
  <2>3. parser' = [parser EXCEPT !.st = "SOF", !.crc = <<>>, !.error = "OK"]
    BY <2>1 DEF Tick, Parse
  <2>4. parser'.seq = parser.seq /\ parser'.payload = parser.payload
    BY <2>3 DEF TypeInv, DapTypeOK, ParserState
  <2>5. /\ doing'[1].cmd = Code.ROM_WRITE /\ doing'[1].seq = parser.seq
        /\ doing'[1].payload = parser.payload /\ doing' = <<doing'[1]>>
    BY <2>1, <2>2 DEF Packet, BeginsLoad
  <2>6. doing'[1].payload \in Seq(Bytes) /\ LengthByte(doing'[1].payload) < LengthSpan
    <3>1. WellFormed(Packet) /\ Packet.cmd = Code.ROM_WRITE /\ Packet.payload = parser.payload
      BY <2>1, WholeFits DEF Packet, BeginsLoad
    <3>2. parser.payload \in Seq(Bytes)
      BY DEF TypeInv, DapTypeOK, ParserState
    <3>. QED  BY <2>5, <3>1, <3>2 DEF WellFormed
  <2>. QED  BY <2>1, <2>4, <2>5, <2>6 DEF LoadInv, BeginsLoad
<1>2. CASE Working /\ Waits /\ engine'.st = engine.st /\ engine'.seq = engine.seq /\ doing' = doing
  <2>1. /\ LoadInv /\ doing = <<doing[1]>> /\ doing[1].seq = engine.seq /\ engine.st = "ROM_WAIT"
        /\ ~ writer.done /\ ~ engine'.chunk
    BY <1>2, BaseFacts DEF WorkInv, Waits
  <2>2. /\ doing[1].cmd = Code.ROM_WRITE
        /\ doing[1].payload \in Seq(Bytes) /\ LengthByte(doing[1].payload) < LengthSpan
        /\ ~ engine.chunk => writer.payload = doing[1].payload
        /\ ~ engine.chunk /\ writer.st \in {"CRC", "WRITE"} =>
             ~ writer.badSeq /\ ~ writer.badCrc /\ writer.seq = doing[1].seq
        /\ ~ engine.chunk /\ ~ writer.badSeq /\ ~ writer.badCrc =>
             ChunkLen(writer.payload) > 0
    BY <2>1 DEF LoadInv
  <2>3. /\ writer'.payload = doing[1].payload
        /\ writer'.st \in {"CRC", "WRITE"} =>
             ~ writer'.badSeq /\ ~ writer'.badCrc /\ writer'.seq = doing[1].seq
        /\ ~ writer'.badSeq /\ ~ writer'.badCrc => ChunkLen(writer'.payload) > 0
    BY <2>1, <2>2, ChunkGoesOn
  <2>4. doing'[1] = doing[1]
    BY <1>2
  <2>. QED  BY <1>2, <2>1, <2>2, <2>3, <2>4 DEF LoadInv
<1>. QED  BY <1>1, <1>2, WorkGoesOn

LEMMA WorkStep ==
  ASSUME ScriptsFit, TypeInv, LimitIsAmple, InTime, Tick, WorkInv, ParserInv, PacketInv  PROVE WorkInv'
<1>1. BusInv'
  BY BusStep
<1>2. CASE engine'.st = "AXI_WRITE"
  BY <1>1, <1>2, WriteStep DEF WorkInv, Working
<1>3. CASE engine'.st = "AXI_READ"
  BY <1>1, <1>3, ReadStep DEF WorkInv, Working
<1>4. CASE engine'.st = "ROM_WAIT"
  BY <1>1, <1>4, LoadStep DEF WorkInv, Working
<1>. QED  BY <1>2, <1>3, <1>4 DEF WorkInv, Working

-----------------------------------------------------------------------------
(* The bridge keeps its promise.  What is under way, for the target.        *)
Under == IF engine.st \in {"AXI_WRITE", "AXI_READ", "ROM_WAIT"}
         THEN <<[p |-> doing[1], done |-> Progress]>> ELSE <<>>
LEMMA UnderIs ==
  /\ ~ Working => Under = <<>>
  /\ Working => /\ Under = <<[p |-> doing[1], done |-> Progress]>> /\ Under # <<>>
                /\ Under[1].p = doing[1] /\ Under[1].done = Progress
                /\ [Under EXCEPT ![1].done = @ + 1] = <<[p |-> doing[1], done |-> Progress + 1]>>
<1>1. ~ Working => Under = <<>>
  BY DEF Working, Under
<1>2. ASSUME Working
      PROVE  /\ Under = <<[p |-> doing[1], done |-> Progress]>> /\ Under # <<>>
             /\ Under[1].p = doing[1] /\ Under[1].done = Progress
             /\ [Under EXCEPT ![1].done = @ + 1] = <<[p |-> doing[1], done |-> Progress + 1]>>
  <2>. DEFINE x == doing[1]
              r == [p |-> x, done |-> Progress]
  <2>1. Under = <<r>>
    BY <1>2 DEF Working, Under
  <2>2. r.p = x /\ r.done = Progress /\ [r EXCEPT !.done = Progress + 1] = [p |-> x, done |-> Progress + 1]
    OBVIOUS
  <2>3. <<r>>[1] = r /\ <<r>> # <<>>
    OBVIOUS
  <2>4. [<<r>> EXCEPT ![1].done = @ + 1] = <<[r EXCEPT !.done = Progress + 1]>>
    <3>. DEFINE s == [r EXCEPT !.done = r.done + 1]
    <3>1. [<<r>> EXCEPT ![1] = s] = <<s>>
      OBVIOUS
    <3>. QED  BY <2>2, <2>3, <3>1
  <2>. HIDE DEF r, x
  <2>. QED  BY <2>1, <2>2, <2>3, <2>4 DEF r, x
<1>. QED  BY <1>1, <1>2
LEMMA UnderIsNext ==
  /\ ~ Working' => Under' = <<>>
  /\ Working' => Under' = <<[p |-> doing'[1], done |-> Progress']>>
<1>1. (/\ ~ Working => Under = <<>>
       /\ Working => Under = <<[p |-> doing[1], done |-> Progress]>>)'
  BY UnderIs, PTL
<1>. QED  BY <1>1

(* The steps of the target, in terms of the bridge.                         *)
SameData == regs' = regs /\ rom' = rom /\ writer'.seq = writer.seq
Gives(seq, status, payload) == begun' = Append(begun, Answer(seq, status, payload))

LEMMA Stutters ==
  ASSUME SameLock, SameData, todo' = todo, begun' = begun, Under' = Under
  PROVE  UNCHANGED Promise!still
BY DEF Promise!still, Promise!lock, Promise!data, Under, SameLock, SameData

LEMMA GarbageIs ==
  ASSUME ~ Working, ~ Working', SameLock, SameData, todo' = todo, begun' # <<>>,
         begun'[Len(begun')].status \in Promise!Refusals,
         Gives(begun'[Len(begun')].seq, begun'[Len(begun')].status, <<>>)
  PROVE  Promise!Garbage
BY DEF Promise!Garbage, Promise!lock, Promise!data, SameLock, SameData, Gives, Working,
   Promise!Reply, Promise!Answer, Answer

LEMMA RefuseIs ==
  ASSUME ~ Working, ~ Working', SameData, NEW p, Promise!Take(p), NEW status \in Promise!Refusals,
         Gives(p.seq, status, <<>>), engine'.unlocked \in {engine.unlocked, FALSE},
         engine'.hold = engine.hold
  PROVE  Promise!Refuse(p)
BY DEF Promise!Refuse, Promise!data, SameData, Gives, Working, Promise!Reply, Promise!Answer, Answer

LEMMA LocalIs ==
  ASSUME ~ Working, ~ Working', SameData, NEW p, Promise!Take(p),
         \/ p.cmd = Code.PING /\ Gives(p.seq, "OK", <<>>) /\ SameLock
         \/ p.cmd = Code.ID /\ Gives(p.seq, "OK", Identity) /\ SameLock
         \/ /\ p.cmd = Code.GET_STATUS /\ SameLock
            /\ Gives(p.seq, "OK", <<IF engine.unlocked THEN 0 ELSE 1, writer.seq>>)
         \/ /\ p.cmd = Code.UNLOCK /\ p.payload = <<Key>> /\ Gives(p.seq, "OK", <<>>)
            /\ engine'.unlocked /\ engine'.hold = engine.hold
         \/ /\ p.cmd = Code.LOCK /\ Gives(p.seq, "OK", <<>>)
            /\ ~ engine'.unlocked /\ ~ engine'.hold
  PROVE  Promise!Local(p)
BY DEF Promise!Local, Promise!data, Promise!lock, SameData, SameLock, Gives, Working, Promise!Ok,
   Promise!Reply, Promise!Answer, Answer, Promise!Code, Code, Promise!Identity, Identity,
   Promise!Key, Key, Promise!Plain, Plain

LEMMA HoldIs ==
  ASSUME ~ Working, ~ Working', SameData, NEW p, Promise!Take(p), p.cmd = Code.HOLD_CORE,
         engine.unlocked, engine'.unlocked = engine.unlocked, Gives(p.seq, "OK", <<>>),
         engine'.hold = (Switch(p.payload) = 1), engine'.release = (Switch(p.payload) = 0)
  PROVE  Promise!Hold(p)
<1>1. Promise!Switch(p.payload) = Switch(p.payload)
  BY DEF Promise!Switch, Switch, Promise!Byte, Byte, Promise!Plain, Plain
<1>2. Promise!Ok(p, <<>>)
  BY DEF Gives, Promise!Ok, Promise!Reply, Promise!Answer, Answer
<1>. QED
  BY <1>1, <1>2 DEF Promise!Hold, Promise!data, SameData, Working, Promise!Code, Code

LEMMA BeginIs ==
  ASSUME ~ Working, NEW p, Promise!Take(p), Under' = <<[p |-> p, done |-> 0]>>,
         SameLock, SameData, begun' = begun,
         p.cmd = Code.READ32 \/ (p.cmd \in {Code.WRITE32, Code.ROM_WRITE} /\ engine.unlocked)
  PROVE  Promise!Begin(p)
<1>1. Under = <<>>
  BY UnderIs
<1>2. UNCHANGED <<Promise!lock, Promise!data, begun>>
  BY DEF Promise!lock, Promise!data, SameData, SameLock
<1>3. Promise!Code = Code
  BY Zenon DEF Promise!Code, Code
<1>. HIDE DEF Under
<1>. QED  BY <1>1, <1>2, <1>3 DEF Promise!Begin, Promise!data, Promise!lock, Under

LEMMA WriteRegisterIs ==
  ASSUME Working, doing[1].cmd = Code.WRITE32, Progress = 0,
         Under' = <<[p |-> doing[1], done |-> Progress + 1]>>,
         regs' = [regs EXCEPT ![ByteOf(1)] = [val |-> ByteOf(2), odd |-> ~ regs[ByteOf(1)].odd]],
         todo' = todo, SameLock, rom' = rom, writer'.seq = writer.seq, begun' = begun
  PROVE  Promise!WriteRegister
<1>1. /\ Under # <<>> /\ Under[1].p = doing[1] /\ Under[1].done = 0
      /\ Under' = [Under EXCEPT ![1].done = @ + 1]
  BY UnderIs
<1>2. regs' = [regs EXCEPT ![Under[1].p.payload[1].n] =
                 [val |-> Under[1].p.payload[2].n, odd |-> ~ @.odd]]
  BY <1>1 DEF ByteOf
<1>. QED
  BY <1>1, <1>2 DEF Promise!WriteRegister, Promise!Doing, Promise!Advance, Promise!lock, SameLock,
     Under, Promise!Code, Code

LEMMA WriteByteIs ==
  ASSUME Working, doing[1].cmd = Code.ROM_WRITE, Progress < LengthByte(doing[1].payload),
         Under' = <<[p |-> doing[1], done |-> Progress + 1]>>, doing[1].seq = writer.seq,
         rom' = [rom EXCEPT ![(ChunkOffset(doing[1].payload) + Progress) % RomSize] =
                   ChunkByte(doing[1].payload, Progress + 1)],
         writer'.seq = IF Progress + 1 = LengthByte(doing[1].payload)
                       THEN (writer.seq + 1) % SeqSpace ELSE writer.seq,
         todo' = todo, SameLock, regs' = regs, begun' = begun
  PROVE  Promise!WriteByte
<1>1. /\ Under # <<>> /\ Under[1].p = doing[1] /\ Under[1].done = Progress
      /\ Under' = [Under EXCEPT ![1].done = @ + 1]
  BY UnderIs
<1>2. /\ Under[1].p.cmd = Code.ROM_WRITE /\ Under[1].done < LengthByte(Under[1].p.payload)
      /\ Under[1].p.seq = writer.seq
      /\ rom' = [rom EXCEPT ![(ChunkOffset(Under[1].p.payload) + Under[1].done) % RomSize] =
                   ChunkByte(Under[1].p.payload, Under[1].done + 1)]
      /\ writer'.seq = IF Under[1].done + 1 = LengthByte(Under[1].p.payload)
                       THEN (writer.seq + 1) % SeqSpace ELSE writer.seq
  BY <1>1
<1>. HIDE DEF Under
<1>. QED
  BY <1>1, <1>2 DEF Promise!WriteByte, Promise!Doing, Promise!Advance, Promise!lock, SameLock,
     Under, Promise!Code, Code, Promise!LengthByte, LengthByte, Promise!ChunkOffset, ChunkOffset,
     Promise!ChunkByte, ChunkByte, Promise!Byte, Byte, Promise!ChunkHead, ChunkHead,
     Promise!Plain, Plain

LEMMA FinishIs ==
  ASSUME Working, ~ Working', SameLock, SameData, todo' = todo,
         LET p == doing[1] IN
         \/ p.cmd = Code.READ32 /\ Gives(p.seq, "OK", <<regs[p.payload[1].n].val>>)
         \/ p.cmd = Code.WRITE32 /\ Progress = 1 /\ Gives(p.seq, "OK", <<>>)
         \/ /\ p.cmd = Code.ROM_WRITE /\ Progress > 0 /\ Progress = LengthByte(p.payload)
            /\ Gives(p.seq, "OK", <<>>)
         \/ /\ p.cmd = Code.ROM_WRITE /\ Progress = 0
            /\ Gives(p.seq, "BAD_SEQ", <<writer.seq>>) \/ Gives(p.seq, "ROM_CRC", <<>>)
  PROVE  Promise!Finish
<1>1. Under # <<>> /\ Under[1].p = doing[1] /\ Under[1].done = Progress /\ Under' = <<>>
  BY UnderIs, UnderIsNext
<1>2. LET p == Under[1].p
          done == Under[1].done
      IN \/ p.cmd = Code.READ32 /\ Gives(p.seq, "OK", <<regs[p.payload[1].n].val>>)
         \/ p.cmd = Code.WRITE32 /\ done = 1 /\ Gives(p.seq, "OK", <<>>)
         \/ /\ p.cmd = Code.ROM_WRITE /\ done > 0 /\ done = LengthByte(p.payload)
            /\ Gives(p.seq, "OK", <<>>)
         \/ /\ p.cmd = Code.ROM_WRITE /\ done = 0
            /\ Gives(p.seq, "BAD_SEQ", <<writer.seq>>) \/ Gives(p.seq, "ROM_CRC", <<>>)
  BY <1>1
<1>. HIDE DEF Under
<1>. QED
  BY <1>1, <1>2 DEF Promise!Finish, Promise!Ok, Promise!Reply, Promise!lock, Promise!data,
     SameLock, SameData, Gives, Under, Promise!Code, Code, Promise!LengthByte, LengthByte,
     Promise!Byte, Byte, Promise!Plain, Plain, Promise!Answer, Answer

(* Registers change in an access only, memory while the chunk is written.   *)
LEMMA DataKept ==
  ASSUME TypeInv, InTime, Tick
  PROVE  /\ ~ Access => regs' = regs
         /\ writer.st # "WRITE" => rom' = rom /\ writer'.seq = writer.seq
<1>1. Port /\ Chunk /\ writer \in WriterState
  BY DEF Tick, TypeInv, DapTypeOK
<1>2. ASSUME ~ Access  PROVE regs' = regs
  <2>1. bridge.state = "IDLE"
    BY <1>2 DEF InTime, BusInv, Age, PortAt
  <2>. QED
    BY <1>1, <2>1 DEF Port, Axi!Join, Axi!TakeRead, Axi!Collect, Axi!PerformWrite,
       Axi!PerformRead, Axi!Close, Axi!Hold
<1>3. ASSUME writer.st # "WRITE"  PROVE rom' = rom /\ writer'.seq = writer.seq
  <2>1. rom' = rom
    BY <1>1, <1>3 DEF Chunk
  <2>2. CASE writer.st = "IDLE" /\ engine.chunk
    <3>. DEFINE payload == parser.payload
                length == ChunkLen(payload)
                badSeq == parser.seq # writer.seq
                badLen == length = 0 \/ length > MaxChunk
                badCrc == ~ badSeq /\ badLen
                st     == IF badSeq \/ badLen THEN "RESP" ELSE "CRC"
    <3>1. writer' = [writer EXCEPT !.done = FALSE, !.index = 0, !.payload = payload,
                        !.badSeq = badSeq, !.badCrc = badCrc, !.st = st]
      BY <1>1, <2>2 DEF Chunk
    <3>. HIDE DEF payload, badSeq, badCrc, st
    <3>. QED  BY <1>1, <2>1, <3>1 DEF WriterState
  <2>3. CASE writer.st = "IDLE" /\ ~ engine.chunk
    <3>1. writer' = [writer EXCEPT !.done = FALSE, !.index = 0]
      BY <1>1, <2>3 DEF Chunk
    <3>. QED  BY <1>1, <2>1, <3>1 DEF WriterState
  <2>4. CASE writer.st = "CRC"
    <3>. DEFINE next == writer.index + 1
    <3>1. \/ writer' = [writer EXCEPT !.index = next]
          \/ writer' = [writer EXCEPT !.index = 0, !.st = "WRITE"]
          \/ writer' = [writer EXCEPT !.index = 0, !.badCrc = TRUE, !.st = "RESP"]
      BY <1>1, <2>4 DEF Chunk
    <3>. HIDE DEF next
    <3>. QED  BY <1>1, <2>1, <3>1 DEF WriterState
  <2>5. CASE writer.st = "RESP"
    <3>1. writer' = [writer EXCEPT !.done = TRUE, !.st = "IDLE"]
      BY <1>1, <2>5 DEF Chunk
    <3>. QED  BY <1>1, <2>1, <3>1 DEF WriterState
  <2>. QED  BY <1>1, <1>3, <2>2, <2>3, <2>4, <2>5 DEF WriterState
<1>. QED  BY <1>2, <1>3

(* A step of the engine when it has no command under way: it begins one, or *)
(* answers, or waits for the next.                                          *)
LEMMA BeginPromise ==
  ASSUME TypeInv, LimitIsAmple, InTime, Tick, ParserInv, PacketInv, Command, Working', BusInv'
  PROVE  \E k \in DOMAIN todo : Promise!Begin(todo[k])
<1>1. /\ engine.st = "IDLE" /\ ~ Working /\ SameData
  <2>1. engine.st = "IDLE"
    BY CommandCases
  <2>2. ~ Access /\ writer.st = "IDLE"
    BY <2>1 DEF Access, InTime, RomInv
  <2>. QED  BY <2>1, <2>2, DataKept DEF Working, SameData
<1>2. /\ CmdEvent /\ Whole /\ engine'.seq = parser.seq /\ NoResponse /\ SameLock
      /\ BeginsRead \/ BeginsWrite \/ BeginsLoad
  BY BeginsAsGiven
<1>3. PICK first \in DOMAIN todo : /\ todo[first] = Packet /\ doing' = <<Packet>>
                                   /\ todo' = SubSeq(todo, first + 1, Len(todo))
  BY <1>2, ExecutedPacket DEF Tick
<1>4. PICK p : p = todo[first]
  OBVIOUS
<1>5. /\ p.cmd = parser.cmd /\ doing'[1] = p
      /\ \E k \in DOMAIN todo : todo[k] = p /\ todo' = SubSeq(todo, k + 1, Len(todo))
  BY <1>3, <1>4 DEF Packet
<1>6. Progress' = 0
  <2>1. engine'.timeout = 0
    BY <1>1, TimeCases DEF Tick
  <2>2. engine'.st = "AXI_WRITE" => ~ bridge'.b
    BY <2>1 DEF BusInv, PortAt, Age, Access
  <2>. QED  BY <1>2, <2>2 DEF Progress, BeginsRead, BeginsWrite, BeginsLoad
<1>7. Under' = <<[p |-> p, done |-> 0]>>
  BY <1>5, <1>6, UnderIsNext
<1>8. p.cmd = Code.READ32 \/ (p.cmd \in {Code.WRITE32, Code.ROM_WRITE} /\ engine.unlocked)
  BY <1>2, <1>5 DEF BeginsRead, BeginsWrite, BeginsLoad
<1>9. Promise!Take(p) /\ begun' = begun
  BY <1>2, <1>5 DEF Promise!Take, NoResponse
<1>10. Promise!Begin(p)
  BY <1>1, <1>2, <1>7, <1>8, <1>9, BeginIs
<1>. QED  BY <1>4, <1>10

LEMMA AppendLast ==
  ASSUME NEW T, NEW answers \in Seq(T), NEW a, NEW longer, longer = Append(answers, a)
  PROVE  longer # <<>> /\ longer[Len(longer)] = a
<1>1. answers \in Seq(T \cup {a})
  <2>1. T \subseteq T \cup {a}
    OBVIOUS
  <2>. QED  BY <2>1, SeqMonotone
<1>2. /\ Append(answers, a) \in Seq(T \cup {a}) /\ Len(Append(answers, a)) = Len(answers) + 1
      /\ Append(answers, a)[Len(answers) + 1] = a /\ Len(answers) \in Nat
  BY <1>1, AppendProperties, LenProperties
<1>3. Append(answers, a) # <<>>
  BY <1>2, EmptySeq
<1>. QED  BY <1>2, <1>3

(* A packet not taken for one is answered, and changes nothing.             *)
LEMMA BadPromise ==
  ASSUME TypeInv, InTime, Tick, BadPacket, ~ Working, ~ Working', SameData
  PROVE  Promise!Garbage
<1>1. /\ CmdEvent /\ parser.error # "OK" /\ engine' = Answered
      /\ Respond(parser.seq, parser.error, <<>>)
  BY DEF BadPacket, Refused, Reply
<1>2. PICK a : a = Answer(parser.seq, parser.error, <<>>)
  OBVIOUS
<1>3. a.seq = parser.seq /\ a.status = parser.error /\ a.payload = <<>>
  BY <1>2 DEF Answer
<1>4. begun' # <<>> /\ begun'[Len(begun')] = a
  <2>1. begun' = Append(begun, a)
    BY <1>1, <1>2 DEF Respond
  <2>2. begun \in Seq(Begun)
    BY DEF TypeInv, DapTypeOK
  <2>. QED  BY <2>1, <2>2, AppendLast
<1>5. parser.error \in Promise!Refusals
  <2>1. parser.error \in Statuses
    BY DEF TypeInv, DapTypeOK, ParserState
  <2>. QED  BY <1>1, <2>1 DEF Statuses, Promise!Refusals
<1>6. Gives(parser.seq, parser.error, <<>>)
  BY <1>1 DEF Respond, Gives
<1>7. todo' = todo /\ SameLock
  <2>1. Executed
    BY DEF Tick
  <2>2. todo' = todo
    BY <1>1, <2>1 DEF Executed
  <2>. QED  BY <1>1, <2>2, AnsweredKeeps DEF SameLock
<1>8. /\ begun'[Len(begun')].status \in Promise!Refusals
      /\ Gives(begun'[Len(begun')].seq, begun'[Len(begun')].status, <<>>)
  BY <1>3, <1>4, <1>5, <1>6
<1>. QED  BY <1>4, <1>7, <1>8, GarbageIs

(* A whole packet that is answered at once.                                 *)
LEMMA RefusalPromise ==
  ASSUME TypeInv, ~ Working, ~ Working', SameData, NEW p, Promise!Take(p), p.seq = parser.seq,
         NEW status \in {"BAD_CMD", "LOCKED", "BAD_LEN"}, Refused(status)
  PROVE  Promise!Refuse(p)
<1>1. engine' = Answered /\ Gives(p.seq, status, <<>>)
  BY DEF Refused, Reply, Respond, Gives
<1>2. status \in Promise!Refusals
  BY DEF Promise!Refusals
<1>3. engine'.unlocked \in {engine.unlocked, FALSE} /\ engine'.hold = engine.hold
  BY <1>1, AnsweredKeeps
<1>. QED  BY <1>1, <1>2, <1>3, RefuseIs

LEMMA UnlockPromise ==
  ASSUME TypeInv, ParserInv, Whole, ~ Working, ~ Working', SameData, Unlock,
         NEW p, Promise!Take(p), p.seq = parser.seq, p.cmd = parser.cmd, p.payload = parser.payload
  PROVE  Promise!Refuse(p) \/ Promise!Local(p)
<1>. DEFINE right == parser.len = KeyLen /\ Arg(1) = Key
            status == IF right THEN "OK" ELSE "LOCKED"
<1>1. parser.cmd = Code.UNLOCK /\ Gives(parser.seq, status, <<>>)
      /\ engine' = [Answered EXCEPT !.unlocked = right]
  BY DEF Unlock, Given, Reply, Respond, Gives
<1>2. engine'.unlocked = right /\ engine'.hold = engine.hold
  <2>. HIDE DEF right
  <2>. QED  BY <1>1, AnsweredKeeps DEF EngineState
<1>3. CASE right
  <2>1. p.payload = <<Key>>
    <3>1. parser.payload \in Seq(Bytes) /\ Len(parser.payload) = 1 /\ Arg(1) = Key
      BY <1>3 DEF TypeInv, DapTypeOK, ParserState, ParserInv, KeyLen
    <3>2. parser.payload[1] = Key
      <4>1. 1 \in 1..parser.len
        BY <1>3 DEF KeyLen
      <4>2. Arg(1) = Packet.payload[1]
        BY <4>1, ArgIs
      <4>. QED  BY <3>1, <4>2 DEF Packet
    <3>. HIDE DEF Key
    <3>3. parser.payload = <<Key>>
      BY <3>1, <3>2
    <3>. QED  BY <3>3
  <2>2. status = "OK" /\ engine'.unlocked
    BY <1>2, <1>3
  <2>. HIDE DEF status, right
  <2>3. p.cmd = Code.UNLOCK /\ Gives(p.seq, "OK", <<>>)
    BY <1>1, <2>2
  <2>. HIDE DEF Key
  <2>. QED  BY <1>2, <2>1, <2>2, <2>3, LocalIs
<1>4. CASE ~ right
  <2>1. status = "LOCKED" /\ "LOCKED" \in Promise!Refusals
    BY <1>4 DEF Promise!Refusals
  <2>2. engine'.unlocked = FALSE
    BY <1>2, <1>4
  <2>. HIDE DEF status, right
  <2>3. Gives(p.seq, "LOCKED", <<>>)
    BY <1>1, <2>1
  <2>. QED  BY <1>2, <2>1, <2>2, <2>3, RefuseIs
<1>. QED  BY <1>3, <1>4

LEMMA HoldPromise ==
  ASSUME TypeInv, ParserInv, Whole, ~ Working, ~ Working', SameData, HoldCore,
         NEW p, Promise!Take(p), p.seq = parser.seq, p.cmd = parser.cmd, p.payload = parser.payload,
         WellFormed(p)
  PROVE  (Promise!Refuse(p) /\ ~ engine'.release) \/ Promise!Hold(p)
<1>. DEFINE one == (Arg(1).n % 2 = 1)
            let == ~ one
<1>1. \/ Refused("LOCKED") \/ Refused("BAD_LEN")
      \/ /\ engine.unlocked /\ parser.len = 1 /\ Reply("OK", <<>>)
         /\ engine' = [Answered EXCEPT !.hold = one, !.release = let]
  BY DEF HoldCore
<1>2. CASE /\ engine.unlocked /\ parser.len = 1 /\ Reply("OK", <<>>)
           /\ engine' = [Answered EXCEPT !.hold = one, !.release = let]
  <2>1. engine'.hold = one /\ engine'.release = let /\ engine'.unlocked = engine.unlocked
    <3>. HIDE DEF one, let
    <3>. QED  BY <1>2, AnsweredKeeps DEF EngineState
  <2>2. p.cmd = Code.HOLD_CORE /\ Gives(p.seq, "OK", <<>>)
    BY <1>2 DEF HoldCore, Given, Reply, Respond, Gives
  <2>3. Switch(p.payload) = Arg(1).n /\ Switch(p.payload) \in {0, 1}
    BY <2>2 DEF Switch, Arg, WellFormed
  <2>4. engine'.hold = (Switch(p.payload) = 1) /\ engine'.release = (Switch(p.payload) = 0)
    <3>1. \A n \in {0, 1} : (n % 2 = 1) = (n = 1) /\ (~ (n % 2 = 1)) = (n = 0)
      OBVIOUS
    <3>. QED  BY <2>1, <2>3, <3>1
  <2>. QED  BY <1>2, <2>1, <2>2, <2>4, HoldIs
<1>3. ASSUME Refused("LOCKED") \/ Refused("BAD_LEN")
      PROVE  Promise!Refuse(p) /\ ~ engine'.release
  <2>1. engine' = Answered
    BY <1>3 DEF Refused
  <2>. QED  BY <1>3, <2>1, RefusalPromise, AnsweredFacts
<1>. HIDE DEF one, let
<1>. QED  BY <1>1, <1>2, <1>3

LEMMA ReplyPromise ==
  ASSUME TypeInv, ~ Working, ~ Working', SameData, Ping \/ Ident \/ Status \/ Lock,
         NEW p, Promise!Take(p), p.seq = parser.seq, p.cmd = parser.cmd
  PROVE  Promise!Local(p)
<1>1. ASSUME engine' = Answered  PROVE SameLock
  BY <1>1, AnsweredKeeps DEF SameLock
<1>2. CASE Ping
  <2>1. p.cmd = Code.PING /\ Gives(p.seq, "OK", <<>>) /\ SameLock
    BY <1>1, <1>2 DEF Ping, Given, Reply, Respond, Gives
  <2>. QED  BY <2>1, LocalIs
<1>3. CASE Ident
  <2>1. p.cmd = Code.ID /\ Gives(p.seq, "OK", Identity) /\ SameLock
    BY <1>1, <1>3 DEF Ident, Given, Reply, Respond, Gives
  <2>. QED  BY <2>1, LocalIs
<1>4. CASE Status
  <2>1. /\ p.cmd = Code.GET_STATUS /\ SameLock
        /\ Gives(p.seq, "OK", <<IF engine.unlocked THEN 0 ELSE 1, writer.seq>>)
    BY <1>1, <1>4 DEF Status, Given, Reply, Respond, Gives
  <2>. QED  BY <2>1, LocalIs
<1>5. CASE Lock
  <2>1. p.cmd = Code.LOCK /\ Gives(p.seq, "OK", <<>>)
    BY <1>5 DEF Lock, Given, Reply, Respond, Gives
  <2>2. engine' = [Answered EXCEPT !.unlocked = FALSE, !.hold = FALSE]
    BY <1>5 DEF Lock
  <2>3. ~ engine'.unlocked /\ ~ engine'.hold
    BY <2>2, AnsweredKeeps DEF EngineState
  <2>. QED  BY <2>1, <2>3, LocalIs
<1>. QED  BY <1>2, <1>3, <1>4, <1>5

LEMMA CommandPromise ==
  ASSUME ScriptsFit, TypeInv, LimitIsAmple, InTime, Tick, ParserInv, PacketInv, Command, BusInv'
  PROVE  [Promise!Step]_(Promise!still) \/ \E k \in DOMAIN todo : Promise!Hold(todo[k])
<1>1. /\ engine.st = "IDLE" /\ ~ Working /\ SameData /\ writer.st = "IDLE"
  <2>1. engine.st = "IDLE"
    BY CommandCases
  <2>2. ~ Access /\ writer.st = "IDLE"
    BY <2>1 DEF Access, InTime, RomInv
  <2>. QED  BY <2>1, <2>2, DataKept DEF Working, SameData
<1>2. CASE Working'
  BY <1>2, BeginPromise DEF Promise!Step
<1>3. CASE NoCommand
  <2>1. engine' = [Base EXCEPT !.bready = FALSE, !.rready = FALSE] /\ NoResponse /\ ~ CmdEvent
    BY <1>3 DEF NoCommand
  <2>2. ~ Working' /\ SameLock
    BY <1>1, <2>1, AnsweredKeeps DEF Working, SameLock, EngineState
  <2>3. todo' = todo /\ begun' = begun
    BY <2>1 DEF Tick, Executed, NoResponse
  <2>4. Under' = Under
    BY <1>1, <2>2, UnderIs, UnderIsNext
  <2>. QED  BY <1>1, <2>2, <2>3, <2>4, Stutters
<1>4. CASE BadPacket /\ ~ Working'
  BY <1>1, <1>4, BadPromise DEF Promise!Step
<1>5. CASE ~ NoCommand /\ ~ BadPacket /\ ~ Working'
  <2>1. CmdEvent /\ Whole
    BY <1>5 DEF Command, Unknown, Ping, Ident, Status, Unlock, Lock, HoldCore, Read32, Write32,
       RomWrite, Given, Whole, CmdEvent
  <2>2. PICK first \in DOMAIN todo : /\ todo[first] = Packet /\ doing' = <<Packet>>
                                     /\ todo' = SubSeq(todo, first + 1, Len(todo))
    BY <2>1, ExecutedPacket DEF Tick
  <2>3. PICK p : p = todo[first]
    OBVIOUS
  <2>4. /\ p.seq = parser.seq /\ p.cmd = parser.cmd /\ p.payload = parser.payload
        /\ \E k \in DOMAIN todo : todo[k] = p /\ todo' = SubSeq(todo, k + 1, Len(todo))
    BY <2>2, <2>3 DEF Packet
  <2>5. WellFormed(p)
    BY <2>1, <2>2, <2>3, WholeFits
  <2>6. Promise!Take(p)
    BY <2>4 DEF Promise!Take
  <2>7. \/ Refused("BAD_CMD") \/ Refused("LOCKED") \/ Refused("BAD_LEN")
        \/ Unlock \/ HoldCore \/ Ping \/ Ident \/ Status \/ Lock
    <3>1. ~ (Read32 /\ engine' = [Started EXCEPT !.st = "AXI_READ", !.ar = <<Arg(1).n>>, !.rready = TRUE])
      <4>. DEFINE ar == <<Arg(1).n>>
      <4>1. ~ (engine' = [Started EXCEPT !.st = "AXI_READ", !.ar = ar, !.rready = TRUE])
        <5>. HIDE DEF ar
        <5>. QED  BY <1>5, AnsweredKeeps DEF Working, EngineState
      <4>. QED  BY <4>1
    <3>2. ~ (engine' = [Started EXCEPT !.st = "AXI_WRITE", !.aw = <<Arg(1).n>>,
                          !.w = <<Arg(2).n>>, !.bready = TRUE])
      <4>. DEFINE aw == <<Arg(1).n>>
                  w  == <<Arg(2).n>>
      <4>1. ~ (engine' = [Started EXCEPT !.st = "AXI_WRITE", !.aw = aw, !.w = w, !.bready = TRUE])
        <5>. HIDE DEF aw, w
        <5>. QED  BY <1>5, AnsweredKeeps DEF Working, EngineState
      <4>. QED  BY <4>1
    <3>3. ~ (engine' = [Started EXCEPT !.st = "ROM_WAIT", !.chunk = TRUE])
      BY <1>5, AnsweredKeeps DEF Working, EngineState
    <3>4. Read32 => Refused("BAD_LEN")
      BY <3>1 DEF Read32
    <3>5. Write32 => Refused("LOCKED") \/ Refused("BAD_LEN")
      BY <3>2 DEF Write32
    <3>6. RomWrite => Refused("LOCKED") \/ Refused("BAD_LEN")
      BY <1>1, <3>3 DEF RomWrite
    <3>7. Unknown => Refused("BAD_CMD")
      BY DEF Unknown
    <3>. QED  BY <1>5, <3>4, <3>5, <3>6, <3>7 DEF Command
  <2>8. Promise!Refuse(p) \/ Promise!Local(p) \/ Promise!Hold(p)
    <3>1. ASSUME Refused("BAD_CMD") \/ Refused("LOCKED") \/ Refused("BAD_LEN")
          PROVE  Promise!Refuse(p)
      BY <1>1, <1>5, <2>4, <2>6, <3>1, RefusalPromise
    <3>2. CASE Unlock
      BY <1>1, <1>5, <2>1, <2>4, <2>6, <3>2, UnlockPromise
    <3>3. CASE HoldCore
      BY <1>1, <1>5, <2>1, <2>4, <2>6, <2>5, <3>3, HoldPromise
    <3>4. CASE Ping \/ Ident \/ Status \/ Lock
      BY <1>1, <1>5, <2>4, <2>6, <3>4, ReplyPromise
    <3>. QED  BY <2>7, <3>1, <3>2, <3>3, <3>4
  <2>. QED  BY <2>3, <2>8 DEF Promise!Step
<1>. QED  BY <1>2, <1>3, <1>4, <1>5

(* A step of the engine with a command under way.                           *)
LEMMA WorkKeeps ==
  ASSUME TypeInv, Tick, Work
  PROVE  /\ SameLock /\ todo' = todo /\ doing' = doing /\ engine'.seq = engine.seq
         /\ engine' = Base \/ ~ Working'
         /\ engine' = Base => engine'.st = engine.st /\ ~ engine'.chunk
<1>1. /\ Finished.unlocked = engine.unlocked /\ Finished.hold = engine.hold
      /\ Finished.seq = engine.seq /\ Finished.st = "RESP" /\ Finished \in EngineState
  BY AnsweredKeeps DEF Finished, EngineState
<1>2. /\ Base.unlocked = engine.unlocked /\ Base.hold = engine.hold /\ Base.seq = engine.seq
      /\ Base.st = engine.st /\ Base \in EngineState /\ ~ Base.chunk
  BY AnsweredKeeps, BaseFacts
<1>3. ~ CmdEvent
  BY WorkCases DEF CmdEvent
<1>4. todo' = todo /\ doing' = doing
  BY <1>3 DEF Tick, Executed
<1>5. CASE BusWrite \/ BusRead \/ RomWait
  <2>1. \/ engine' = Base \/ engine' = Finished
        \/ engine' = [Finished EXCEPT !.bready = FALSE]
        \/ engine' = [Finished EXCEPT !.rready = FALSE]
    BY <1>5 DEF BusWrite, BusRead, RomWait
  <2>2. engine' # Base => /\ engine'.unlocked = engine.unlocked /\ engine'.hold = engine.hold
                          /\ engine'.seq = engine.seq /\ engine'.st = "RESP"
    BY <1>1, <2>1 DEF EngineState
  <2>. QED  BY <1>2, <1>4, <2>2 DEF SameLock, Working
<1>6. CASE Resp
  <2>. DEFINE st == IF ~ resp.active /\ ~ TxBusy THEN "IDLE" ELSE engine.st
  <2>1. engine' = [Base EXCEPT !.st = st] /\ engine.st \in {"RESP", "ERROR"}
    BY <1>2, <1>6 DEF Resp
  <2>2. st \in {"IDLE", "RESP", "ERROR"}
    BY <2>1
  <2>. HIDE DEF st
  <2>3. /\ engine'.unlocked = engine.unlocked /\ engine'.hold = engine.hold
        /\ engine'.seq = engine.seq /\ engine'.st = st
    BY <1>2, <2>1 DEF EngineState
  <2>. QED  BY <1>2, <1>4, <2>2, <2>3 DEF SameLock, Working
<1>. QED  BY <1>5, <1>6 DEF Work

LEMMA WritePromise ==
  ASSUME TypeInv, LimitIsAmple, InTime, Tick, WorkInv, BusWrite
  PROVE  [Promise!Step]_(Promise!still)
<1>1. /\ engine.st = "AXI_WRITE" /\ Working /\ Access /\ rom' = rom /\ writer'.seq = writer.seq
      /\ doing = <<doing[1]>> /\ doing[1].seq = engine.seq /\ WriteInv
  <2>1. engine.st = "AXI_WRITE"
    BY DEF BusWrite
  <2>2. writer.st = "IDLE"
    BY <2>1 DEF InTime, RomInv
  <2>. QED  BY <2>1, <2>2, DataKept DEF Working, Access, WorkInv
<1>2. SameLock /\ todo' = todo /\ doing' = doing
  BY WorkKeeps DEF Work
<1>3. /\ Progress = IF bridge.b THEN 1 ELSE 0
      /\ engine' = Base => Progress' = IF bridge'.b THEN 1 ELSE 0
  <2>1. engine' = Base => engine'.st = "AXI_WRITE"
    BY <1>1, BaseFacts
  <2>. QED  BY <1>1, <2>1 DEF Progress
<1>4. CASE ~ bridge.b /\ engine' = Base /\ NoResponse
  <2>1. Working' /\ Under' = <<[p |-> doing[1], done |-> Progress']>> /\ begun' = begun
    <3>1. Working'
      BY <1>1, <1>4, BaseFacts DEF Working
    <3>. QED  BY <1>2, <1>4, <3>1, UnderIsNext DEF NoResponse
  <2>2. CASE bridge'.b
    <3>1. /\ bridge.state = "WAIT_REG"
          /\ regs' = [regs EXCEPT ![bridge.req[1]] =
                        [val |-> bridge.w[1], odd |-> ~ regs[bridge.req[1]].odd]]
      BY <1>1, <1>4, <2>2, PortKeeps
    <3>2. bridge.req[1] = ByteOf(1) /\ bridge.w[1] = ByteOf(2)
      BY <1>1, <3>1 DEF WriteInv
    <3>3. regs' = [regs EXCEPT ![ByteOf(1)] = [val |-> ByteOf(2), odd |-> ~ regs[ByteOf(1)].odd]]
      BY <3>1, <3>2
    <3>4. Progress = 0 /\ Progress' = Progress + 1
      BY <1>3, <1>4, <2>2
    <3>5. Under' = <<[p |-> doing[1], done |-> Progress + 1]>>
      BY <2>1, <3>4
    <3>6. doing[1].cmd = Code.WRITE32
      BY <1>1 DEF WriteInv
    <3>7. Promise!WriteRegister
      BY <1>1, <1>2, <2>1, <3>3, <3>4, <3>5, <3>6, WriteRegisterIs
    <3>. QED  BY <3>7 DEF Promise!Step
  <2>3. CASE ~ bridge'.b
    <3>1. regs' = regs
      BY <1>1, <2>3, PortKeeps
    <3>2. Under' = Under
      BY <1>1, <1>3, <1>4, <2>1, <2>3, UnderIs
    <3>. QED  BY <1>1, <1>2, <2>1, <3>1, <3>2, Stutters DEF SameData
  <2>. QED  BY <2>2, <2>3
<1>5. CASE /\ bridge.b /\ engine' = [Finished EXCEPT !.bready = FALSE]
           /\ Respond(engine.seq, "OK", <<>>)
  <2>1. regs' = regs
    BY <1>1, <1>5, PortKeeps
  <2>2. ~ Working'
    <3>1. Finished.st = "RESP" /\ Finished \in EngineState
      BY AnsweredKeeps DEF Finished, EngineState
    <3>. QED  BY <1>5, <3>1 DEF Working, EngineState
  <2>3. doing[1].cmd = Code.WRITE32 /\ Progress = 1 /\ Gives(doing[1].seq, "OK", <<>>)
    BY <1>1, <1>3, <1>5 DEF WriteInv, Respond, Gives
  <2>4. Promise!Finish
    BY <1>1, <1>2, <2>1, <2>2, <2>3, FinishIs DEF SameData
  <2>. QED  BY <2>4 DEF Promise!Step
<1>. QED  BY <1>4, <1>5 DEF BusWrite

LEMMA ReadPromise ==
  ASSUME TypeInv, LimitIsAmple, InTime, Tick, WorkInv, BusRead
  PROVE  [Promise!Step]_(Promise!still)
<1>1. /\ engine.st = "AXI_READ" /\ Working /\ SameData /\ Progress = 0
      /\ doing = <<doing[1]>> /\ doing[1].seq = engine.seq /\ ReadInv
  <2>1. engine.st = "AXI_READ"
    BY DEF BusRead
  <2>2. writer.st = "IDLE" /\ Access
    BY <2>1 DEF InTime, RomInv, Access
  <2>3. regs' = regs
    BY <2>1, <2>2, PortKeeps
  <2>. QED  BY <2>1, <2>2, <2>3, DataKept DEF Working, WorkInv, SameData, Progress
<1>2. SameLock /\ todo' = todo /\ doing' = doing
  BY WorkKeeps DEF Work
<1>3. CASE bridge.r = <<>> /\ engine' = Base /\ NoResponse
  <2>1. Working' /\ Progress' = 0 /\ begun' = begun
    <3>1. engine'.st = "AXI_READ"
      BY <1>1, <1>3, BaseFacts
    <3>. QED  BY <1>3, <3>1 DEF Working, Progress, NoResponse
  <2>2. Under' = Under
    BY <1>1, <1>2, <2>1, UnderIs, UnderIsNext
  <2>. QED  BY <1>1, <1>2, <2>1, <2>2, Stutters
<1>4. CASE /\ bridge.r # <<>> /\ engine' = [Finished EXCEPT !.rready = FALSE]
           /\ Respond(engine.seq, "OK", <<bridge.r[1].val>>)
  <2>1. ~ Working'
    <3>1. Finished.st = "RESP" /\ Finished \in EngineState
      BY AnsweredKeeps DEF Finished, EngineState
    <3>. QED  BY <1>4, <3>1 DEF Working, EngineState
  <2>2. bridge.r[1] = regs[doing[1].payload[1].n]
    BY <1>1, <1>4 DEF ReadInv, Optional, ByteOf
  <2>3. /\ doing[1].cmd = Code.READ32
        /\ Gives(doing[1].seq, "OK", <<regs[doing[1].payload[1].n].val>>)
    BY <1>1, <1>4, <2>2 DEF ReadInv, Respond, Gives
  <2>4. Promise!Finish
    BY <1>1, <1>2, <2>1, <2>3, FinishIs
  <2>. QED  BY <2>4 DEF Promise!Step
<1>. QED  BY <1>3, <1>4 DEF BusRead

LEMMA LoadPromise ==
  ASSUME TypeInv, LimitIsAmple, InTime, Tick, WorkInv, RomWait
  PROVE  [Promise!Step]_(Promise!still)
<1>1. /\ engine.st = "ROM_WAIT" /\ Working /\ regs' = regs
      /\ doing = <<doing[1]>> /\ doing[1].seq = engine.seq /\ LoadInv
      /\ writer \in WriterState /\ ChunkLen(writer.payload) \in Nat
      /\ ChunkLen(doing[1].payload) = LengthByte(doing[1].payload)
  <2>1. engine.st = "ROM_WAIT" /\ writer \in WriterState
    BY DEF RomWait, TypeInv, DapTypeOK
  <2>2. ChunkLen(writer.payload) \in Nat
    BY <2>1, ChunkLenType DEF WriterState
  <2>3. Working /\ LoadInv
    BY <2>1 DEF Working, WorkInv
  <2>4. ChunkLen(doing[1].payload) = LengthByte(doing[1].payload)
    BY <2>3, ChunkLenType DEF LoadInv
  <2>. QED  BY <2>1, <2>2, <2>3, <2>4, DataKept DEF WorkInv, Access
<1>2. SameLock /\ todo' = todo /\ doing' = doing
  BY WorkKeeps DEF Work
<1>3. Progress = IF engine.chunk THEN 0
                 ELSE IF writer.st = "WRITE" THEN writer.index
                 ELSE IF (writer.st = "RESP" \/ writer.done) /\ ~ writer.badSeq /\ ~ writer.badCrc
                 THEN ChunkLen(writer.payload) ELSE 0
  BY <1>1 DEF Progress
<1>4. CASE ~ writer.done /\ engine' = Base /\ NoResponse
  <2>1. /\ Working' /\ Under' = <<[p |-> doing[1], done |-> Progress']>> /\ begun' = begun
        /\ Progress' = IF writer'.st = "WRITE" THEN writer'.index
                       ELSE IF (writer'.st = "RESP" \/ writer'.done)
                               /\ ~ writer'.badSeq /\ ~ writer'.badCrc
                       THEN ChunkLen(writer'.payload) ELSE 0
    <3>1. engine'.st = "ROM_WAIT" /\ ~ engine'.chunk
      BY <1>1, <1>4, BaseFacts
    <3>2. Working' /\ begun' = begun
      BY <1>4, <3>1 DEF Working, NoResponse
    <3>. QED  BY <1>2, <3>1, <3>2, UnderIsNext DEF Progress
  <2>2. ASSUME SameData, Progress' = Progress  PROVE [Promise!Step]_(Promise!still)
    <3>1. Under' = Under
      BY <1>1, <2>1, <2>2, UnderIs
    <3>. QED  BY <1>2, <2>1, <2>2, <3>1, Stutters
  <2>3. CASE /\ engine.chunk /\ writer.st = "IDLE" /\ ~ writer'.done
             /\ \/ writer'.st = "RESP" /\ (writer'.badSeq \/ writer'.badCrc)
                \/ writer'.st = "CRC"
    <3>1. Progress = 0 /\ Progress' = 0
      BY <1>3, <2>1, <2>3
    <3>. QED  BY <1>1, <2>2, <2>3, <3>1, DataKept DEF SameData
  <2>4. CASE /\ ~ engine.chunk /\ writer.st = "CRC" /\ ~ writer'.done
             /\ \/ writer'.st = "CRC"
                \/ writer'.st = "WRITE" /\ writer'.index = 0
                \/ writer'.st = "RESP" /\ writer'.badCrc
    <3>1. Progress = 0 /\ Progress' = 0
      BY <1>3, <1>4, <2>1, <2>4
    <3>. QED  BY <1>1, <2>2, <2>4, <3>1, DataKept DEF SameData
  <2>5. CASE /\ ~ engine.chunk /\ writer.st = "WRITE" /\ writer'.payload = writer.payload
             /\ ~ writer'.done /\ writer'.badSeq = writer.badSeq /\ writer'.badCrc = writer.badCrc
             /\ rom' = [rom EXCEPT ![(ChunkOffset(writer.payload) + writer.index) % RomSize] =
                          ChunkByte(writer.payload, writer.index + 1)]
             /\ \/ /\ ~ LastByte /\ writer'.st = "WRITE"
                   /\ writer'.index = writer.index + 1 /\ writer'.seq = writer.seq
                \/ /\ LastByte /\ writer'.st = "RESP"
                   /\ writer'.seq = (writer.seq + 1) % SeqSpace
    <3>1. /\ writer.payload = doing[1].payload /\ doing[1].seq = writer.seq
          /\ ~ writer.badSeq /\ ~ writer.badCrc /\ doing[1].cmd = Code.ROM_WRITE
      BY <1>1, <2>5 DEF LoadInv
    <3>2. writer.index \in Nat /\ writer.index < ChunkLen(writer.payload)
      BY <1>1, <2>5 DEF InTime, RomInv, WriterState
    <3>3. Progress = writer.index
      BY <1>3, <2>5
    <3>4. LastByte <=> writer.index + 1 = ChunkLen(writer.payload)
      BY <1>1, <3>2 DEF LastByte
    <3>5. Progress' = writer.index + 1
      BY <2>1, <2>5, <3>1, <3>4
    <3>6. /\ Progress < LengthByte(doing[1].payload)
          /\ Under' = <<[p |-> doing[1], done |-> Progress + 1]>>
          /\ rom' = [rom EXCEPT ![(ChunkOffset(doing[1].payload) + Progress) % RomSize] =
                       ChunkByte(doing[1].payload, Progress + 1)]
          /\ writer'.seq = IF Progress + 1 = LengthByte(doing[1].payload)
                           THEN (writer.seq + 1) % SeqSpace ELSE writer.seq
      BY <1>1, <2>1, <2>5, <3>1, <3>2, <3>3, <3>4, <3>5
    <3>7. Promise!WriteByte
      BY <1>1, <1>2, <2>1, <3>1, <3>6, WriteByteIs
    <3>. QED  BY <3>7 DEF Promise!Step
  <2>6. CASE /\ ~ engine.chunk /\ writer.st = "RESP" /\ writer'.payload = writer.payload
             /\ writer'.done /\ writer'.st = "IDLE"
             /\ writer'.badSeq = writer.badSeq /\ writer'.badCrc = writer.badCrc
    <3>1. Progress' = Progress
      BY <1>3, <2>1, <2>6
    <3>. QED  BY <1>1, <2>2, <2>6, <3>1, DataKept DEF SameData
  <2>. QED  BY <1>1, <1>4, <2>3, <2>4, <2>5, <2>6, ChunkGoesOn
<1>5. CASE writer.done /\ engine' = Finished
  <2>1. ~ engine.chunk /\ writer.st = "IDLE"
    BY <1>1, <1>5 DEF InTime, RomInv
  <2>2. SameData
    BY <1>1, <2>1, DataKept DEF SameData
  <2>3. ~ Working'
    <3>1. Finished.st = "RESP"
      BY AnsweredKeeps DEF Finished, EngineState
    <3>. QED  BY <1>5, <3>1 DEF Working
  <2>4. /\ doing[1].cmd = Code.ROM_WRITE /\ writer.payload = doing[1].payload
        /\ ~ writer.badSeq /\ ~ writer.badCrc => ChunkLen(writer.payload) > 0
    BY <1>1, <2>1 DEF LoadInv
  <2>5. CASE writer.badSeq
    <3>1. Progress = 0 /\ Gives(doing[1].seq, "BAD_SEQ", <<writer.seq>>)
      BY <1>1, <1>3, <1>5, <2>1, <2>5 DEF RomWait, Respond, Gives
    <3>2. Promise!Finish
      BY <1>1, <1>2, <2>2, <2>3, <2>4, <3>1, FinishIs
    <3>. QED  BY <3>2 DEF Promise!Step
  <2>6. CASE ~ writer.badSeq /\ writer.badCrc
    <3>1. Progress = 0 /\ Gives(doing[1].seq, "ROM_CRC", <<>>)
      BY <1>1, <1>3, <1>5, <2>1, <2>6 DEF RomWait, Respond, Gives
    <3>2. Promise!Finish
      BY <1>1, <1>2, <2>2, <2>3, <2>4, <3>1, FinishIs
    <3>. QED  BY <3>2 DEF Promise!Step
  <2>7. CASE ~ writer.badSeq /\ ~ writer.badCrc
    <3>1. /\ Progress > 0 /\ Progress = LengthByte(doing[1].payload)
          /\ Gives(doing[1].seq, "OK", <<>>)
      BY <1>1, <1>3, <1>5, <2>1, <2>4, <2>7 DEF RomWait, Respond, Gives
    <3>2. Promise!Finish
      BY <1>1, <1>2, <2>2, <2>3, <2>4, <3>1, FinishIs
    <3>. QED  BY <3>2 DEF Promise!Step
  <2>. QED  BY <2>5, <2>6, <2>7
<1>. QED  BY <1>4, <1>5 DEF RomWait

LEMMA WorkPromise ==
  ASSUME TypeInv, LimitIsAmple, InTime, Tick, WorkInv, Work
  PROVE  [Promise!Step]_(Promise!still)
<1>1. CASE Resp
  <2>1. engine.st \in {"RESP", "ERROR"} /\ ~ Working /\ begun' = begun
    BY <1>1 DEF Resp, Working, NoResponse
  <2>2. SameData
    <3>1. ~ Access /\ writer.st = "IDLE"
      BY <2>1 DEF Access, InTime, RomInv
    <3>. QED  BY <3>1, DataKept DEF SameData
  <2>3. ~ Working' /\ SameLock /\ todo' = todo
    <3>1. engine' = Base => ~ Working'
      BY <2>1, BaseFacts DEF Working
    <3>. QED  BY <3>1, WorkKeeps
  <2>4. Under' = Under
    BY <2>1, <2>3, UnderIs, UnderIsNext
  <2>. QED  BY <2>1, <2>2, <2>3, <2>4, Stutters
<1>. QED  BY <1>1, WritePromise, ReadPromise, LoadPromise DEF Work

(* The core is let go by HOLD_CORE only, for one cycle.                     *)
LEMMA HoldReleases ==
  ASSUME ScriptsFit, TypeInv, InTime, Tick, ParserInv, PacketInv, Command, engine'.release
  PROVE  \E k \in DOMAIN todo : Promise!Hold(todo[k])
<1>1. CmdEvent /\ HoldCore /\ Whole
  <2>1. CmdEvent /\ HoldCore
    BY HeldOrReleased DEF Tick
  <2>. QED  BY <2>1 DEF HoldCore, Given, Whole, CmdEvent
<1>2. ~ Working /\ SameData
  <2>1. engine.st = "IDLE"
    BY CommandCases
  <2>2. ~ Access /\ writer.st = "IDLE"
    BY <2>1 DEF Access, InTime, RomInv
  <2>. QED  BY <2>1, <2>2, DataKept DEF Working, SameData
<1>3. ~ Working'
  <2>. DEFINE one == (Arg(1).n % 2 = 1)
              let == ~ one
  <2>1. engine' = Answered \/ engine' = [Answered EXCEPT !.hold = one, !.release = let]
    BY <1>1 DEF HoldCore, Refused
  <2>. HIDE DEF one, let
  <2>. QED  BY <2>1, AnsweredKeeps DEF Working, EngineState
<1>4. PICK first \in DOMAIN todo : /\ todo[first] = Packet /\ doing' = <<Packet>>
                                   /\ todo' = SubSeq(todo, first + 1, Len(todo))
  BY <1>1, ExecutedPacket DEF Tick
<1>5. PICK p : p = todo[first]
  OBVIOUS
<1>6. /\ p.seq = parser.seq /\ p.cmd = parser.cmd /\ p.payload = parser.payload
      /\ \E k \in DOMAIN todo : todo[k] = p /\ todo' = SubSeq(todo, k + 1, Len(todo))
  BY <1>4, <1>5 DEF Packet
<1>7. WellFormed(p)
  BY <1>1, <1>4, <1>5, WholeFits
<1>8. Promise!Take(p)
  BY <1>6 DEF Promise!Take
<1>9. Promise!Hold(p)
  BY <1>1, <1>2, <1>3, <1>6, <1>7, <1>8, HoldPromise
<1>. QED  BY <1>5, <1>9

LEMMA PromiseStep ==
  ASSUME ScriptsFit, TypeInv, LimitIsAmple, InTime, Tick, WorkInv, ParserInv, PacketInv
  PROVE  [Promise!Do]_(Promise!targetVars)
<1>1. Command \/ Work
  <2>1. engine.timeout # TimeoutCycles
    BY BelowLimit, TimeTypes
  <2>. QED  BY <2>1 DEF Tick, Engine
<1>2. BusInv'
  BY BusStep
<1>3. CASE engine'.release
  <2>1. Command
    BY <1>3, HeldOrReleased DEF Tick, Command
  <2>2. \E k \in DOMAIN todo : Promise!Hold(todo[k])
    BY <1>3, <2>1, HoldReleases
  <2>. QED  BY <2>2 DEF Promise!Do
<1>4. CASE ~ engine'.release
  <2>1. [Promise!Step]_(Promise!still) \/ \E k \in DOMAIN todo : Promise!Hold(todo[k])
    BY <1>1, <1>2, CommandPromise, WorkPromise
  <2>. QED  BY <1>4, <2>1 DEF Promise!Do
<1>. QED  BY <1>3, <1>4

LEMMA PromiseStart == Init => WorkInv /\ Promise!Start
<1>. SUFFICES ASSUME Init PROVE WorkInv /\ Promise!Start
  OBVIOUS
<1>1. /\ engine.st = "IDLE" /\ engine.unlocked = FALSE /\ engine.hold = FALSE
      /\ engine.release = FALSE /\ begun = <<>> /\ writer.seq = 0
  BY DEF Init
<1>. QED  BY <1>1 DEF WorkInv, Working, Promise!Start

(* Whatever the host sends of packets that fit, and whatever is lost of     *)
(* them on the line, the bridge keeps its promise: a packet is executed at  *)
(* most once, in the order sent, and only when it arrived whole; an access  *)
(* and each byte of a chunk have their effect once, with the address and    *)
(* data of the packet; HOLD_CORE holds the core or lets it go; and the      *)
(* answer tells what became of it.                                          *)
THEOREM PromiseKept ==
  ASSUME LimitIsAmple, ScriptsFit PROVE Spec => KeepsPromise
<1>. DEFINE Inv == TypeInv /\ InTime /\ WorkInv /\ ParserInv /\ PacketInv
<1>1. Init => Inv /\ Promise!Start
  BY TypeInit, InTimeInit, PacketInit, PromiseStart
<1>2. Inv /\ [Tick]_vars => Inv'
  <2>. SUFFICES ASSUME TypeInv, InTime, WorkInv, ParserInv, PacketInv, [Tick]_vars PROVE Inv'
    OBVIOUS
  <2>1. TypeInv' /\ InTime'
    BY TypeStep, InTimeStep
  <2>2. ASSUME Tick  PROVE WorkInv' /\ ParserInv' /\ PacketInv'
    BY <2>2, WorkStep, ParserStep, PacketStep DEF Tick
  <2>3. ASSUME UNCHANGED vars  PROVE WorkInv' /\ ParserInv' /\ PacketInv'
    <3>1. WorkInv'
      BY <2>3 DEF vars, wires, WorkInv, Working, WriteInv, ReadInv, LoadInv, Optional, ByteOf
    <3>2. ParserInv'
      BY <2>3 DEF vars, wires, ParserInv, Emitted, Header, Covers, Whole
    <3>3. PacketInv'
      <4>1. PICK past \in Nat, held \in Nat : \E mark : Places(past, held, mark)
        BY DEF PacketInv
      <4>2. PICK mark : Places(past, held, mark)
        BY <4>1
      <4>3. /\ host' = host /\ todo' = todo /\ OnTheLine' = OnTheLine
            /\ (Whole' <=> Whole) /\ Packet' = Packet
        BY <2>3 DEF vars, wires, OnTheLine, Whole, Emitted, Packet
      <4>4. Places(past, held, mark)'
        BY <4>2, <4>3 DEF Places
      <4>. QED  BY <4>3, <4>4 DEF PacketInv
    <3>. QED  BY <3>1, <3>2, <3>3
  <2>. QED  BY <2>1, <2>2, <2>3
<1>3. Inv /\ [Tick]_vars => [Promise!Do]_(Promise!targetVars)
  <2>1. Inv /\ Tick => [Promise!Do]_(Promise!targetVars)
    BY PromiseStep
  <2>2. UNCHANGED vars => UNCHANGED Promise!targetVars
    BY DEF vars, wires, Promise!targetVars, Promise!still, Promise!lock, Promise!data, Progress
  <2>. QED  BY <2>1, <2>2
<1>. HIDE DEF Inv
<1>. QED  BY <1>1, <1>2, <1>3, PTL DEF Spec, KeepsPromise, Promise!Target
=============================================================================
