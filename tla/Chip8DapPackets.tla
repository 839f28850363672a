-------------------------- MODULE Chip8DapPackets --------------------------
(***************************************************************************)
(* Packets of the debug access port.  A byte is its value and, for a byte   *)
(* of a checksum, the bytes the checksum covers and which half it is: two   *)
(* checksums are equal when they cover the same bytes.  A payload has plain *)
(* bytes and checksums of chunks; it is not the image of another packet.    *)
(* Payloads are scaled down: an address, a word, a key, an offset and a     *)
(* chunk checksum take one byte each (2, 4, 4, 2 and 2 in the hardware).    *)
(***************************************************************************)
EXTENDS Integers, Sequences

MaxPayload == 5           \* 32 in the hardware
MaxChunk   == 2           \* 16
LengthSpan == 2 * MaxChunk \* lengths the chunk writer tells apart: 32, five bits
KeyLen     == 1           \* 4
AddrLen    == 1           \* 2
WriteLen   == 2           \* 6
ChunkHead  == 3           \* 5, so a chunk has at least ChunkHead + 1 bytes
Framing    == 7           \* start, version, sequence, status, length, checksum

SOF == 165
VERSION == 1
Code == [PING |-> 0, ID |-> 1, UNLOCK |-> 2, LOCK |-> 3, HOLD_CORE |-> 4,
         READ32 |-> 16, WRITE32 |-> 17, ROM_WRITE |-> 33, GET_STATUS |-> 48]

Number  == [n : Nat, covers : {<<>>}, half : {0}]
Data    == [n : Nat, covers : Seq(Number), half : {0}]      \* payload
Bytes   == [n : Nat, covers : Seq(Data), half : {0, 1}]     \* on the line
Packets == [seq : Nat, cmd : Nat, payload : Seq(Data)]
Plain(n)            == [n |-> n, covers |-> <<>>, half |-> 0]
Check(bytes, half)  == [n |-> 255, covers |-> bytes, half |-> half]
Byte(bytes, k)      == IF k \in DOMAIN bytes THEN bytes[k] ELSE Plain(0)

Key      == Plain(201)
Identity == <<49, 48, 78, 73>>           \* of "DAPBIN01", the last character first

(* A packet [seq, cmd, payload] on the wire. *)
Body(p) == <<Plain(VERSION), Plain(p.seq), Plain(p.cmd), Plain(Len(p.payload))>> \o p.payload
Wire(p) == <<Plain(SOF)>> \o Body(p)
           \o <<Check(Body(p), 0), Check(Body(p), 1)>>

Answer(seq, status, payload) == [seq |-> seq, status |-> status, payload |-> payload]

(* The fields of a ROM chunk: offset, length, checksum, data.  The writer   *)
(* is handed the low bits of the length byte only.                          *)
ChunkOffset(payload) == Byte(payload, 1).n
LengthByte(payload)  == Byte(payload, 2).n
ChunkLen(payload)    == LengthByte(payload) % LengthSpan
ChunkCheck(payload)  == Byte(payload, 3)
ChunkByte(payload, k) == Byte(payload, ChunkHead + k).n

(* A packet whose length of a chunk, or switch of the hold, is within the   *)
(* bits the bridge looks at: HOLD_CORE has 0 or 1, as the host sends it.    *)
Switch(payload) == Byte(payload, 1).n
WellFormed(p) ==
  /\ p.cmd = Code.ROM_WRITE => LengthByte(p.payload) < LengthSpan
  /\ p.cmd = Code.HOLD_CORE => Switch(p.payload) \in {0, 1}
=============================================================================
