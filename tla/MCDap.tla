------------------------------- MODULE MCDap -------------------------------
(***************************************************************************)
(* Scripts for the debug port: every pair of packets after an unlock, pairs *)
(* without one, and two during which the line loses a byte.               *)
(***************************************************************************)
EXTENDS Chip8Dap

MCAddrs == {16, 20}
MCWords == {0, 1}

P(seq, cmd, payload) == [seq |-> seq, cmd |-> cmd, payload |-> payload]
Nums(ns) == [k \in DOMAIN ns |-> Plain(ns[k])]
RomChunk(seq, offset, bytes) ==
  P(seq, Code.ROM_WRITE,
    <<Plain(offset), Plain(Len(bytes)), Check(Nums(bytes), 0)>> \o Nums(bytes))

Unlocking == P(1, Code.UNLOCK, <<Key>>)
Two       == RomChunk(0, 3, <<1, 2>>)        \* its second byte wraps to offset 0
One       == RomChunk(1, 1, <<3>>)
BadChunk  == P(0, Code.ROM_WRITE, <<Plain(1), Plain(2), Check(Nums(<<1, 1>>), 0)>> \o Nums(<<1, 2>>))
LongChunk == P(0, Code.ROM_WRITE, <<Plain(0), Plain(3), Check(Nums(<<1, 2>>), 0)>> \o Nums(<<1, 2>>))
Write     == P(2, Code.WRITE32, Nums(<<16, 1>>))
Read      == P(3, Code.READ32, Nums(<<16>>))
Holding   == P(2, Code.HOLD_CORE, Nums(<<1>>))
Releasing == P(2, Code.HOLD_CORE, Nums(<<0>>))

Kinds == {P(0, Code.PING, <<>>), P(0, Code.ID, <<>>), P(1, Code.UNLOCK, Nums(<<7>>)),
          P(1, Code.LOCK, <<>>), Holding, Releasing, Read, Write, P(2, Code.WRITE32, Nums(<<16>>)),
          Two, One, BadChunk, LongChunk, P(3, Code.GET_STATUS, <<>>), P(3, 32, <<>>)}

Lossy   == {<<Unlocking, Two, One>>, <<Unlocking, Write, Read>>}
Gated   == {Write, Two, Holding, Releasing, P(1, Code.UNLOCK, Nums(<<7>>))}
Pairs   == {<<Unlocking, x, y>> : x, y \in Kinds} \cup {<<x, y>> : x \in Gated, y \in Kinds}
Session == Pairs \cup Lossy
Holds   == {<<Unlocking, Holding, x>> : x \in Kinds}
Reliable == {}

(* The host of these runs sends nothing the bridge would read in part. *)
ASSUME MCScripts == ScriptsFit
=============================================================================
