------------------------- MODULE Chip8RegisterFile -------------------------
(***************************************************************************)
(* What a master of the AXI-Lite port is promised: writes are performed     *)
(* once each, in the order of their addresses and of their data, reads      *)
(* return what the registers hold when they are served, and every access    *)
(* has one answer, taken before the next access is performed.               *)
(***************************************************************************)
EXTENDS Sequences

CONSTANTS Addrs, Words

VARIABLES aws, ws, ars,    \* accepted and not yet served, per channel
          regs,            \* value of each register and parity of its writes
          answer           \* the answer under way, if any

regVars == <<aws, ws, ars, regs, answer>>

Opt(S)    == {<<>>} \cup {<<x>> : x \in S}
Offers    == [aw : Opt(Addrs), w : Opt(Words), ar : Opt(Addrs)]
Register  == [val : Words, odd : BOOLEAN]
Reset(v)  == [a \in Addrs |-> [val |-> v, odd |-> FALSE]]

(* Registers act on being written, so a second write of a value shows.      *)
Written(r, a, v) == [r EXCEPT ![a] = [val |-> v, odd |-> ~ r[a].odd]]
Done             == [we |-> TRUE]
Value(v)         == [we |-> FALSE, val |-> v]
Answers          == {Done} \cup {Value(v) : v \in Register}

Start == \E v \in Words :
  /\ aws = <<>> /\ ws = <<>> /\ ars = <<>>
  /\ regs = Reset(v) /\ answer = <<>>

ServeWrite(in) ==
  /\ answer = <<>> /\ aws # <<>> /\ ws # <<>>
  /\ regs' = Written(regs, Head(aws), Head(ws)) /\ answer' = <<Done>>
  /\ aws' = Tail(aws) \o in.aw /\ ws' = Tail(ws) \o in.w /\ ars' = ars \o in.ar

ServeRead(in) ==
  /\ answer = <<>> /\ ars # <<>>
  /\ answer' = <<Value(regs[Head(ars)])>> /\ UNCHANGED regs
  /\ aws' = aws \o in.aw /\ ws' = ws \o in.w /\ ars' = Tail(ars) \o in.ar

Deliver(in) ==
  /\ answer' \in {answer, <<>>} /\ UNCHANGED regs
  /\ aws' = aws \o in.aw /\ ws' = ws \o in.w /\ ars' = ars \o in.ar

Serve == \E in \in Offers : ServeWrite(in) \/ ServeRead(in) \/ Deliver(in)
RegisterFile == Start /\ [][Serve]_regVars
=============================================================================
