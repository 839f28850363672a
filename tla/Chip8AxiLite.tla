---------------------------- MODULE Chip8AxiLite ----------------------------
(***************************************************************************)
(* The AXI-Lite port of the SoC, one step per clock edge: a skid buffer on  *)
(* each request channel, the bridge that joins address and data of a write  *)
(* into one register request, and the registers behind the interconnect.    *)
(* An optional value is the empty sequence or a sequence of one.            *)
(***************************************************************************)
EXTENDS Integers, Sequences

CONSTANTS Addrs,          \* register addresses
          Words,          \* data words, with their strobes
          MaxDepth        \* accesses a master has in flight per channel

ASSUME AxiAssumption == Addrs # {} /\ Words # {} /\ MaxDepth \in Nat \ {0}

VARIABLES skid,           \* the entries of the three skid buffers
          bridge,         \* state, halves seen, request, responses
          regs,           \* value of each register and parity of its writes
          depth           \* what this master keeps in flight

axiVars == <<skid, bridge, regs>>
vars    == <<axiVars, depth>>

Opt(S)    == {<<>>} \cup {<<x>> : x \in S}
Offers    == [aw : Opt(Addrs), w : Opt(Words), ar : Opt(Addrs)]
Register  == [val : Words, odd : BOOLEAN]

Quiet  == [aw |-> <<>>, w |-> <<>>, ar |-> <<>>]
Opened == [state |-> "IDLE", we |-> FALSE, aw |-> <<>>, w |-> <<>>, req |-> <<>>,
           b |-> FALSE, r |-> <<>>]

AxiInit ==
  /\ skid = Quiet /\ bridge = Opened
  /\ \E v \in Words : regs = [a \in Addrs |-> [val |-> v, odd |-> FALSE]]

-----------------------------------------------------------------------------
(* Ready wires.  A read waits until no part of a write is in sight.         *)
AwReadyMutant ==                    \* a write in halves, data first, is refused
  bridge.state = "IDLE" /\ bridge.aw = <<>> /\ bridge.w = <<>>
AwReady == bridge.state = "IDLE" /\ bridge.aw = <<>>
WReady  == bridge.state = "IDLE" /\ bridge.w = <<>>
ArReadyMutant ==                    \* a datum without address does not hold reads
  bridge.state = "IDLE" /\ bridge.aw = <<>> /\ skid.aw = <<>>
ArReady == bridge.state = "IDLE" /\ bridge.aw = <<>> /\ bridge.w = <<>>
           /\ skid.aw = <<>> /\ skid.w = <<>>

Taken(entry, ready) == entry = <<>> \/ ready
AwTaken == Taken(skid.aw, AwReady)
WTaken  == Taken(skid.w, WReady)
ArTakenMutant == TRUE               \* the read entry does not wait
ArTaken == Taken(skid.ar, ArReady)

SkidsMutant(in) ==                  \* the channels of write data and reads swapped
  skid' = [aw |-> IF AwTaken THEN in.aw ELSE skid.aw,
           w  |-> IF WTaken THEN in.ar ELSE skid.w,
           ar |-> IF ArTaken THEN in.w ELSE skid.ar]
Skids(in) ==
  skid' = [aw |-> IF AwTaken THEN in.aw ELSE skid.aw,
           w  |-> IF WTaken THEN in.w ELSE skid.w,
           ar |-> IF ArTaken THEN in.ar ELSE skid.ar]

(* IDLE: the halves of a write, the one of this cycle or the one kept.      *)
Address == IF AwReady THEN skid.aw ELSE bridge.aw
Data    == IF WReady THEN skid.w ELSE bridge.w

Join ==
  /\ bridge.state = "IDLE" /\ Address # <<>> /\ Data # <<>>
  /\ bridge' = [bridge EXCEPT !.state = "WAIT_REG", !.we = TRUE,
                  !.aw = Address, !.w = Data, !.req = Address]
  /\ UNCHANGED regs

TakeRead ==
  /\ ArReady /\ skid.ar # <<>>
  /\ bridge' = [bridge EXCEPT !.state = "WAIT_REG", !.we = FALSE, !.req = skid.ar]
  /\ UNCHANGED regs

Collect ==
  /\ bridge.state = "IDLE" /\ (Address = <<>> \/ Data = <<>>)
  /\ ~ (ArReady /\ skid.ar # <<>>)
  /\ bridge' = [bridge EXCEPT !.aw = Address, !.w = Data]
  /\ UNCHANGED regs

(* WAIT_REG: the request stands until the register takes it.                *)
Stall ==
  /\ bridge.state = "WAIT_REG" /\ UNCHANGED <<bridge, regs>>

PerformWrite ==
  /\ bridge.state = "WAIT_REG" /\ bridge.we
  /\ regs' = [regs EXCEPT ![bridge.req[1]] =
                [val |-> bridge.w[1], odd |-> ~ regs[bridge.req[1]].odd]]
  /\ bridge' = [bridge EXCEPT !.state = "RESP", !.b = TRUE]

PerformRead ==
  /\ bridge.state = "WAIT_REG" /\ ~ bridge.we
  /\ bridge' = [bridge EXCEPT !.state = "RESP", !.r = <<regs[bridge.req[1]]>>]
  /\ UNCHANGED regs

(* RESP: the answer stands until the master takes it.                       *)
Hold ==
  /\ bridge.state = "RESP" /\ UNCHANGED <<bridge, regs>>

CloseMutant ==                      \* the data half stays seen
  /\ bridge.state = "RESP"
  /\ bridge' = [bridge EXCEPT !.state = "IDLE", !.aw = <<>>, !.b = FALSE, !.r = <<>>]
  /\ UNCHANGED regs
Close ==
  /\ bridge.state = "RESP"
  /\ bridge' = [bridge EXCEPT !.state = "IDLE", !.aw = <<>>, !.w = <<>>,
                  !.b = FALSE, !.r = <<>>]
  /\ UNCHANGED regs

Frontend == Join \/ TakeRead \/ Collect \/ Stall \/ PerformWrite \/ PerformRead
            \/ Hold \/ Close

-----------------------------------------------------------------------------
(* A master: it offers what it likes on each channel, holding an offer      *)
(* until it is taken, with at most depth accesses of a channel unanswered.  *)
Waiting(half, entry) ==
  (IF bridge.state # "RESP" THEN half ELSE <<>>) \o entry
PendingAw == Waiting(bridge.aw, skid.aw)
PendingW  == Waiting(bridge.w, skid.w)
PendingAr == (IF bridge.state = "WAIT_REG" /\ ~ bridge.we THEN bridge.req ELSE <<>>)
             \o skid.ar

Open(pending, answering) == Len(pending) + (IF answering THEN 1 ELSE 0) < depth
Offered(in) ==
  /\ in.aw # <<>> => AwTaken /\ Open(PendingAw, bridge.b)
  /\ in.w # <<>>  => WTaken /\ Open(PendingW, bridge.b)
  /\ in.ar # <<>> => ArTaken /\ Open(PendingAr, bridge.r # <<>>)

Init == AxiInit /\ depth \in 1..MaxDepth
Tick == /\ \E in \in Offers : Offered(in) /\ Skids(in)
        /\ Frontend /\ UNCHANGED depth
Spec == Init /\ [][Tick]_vars

(* The registers answer, the master takes its answers, and it does not      *)
(* leave a write in halves: a master holds each offer until it is taken.    *)
Complete == /\ Tick
            /\ Len(PendingAw) < Len(PendingW) => skid'.aw # <<>> /\ AwTaken
            /\ Len(PendingW) < Len(PendingAw) => skid'.w # <<>> /\ WTaken
FairSpec == /\ Spec /\ WF_vars(Tick /\ ~ Stall /\ ~ Hold)
            /\ SF_vars(Complete)
-----------------------------------------------------------------------------
AxiTypeOK ==
  /\ skid \in Offers
  /\ bridge \in [state : {"IDLE", "WAIT_REG", "RESP"}, we : BOOLEAN,
                 aw : Opt(Addrs), w : Opt(Words), req : Opt(Addrs),
                 b : BOOLEAN, r : Opt(Register)]
  /\ regs \in [Addrs -> Register]
TypeOK == AxiTypeOK /\ depth \in 1..MaxDepth

(* The request at the registers is the one accepted, whole, until it is     *)
(* answered, and each answer is of the kind of its request.                 *)
RequestKept ==
  /\ bridge.state # "IDLE" =>
       /\ bridge.req # <<>>
       /\ bridge.we => bridge.aw = bridge.req /\ bridge.w # <<>>
       /\ ~ bridge.we => bridge.aw = <<>> /\ bridge.w = <<>>
  /\ bridge.state = "IDLE" => bridge.aw = <<>> \/ bridge.w = <<>>
  /\ bridge.b <=> bridge.state = "RESP" /\ bridge.we
  /\ bridge.r # <<>> <=> bridge.state = "RESP" /\ ~ bridge.we

(* The port implements a register file with one queue per channel.          *)
RF == INSTANCE Chip8RegisterFile WITH
        aws <- PendingAw, ws <- PendingW, ars <- PendingAr,
        answer <- IF bridge.b THEN <<[we |-> TRUE]>>
                  ELSE IF bridge.r = <<>> THEN <<>>
                  ELSE <<[we |-> FALSE, val |-> bridge.r[1]]>>
Implements == RF!RegisterFile

(* A write whose two halves were accepted is answered, in whatever order    *)
(* and distance they came.                                                  *)
WritesServed == PendingAw # <<>> /\ PendingW # <<>> ~> bridge.b

(* A master that waits for each answer is never refused its reads by its    *)
(* own writes: they have priority and may be only half there.               *)
ReadsServed == depth = 1 /\ PendingAr # <<>> ~> bridge.r # <<>>
=============================================================================
