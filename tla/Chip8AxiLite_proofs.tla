------------------------ MODULE Chip8AxiLite_proofs ------------------------
(***************************************************************************)
(* The AXI-Lite port implements the register file of Chip8RegisterFile, for *)
(* every set of addresses and words and every depth of the master.          *)
(***************************************************************************)
EXTENDS Chip8AxiLite, SequenceTheorems, TLAPS

LEMMA OptCases == ASSUME NEW S, NEW e \in Opt(S)
                  PROVE  e = <<>> \/ \E x \in S : e = <<x>>
BY DEF Opt

(* The types and the handshake facts are inductive together.                *)
Inv == AxiTypeOK /\ RequestKept

LEMMA InitInv == Init => Inv
BY DEF Init, AxiInit, Inv, AxiTypeOK, RequestKept, Quiet, Opened, Offers, Opt, Register

LEMMA SkidsType == ASSUME Inv, NEW in \in Offers, Skids(in)
                   PROVE  skid' \in Offers
BY DEF Inv, AxiTypeOK, Skids, Offers

LEMMA FrontendInv == ASSUME Inv, NEW in \in Offers, Skids(in), Frontend PROVE Inv'
<1> USE DEF Inv, AxiTypeOK, RequestKept
<1>0. skid' \in Offers BY SkidsType
<1>1. CASE Join
  <2>1. Address \in Opt(Addrs) /\ Data \in Opt(Words) BY DEF Address, Data, Offers
  <2>. QED BY <1>0, <1>1, <2>1 DEF Join
<1>2. CASE TakeRead BY <1>0, <1>2 DEF TakeRead, ArReady, Offers
<1>3. CASE Collect
  <2>1. Address \in Opt(Addrs) /\ Data \in Opt(Words) BY DEF Address, Data, Offers
  <2>. QED BY <1>0, <1>3, <2>1 DEF Collect
<1>4. CASE Stall BY <1>0, <1>4 DEF Stall
<1>5. CASE PerformWrite
  <2>1. bridge.req[1] \in Addrs /\ bridge.w[1] \in Words
    BY <1>5 DEF PerformWrite, Opt
  <2>2. regs' \in [Addrs -> Register] BY <1>5, <2>1 DEF PerformWrite, Register
  <2>. QED BY <1>0, <1>5, <2>2 DEF PerformWrite
<1>6. CASE PerformRead
  <2>1. bridge.req[1] \in Addrs BY <1>6 DEF PerformRead, Opt
  <2>2. <<regs[bridge.req[1]]>> \in Opt(Register) BY <2>1 DEF Opt
  <2>3. <<regs[bridge.req[1]]>> # <<>> OBVIOUS
  <2>. QED BY <1>0, <1>6, <2>2, <2>3 DEF PerformRead
<1>7. CASE Hold BY <1>0, <1>7 DEF Hold
<1>8. CASE Close
  <2>1. <<>> \in Opt(Addrs) /\ <<>> \in Opt(Words) /\ <<>> \in Opt(Register) BY DEF Opt
  <2>. QED BY <1>0, <1>8, <2>1 DEF Close
<1>. QED BY <1>1, <1>2, <1>3, <1>4, <1>5, <1>6, <1>7, <1>8 DEF Frontend

LEMMA StutterInv == Inv /\ UNCHANGED vars => Inv'
BY DEF Inv, AxiTypeOK, RequestKept, vars, axiVars

(* The bridge stays within its types and its handshake facts, whatever the  *)
(* master offers and however long the registers take.                       *)
THEOREM PortSafe == Spec => []Inv
<1>1. Inv /\ [Tick]_vars => Inv'
  BY FrontendInv, StutterInv DEF Tick
<1>. QED BY InitInv, <1>1, PTL DEF Spec

(* What stands at the registers of the bus is the accepted request, whole,  *)
(* until it is answered, and every answer is of the kind of its request.    *)
THEOREM PortKeepsRequests == Spec => []RequestKept
<1>1. Inv => RequestKept BY DEF Inv
<1>. QED BY PortSafe, <1>1, PTL

(* All registers of the port and the master's depth keep their types.       *)
THEOREM PortTypeOK == Spec => []TypeOK
<1>1. Init => depth \in 1..MaxDepth BY DEF Init
<1>2. depth \in 1..MaxDepth /\ [Tick]_vars => (depth \in 1..MaxDepth)'
  BY DEF Tick, vars
<1>3. Inv /\ depth \in 1..MaxDepth => TypeOK BY DEF Inv, TypeOK
<1>. QED BY PortSafe, <1>1, <1>2, <1>3, PTL DEF Spec

-----------------------------------------------------------------------------
(* Refinement.  A queue of the register file is the half the bridge holds   *)
(* followed by the entry of the skid buffer.                                *)
LEMMA OptSeq == ASSUME NEW S, NEW e \in Opt(S) PROVE e \in Seq(S)
<1>1. CASE e = <<>> BY <1>1
<1>2. CASE \E x \in S : e = <<x>> BY <1>2
<1>. QED BY <1>1, <1>2 DEF Opt

LEMMA HeadOfPair == ASSUME NEW S, NEW x \in S, NEW e \in Seq(S)
                    PROVE  /\ <<x>> \o e # <<>>
                           /\ Head(<<x>> \o e) = x
                           /\ Tail(<<x>> \o e) = e
<1> DEFINE q == <<x>> \o e
<1>1. <<x>> \in Seq(S) OBVIOUS
<1>2. /\ q \in Seq(S) /\ Len(q) = 1 + Len(e)
      /\ \A k \in 1..Len(q) : q[k] = IF k = 1 THEN x ELSE e[k - 1]
  BY <1>1
<1>3. q # <<>> /\ Head(q) = x BY <1>2
<1>4. /\ Tail(q) \in Seq(S) /\ Len(Tail(q)) = Len(e)
      /\ \A k \in 1..Len(e) : Tail(q)[k] = q[k + 1]
  BY <1>2, <1>3
<1>5. \A k \in 1..Len(e) : Tail(q)[k] = e[k] BY <1>2, <1>4
<1>6. Tail(q) = e BY <1>4, <1>5
<1>. QED BY <1>3, <1>6

(* A channel whose half is not served: what is offered joins the end.       *)
LEMMA Queued == ASSUME NEW S, NEW h \in Opt(S), NEW e \in Opt(S), NEW i \in Opt(S)
                PROVE  /\ (<<>> \o e) \o i = e \o i
                       /\ (h \o <<>>) \o i = h \o i
                       /\ (h \o e) \o <<>> = h \o e
<1>1. h \in Seq(S) /\ e \in Seq(S) /\ h \o e \in Seq(S) BY OptSeq
<1>. QED BY <1>1, ConcatEmptySeq

(* A channel whose half is served: it was the head of the queue.            *)
LEMMA Served == ASSUME NEW S, NEW h \in Opt(S), NEW e \in Opt(S), h # <<>>
                PROVE  h \o e # <<>> /\ Head(h \o e) = h[1] /\ Tail(h \o e) = e
<1>1. e \in Seq(S) BY OptSeq
<1>2. PICK x \in S : h = <<x>> BY OptCases
<1>3. h \o e # <<>> /\ Head(h \o e) = x /\ Tail(h \o e) = e BY <1>1, <1>2, HeadOfPair
<1>4. h[1] = x BY <1>2
<1>. QED BY <1>2, <1>3, <1>4

LEMMA Empty == ASSUME NEW S, NEW e \in Opt(S) PROVE <<>> \o e = e /\ e \o <<>> = e
<1>1. e \in Seq(S) BY OptSeq
<1>. QED BY <1>1, ConcatEmptySeq

HalfAw == IF bridge.state # "RESP" THEN bridge.aw ELSE <<>>
HalfW  == IF bridge.state # "RESP" THEN bridge.w ELSE <<>>
HalfAr == IF bridge.state = "WAIT_REG" /\ ~ bridge.we THEN bridge.req ELSE <<>>

LEMMA Pending == /\ PendingAw = HalfAw \o skid.aw
                 /\ PendingW = HalfW \o skid.w
                 /\ PendingAr = HalfAr \o skid.ar
BY DEF PendingAw, PendingW, PendingAr, Waiting, HalfAw, HalfW, HalfAr

LEMMA PendingNext == /\ PendingAw' = HalfAw' \o skid'.aw
                     /\ PendingW' = HalfW' \o skid'.w
                     /\ PendingAr' = HalfAr' \o skid'.ar
BY DEF PendingAw, PendingW, PendingAr, Waiting, HalfAw, HalfW, HalfAr

LEMMA Halves == Inv => /\ HalfAw \in Opt(Addrs) /\ HalfW \in Opt(Words)
                       /\ HalfAr \in Opt(Addrs)
<1>1. <<>> \in Opt(Addrs) /\ <<>> \in Opt(Words) BY DEF Opt
<1>. QED BY <1>1 DEF Inv, AxiTypeOK, HalfAw, HalfW, HalfAr

LEMMA AwQueued == ASSUME Inv, NEW in \in Offers, Offered(in), Skids(in),
                         HalfAw' = IF AwReady THEN skid.aw ELSE HalfAw
                  PROVE  PendingAw' = PendingAw \o in.aw
<1>1. HalfAw \in Opt(Addrs) /\ skid.aw \in Opt(Addrs) /\ in.aw \in Opt(Addrs)
  BY Halves DEF Inv, AxiTypeOK, Offers
<1>2. CASE AwReady
  <2>1. HalfAw = <<>> BY <1>2 DEF AwReady, HalfAw
  <2>2. HalfAw' = skid.aw /\ skid'.aw = in.aw BY <1>2 DEF Skids, AwTaken, Taken
  <2>. QED BY <1>1, <2>1, <2>2, Queued, Pending, PendingNext
<1>3. CASE ~ AwReady /\ skid.aw = <<>>
  <2>1. HalfAw' = HalfAw /\ skid'.aw = in.aw BY <1>3 DEF Skids, AwTaken, Taken
  <2>. QED BY <1>1, <1>3, <2>1, Queued, Pending, PendingNext
<1>4. CASE ~ AwReady /\ skid.aw # <<>>
  <2>1. HalfAw' = HalfAw /\ skid'.aw = skid.aw /\ in.aw = <<>>
    BY <1>4 DEF Skids, Offered, AwTaken, Taken
  <2>. QED BY <1>1, <2>1, Queued, Pending, PendingNext
<1>. QED BY <1>2, <1>3, <1>4

LEMMA WQueued == ASSUME Inv, NEW in \in Offers, Offered(in), Skids(in),
                         HalfW' = IF WReady THEN skid.w ELSE HalfW
                  PROVE  PendingW' = PendingW \o in.w
<1>1. HalfW \in Opt(Words) /\ skid.w \in Opt(Words) /\ in.w \in Opt(Words)
  BY Halves DEF Inv, AxiTypeOK, Offers
<1>2. CASE WReady
  <2>1. HalfW = <<>> BY <1>2 DEF WReady, HalfW
  <2>2. HalfW' = skid.w /\ skid'.w = in.w BY <1>2 DEF Skids, WTaken, Taken
  <2>. QED BY <1>1, <2>1, <2>2, Queued, Pending, PendingNext
<1>3. CASE ~ WReady /\ skid.w = <<>>
  <2>1. HalfW' = HalfW /\ skid'.w = in.w BY <1>3 DEF Skids, WTaken, Taken
  <2>. QED BY <1>1, <1>3, <2>1, Queued, Pending, PendingNext
<1>4. CASE ~ WReady /\ skid.w # <<>>
  <2>1. HalfW' = HalfW /\ skid'.w = skid.w /\ in.w = <<>>
    BY <1>4 DEF Skids, Offered, WTaken, Taken
  <2>. QED BY <1>1, <2>1, Queued, Pending, PendingNext
<1>. QED BY <1>2, <1>3, <1>4

LEMMA ArQueued == ASSUME Inv, NEW in \in Offers, Offered(in), Skids(in),
                         HalfAr' = IF ArReady THEN skid.ar ELSE HalfAr
                  PROVE  PendingAr' = PendingAr \o in.ar
<1>1. HalfAr \in Opt(Addrs) /\ skid.ar \in Opt(Addrs) /\ in.ar \in Opt(Addrs)
  BY Halves DEF Inv, AxiTypeOK, Offers
<1>2. CASE ArReady
  <2>1. HalfAr = <<>> BY <1>2 DEF ArReady, HalfAr
  <2>2. HalfAr' = skid.ar /\ skid'.ar = in.ar BY <1>2 DEF Skids, ArTaken, Taken
  <2>. QED BY <1>1, <2>1, <2>2, Queued, Pending, PendingNext
<1>3. CASE ~ ArReady /\ skid.ar = <<>>
  <2>1. HalfAr' = HalfAr /\ skid'.ar = in.ar BY <1>3 DEF Skids, ArTaken, Taken
  <2>. QED BY <1>1, <1>3, <2>1, Queued, Pending, PendingNext
<1>4. CASE ~ ArReady /\ skid.ar # <<>>
  <2>1. HalfAr' = HalfAr /\ skid'.ar = skid.ar /\ in.ar = <<>>
    BY <1>4 DEF Skids, Offered, ArTaken, Taken
  <2>. QED BY <1>1, <2>1, Queued, Pending, PendingNext
<1>. QED BY <1>2, <1>3, <1>4

LEMMA AwServed == ASSUME Inv, NEW in \in Offers, Offered(in), Skids(in), PerformWrite
                   PROVE  /\ PendingAw # <<>> /\ Head(PendingAw) = HalfAw[1]
                          /\ PendingAw' = Tail(PendingAw) \o in.aw
<1>1. HalfAw \in Opt(Addrs) /\ skid.aw \in Opt(Addrs) /\ in.aw \in Opt(Addrs)
  BY Halves DEF Inv, AxiTypeOK, Offers
<1>2. HalfAw # <<>> BY DEF PerformWrite, HalfAw, Inv, RequestKept
<1>3. HalfAw' = <<>>
  BY DEF PerformWrite, HalfAw, Inv, AxiTypeOK
<1>4. PendingAw # <<>> /\ Head(PendingAw) = HalfAw[1] /\ Tail(PendingAw) = skid.aw
  BY <1>1, <1>2, Served, Pending
<1>5. skid'.aw = skid.aw \o in.aw
  <2>1. ~ AwReady BY DEF PerformWrite, AwReady
  <2>2. CASE skid.aw = <<>>
    BY <1>1, <2>1, <2>2, Empty DEF Skids, AwTaken, Taken
  <2>3. CASE skid.aw # <<>>
    BY <1>1, <2>1, <2>3, Empty DEF Skids, Offered, AwTaken, Taken
  <2>. QED BY <2>2, <2>3
<1>6. <<>> \o skid'.aw = skid'.aw
  <2>1. skid'.aw \in Opt(Addrs) BY SkidsType DEF Offers
  <2>. QED BY <2>1, Empty
<1>. QED BY <1>3, <1>4, <1>5, <1>6, PendingNext

LEMMA WServed == ASSUME Inv, NEW in \in Offers, Offered(in), Skids(in), PerformWrite
                   PROVE  /\ PendingW # <<>> /\ Head(PendingW) = HalfW[1]
                          /\ PendingW' = Tail(PendingW) \o in.w
<1>1. HalfW \in Opt(Words) /\ skid.w \in Opt(Words) /\ in.w \in Opt(Words)
  BY Halves DEF Inv, AxiTypeOK, Offers
<1>2. HalfW # <<>> BY DEF PerformWrite, HalfW, Inv, RequestKept
<1>3. HalfW' = <<>>
  BY DEF PerformWrite, HalfW, Inv, AxiTypeOK
<1>4. PendingW # <<>> /\ Head(PendingW) = HalfW[1] /\ Tail(PendingW) = skid.w
  BY <1>1, <1>2, Served, Pending
<1>5. skid'.w = skid.w \o in.w
  <2>1. ~ WReady BY DEF PerformWrite, WReady
  <2>2. CASE skid.w = <<>>
    BY <1>1, <2>1, <2>2, Empty DEF Skids, WTaken, Taken
  <2>3. CASE skid.w # <<>>
    BY <1>1, <2>1, <2>3, Empty DEF Skids, Offered, WTaken, Taken
  <2>. QED BY <2>2, <2>3
<1>6. <<>> \o skid'.w = skid'.w
  <2>1. skid'.w \in Opt(Words) BY SkidsType DEF Offers
  <2>. QED BY <2>1, Empty
<1>. QED BY <1>3, <1>4, <1>5, <1>6, PendingNext

LEMMA ArServed == ASSUME Inv, NEW in \in Offers, Offered(in), Skids(in), PerformRead
                   PROVE  /\ PendingAr # <<>> /\ Head(PendingAr) = HalfAr[1]
                          /\ PendingAr' = Tail(PendingAr) \o in.ar
<1>1. HalfAr \in Opt(Addrs) /\ skid.ar \in Opt(Addrs) /\ in.ar \in Opt(Addrs)
  BY Halves DEF Inv, AxiTypeOK, Offers
<1>2. HalfAr # <<>> BY DEF PerformRead, HalfAr, Inv, RequestKept
<1>3. HalfAr' = <<>>
  BY DEF PerformRead, HalfAr, Inv, AxiTypeOK
<1>4. PendingAr # <<>> /\ Head(PendingAr) = HalfAr[1] /\ Tail(PendingAr) = skid.ar
  BY <1>1, <1>2, Served, Pending
<1>5. skid'.ar = skid.ar \o in.ar
  <2>1. ~ ArReady BY DEF PerformRead, ArReady
  <2>2. CASE skid.ar = <<>>
    BY <1>1, <2>1, <2>2, Empty DEF Skids, ArTaken, Taken
  <2>3. CASE skid.ar # <<>>
    BY <1>1, <2>1, <2>3, Empty DEF Skids, Offered, ArTaken, Taken
  <2>. QED BY <2>2, <2>3
<1>6. <<>> \o skid'.ar = skid'.ar
  <2>1. skid'.ar \in Opt(Addrs) BY SkidsType DEF Offers
  <2>. QED BY <2>1, Empty
<1>. QED BY <1>3, <1>4, <1>5, <1>6, PendingNext

(* The answer of the register file in terms of the bridge.                  *)
Answer == IF bridge.b THEN <<[we |-> TRUE]>>
          ELSE IF bridge.r = <<>> THEN <<>> ELSE <<[we |-> FALSE, val |-> bridge.r[1]]>>

(* A step that serves nothing: the answer stays or is taken.                *)
LEMMA Delivers == ASSUME Inv, NEW in \in Offers, Offered(in), Skids(in),
                         Join \/ TakeRead \/ Collect \/ Stall \/ Hold \/ Close
                  PROVE  RF!Deliver(in)
<1> USE DEF Inv, AxiTypeOK, RequestKept
<1>1. HalfAw' = IF AwReady THEN skid.aw ELSE HalfAw
  BY DEF Join, TakeRead, Collect, Stall, Hold, Close, Address, HalfAw, AwReady, ArReady
<1>2. HalfW' = IF WReady THEN skid.w ELSE HalfW
  BY DEF Join, TakeRead, Collect, Stall, Hold, Close, Data, HalfW, WReady, ArReady
<1>3. HalfAr' = IF ArReady THEN skid.ar ELSE HalfAr
  BY DEF Join, TakeRead, Collect, Stall, Hold, Close, Address, Data, HalfAr,
         ArReady, AwReady, WReady
<1>4. regs' = regs BY DEF Join, TakeRead, Collect, Stall, Hold, Close
<1>5. Answer' \in {Answer, <<>>}
  <2>1. CASE Close BY <2>1 DEF Close, Answer
  <2>2. CASE ~ Close
    <3>1. bridge'.b = bridge.b /\ bridge'.r = bridge.r
      BY <2>2 DEF Join, TakeRead, Collect, Stall, Hold
    <3>. QED BY <3>1 DEF Answer
  <2>. QED BY <2>1, <2>2
<1>. QED BY <1>1, <1>2, <1>3, <1>4, <1>5, AwQueued, WQueued, ArQueued
     DEF RF!Deliver, Answer

LEMMA ServesWrite == ASSUME Inv, NEW in \in Offers, Offered(in), Skids(in), PerformWrite
                     PROVE  RF!ServeWrite(in)
<1> USE DEF Inv, AxiTypeOK, RequestKept
<1>1. HalfAr' = IF ArReady THEN skid.ar ELSE HalfAr
  BY DEF PerformWrite, HalfAr, ArReady
<1>2. HalfAw = bridge.req /\ HalfW = bridge.w BY DEF PerformWrite, HalfAw, HalfW
<1>3. Answer = <<>> /\ Answer' = <<[we |-> TRUE]>> BY DEF PerformWrite, Answer
<1>4. regs' = RF!Written(regs, Head(PendingAw), Head(PendingW))
  BY <1>2, AwServed, WServed DEF PerformWrite, RF!Written
<1>. QED BY <1>1, <1>3, <1>4, AwServed, WServed, ArQueued
     DEF RF!ServeWrite, RF!Done, Answer

LEMMA ServesRead == ASSUME Inv, NEW in \in Offers, Offered(in), Skids(in), PerformRead
                    PROVE  RF!ServeRead(in)
<1> USE DEF Inv, AxiTypeOK, RequestKept
<1>1. HalfAw' = IF AwReady THEN skid.aw ELSE HalfAw
  BY DEF PerformRead, HalfAw, AwReady
<1>2. HalfW' = IF WReady THEN skid.w ELSE HalfW
  BY DEF PerformRead, HalfW, WReady
<1>3. HalfAr = bridge.req BY DEF PerformRead, HalfAr
<1>4. Answer = <<>> BY DEF PerformRead, Answer
<1>5. Answer' = <<[we |-> FALSE, val |-> regs[Head(PendingAr)]]>>
  <2>1. bridge'.b = FALSE /\ bridge'.r = <<regs[bridge.req[1]]>> BY DEF PerformRead
  <2>2. <<regs[bridge.req[1]]>> # <<>> /\ <<regs[bridge.req[1]]>>[1] = regs[bridge.req[1]]
    OBVIOUS
  <2>. QED BY <2>1, <2>2, <1>3, ArServed DEF Answer
<1>6. regs' = regs BY DEF PerformRead
<1>. QED BY <1>1, <1>2, <1>4, <1>5, <1>6, AwQueued, WQueued, ArServed
     DEF RF!ServeRead, RF!Value, Answer

LEMMA StartsEmpty == Init => RF!Start
<1> SUFFICES ASSUME Init PROVE RF!Start OBVIOUS
<1>1. HalfAw = <<>> /\ HalfW = <<>> /\ HalfAr = <<>>
  BY DEF Init, AxiInit, Opened, HalfAw, HalfW, HalfAr
<1>2. skid.aw = <<>> /\ skid.w = <<>> /\ skid.ar = <<>> BY DEF Init, AxiInit, Quiet
<1>3. <<>> \o <<>> = <<>> BY Empty DEF Opt
<1>4. PendingAw = <<>> /\ PendingW = <<>> /\ PendingAr = <<>>
  BY <1>1, <1>2, <1>3, Pending
<1>5. ~ bridge.b /\ bridge.r = <<>> BY DEF Init, AxiInit, Opened
<1>6. \E v \in Words : regs = RF!Reset(v) BY DEF Init, AxiInit, RF!Reset
<1>. QED BY <1>4, <1>5, <1>6 DEF RF!Start

LEMMA StepServes == Inv /\ [Tick]_vars => [RF!Serve]_(RF!regVars)
<1>1. ASSUME Inv, Tick PROVE RF!Serve
  <2>1. PICK in \in Offers : Offered(in) /\ Skids(in) BY <1>1 DEF Tick
  <2>2. in \in RF!Offers BY DEF RF!Offers, Offers, RF!Opt, Opt
  <2>3. RF!Deliver(in) \/ RF!ServeWrite(in) \/ RF!ServeRead(in)
    BY <1>1, <2>1, Delivers, ServesWrite, ServesRead DEF Tick, Frontend
  <2>. QED BY <2>2, <2>3 DEF RF!Serve
<1>2. ASSUME UNCHANGED vars PROVE UNCHANGED RF!regVars
  BY <1>2 DEF vars, axiVars, RF!regVars, PendingAw, PendingW, PendingAr, Waiting
<1>. QED BY <1>1, <1>2

(* Whatever the master offers and however long the registers take, the port *)
(* is a register file: each write performed once and in order, each read    *)
(* answered with the value of its register, no answer lost or overtaken.    *)
THEOREM PortImplements == Spec => Implements
<1>1. Spec => []Inv BY PortSafe
<1>2. Inv /\ [Tick]_vars => [RF!Serve]_(RF!regVars) BY StepServes
<1>. QED BY StartsEmpty, <1>1, <1>2, PTL DEF Spec, Implements, RF!RegisterFile
=============================================================================
