-------------------------- MODULE Chip8Core_proofs --------------------------
(***************************************************************************)
(* Theorems about Chip8Core, for every memory size, program, illegal-opcode *)
(* policy, stack depth and behaviour of the enable line and the load port:  *)
(* its types and widths; what is read ahead is never stale, halting is      *)
(* recorded, the call stack is consistent, the random generator never       *)
(* sticks and the sequencers stay in step.  The second part proves that the *)
(* core implements the instruction set of the Rust model (Chip8Lockstep).   *)
(***************************************************************************)
EXTENDS Chip8Lockstep, WellFoundedInduction, TLAPS

-----------------------------------------------------------------------------
(* The combinational blocks return values of their width. *)

LEMMA WrapType == \A a \in Int : Wrap(a) \in Addr
BY AddrSpaceAssumption, SMT DEF Wrap, Addr

LEMMA MaxOpcodeType == MaxOpcode \in Nat
BY SMT DEF MaxOpcode

LEMMA FieldTypes ==
  ASSUME NEW oc \in Opcode
  PROVE  /\ XReg(oc) \in Reg /\ YReg(oc) \in Reg /\ Nib(oc) \in 0..15
         /\ Imm(oc) \in Byte /\ NNN(oc) \in Int
<1>1. oc \in Nat
  BY MaxOpcodeType, SMT DEF Opcode
<1>2. XReg(oc) \in Reg /\ YReg(oc) \in Reg /\ Nib(oc) \in 0..15
  BY <1>1, SMT DEF XReg, YReg, Nib, Reg
<1>3. Imm(oc) \in Byte /\ NNN(oc) \in Int
  BY <1>1, SMT DEF Imm, NNN, Byte
<1> QED BY <1>2, <1>3

LEMMA ByteSums ==
  ASSUME NEW a \in Byte, NEW b \in Byte
  PROVE  256 * a + b \in Opcode /\ (a + b) % 256 \in Byte
<1>1. 256 * a + b \in Nat /\ 256 * a + b <= MaxOpcode
  BY SMT DEF Byte, MaxOpcode
<1>2. 256 * a + b \in Opcode
  BY <1>1, MaxOpcodeType, SMT DEF Opcode
<1>3. (a + b) % 256 \in Byte
  BY SMT DEF Byte
<1> QED BY <1>2, <1>3

LEMMA IntSums == \A i \in Int : \A b \in Byte : i + b \in Int /\ i + 0 \in Int
BY SMT DEF Byte

LEMMA PickType == \A c, w : w \in Nat => Pick(c, w) \in {0, w}
BY DEF Pick

LEMMA BitTypes ==
  ASSUME NEW a \in Byte, NEW b \in Byte
  PROVE  BitOr(a, b) \in Byte /\ BitAnd(a, b) \in Byte /\ BitXor(a, b) \in Byte
BY PickType, SMT DEF BitOr, BitAnd, BitXor, FromBits, Byte

LEMMA AluTypes ==
  ASSUME NEW n \in 0..15, NEW a \in Byte, NEW b \in Byte
  PROVE  AluResult(n, a, b) \in Byte /\ AluFlagBit(n, a, b) \in 0..1
<1>1. AluFlagBit(n, a, b) \in 0..1
  BY SMT DEF AluFlagBit, Pick
<1>2. /\ (a + b) % 256 \in Byte /\ (a - b) % 256 \in Byte /\ a \div 2 \in Byte
      /\ (b - a) % 256 \in Byte /\ (2 * a) % 256 \in Byte
  BY SMT DEF Byte
<1>3. AluResult(n, a, b) \in Byte
  BY <1>2, BitTypes DEF AluResult
<1> QED BY <1>1, <1>3

LEMMA BcdType == ASSUME NEW b \in Byte, NEW k \in 0..2 PROVE BcdDigit(k, b) \in Byte
BY SMT DEF BcdDigit, Byte

LEMMA LfsrType == \A r \in Byte : LfsrNext(r) \in Byte
BY PickType, SMT DEF LfsrNext, Byte

(* The one nonzero byte whose shift is zero, 128, feeds a one back. *)
LEMMA LfsrNonzero == \A r \in Byte : r # 0 => LfsrNext(r) # 0
<1> SUFFICES ASSUME NEW r \in Byte, r # 0 PROVE LfsrNext(r) # 0
  OBVIOUS
<1>1. CASE r = 128
  BY <1>1, SMT DEF LfsrNext, HasBit, Pick
<1>2. CASE r # 128
  <2>1. (2 * r) % 256 \in Nat /\ (2 * r) % 256 # 0
    BY <1>2, SMT DEF Byte
  <2> QED BY <2>1, PickType, SMT DEF LfsrNext
<1> QED BY <1>1, <1>2

LEMMA FontAddrType == \A v \in Byte : FontAddr(v) \in Addr
BY WrapType, SMT DEF FontAddr, Byte

(* The priority encoder returns a key: a nonempty set of keys has a least. *)
LEMMA FirstPressedType ==
  ASSUME NEW keys \in KeySets, keys # {} PROVE FirstPressed(keys) \in Byte
<1>1. keys \subseteq Reg
  BY CoreAssumption
<1>2. \E k \in keys : \A j \in keys : k <= j
  <2>1. Reg \subseteq Nat
    BY SMT DEF Reg
  <2>2. PICK k \in keys : \A j \in keys : <<j, k>> \notin OpToRel(<, Nat)
    BY <1>1, <2>1, WFMin, NatLessThanWellFounded, Zenon
  <2>3. \A j \in keys : ~(j < k)
    BY <1>1, <2>1, <2>2, Zenon DEF OpToRel
  <2> QED BY <1>1, <2>1, <2>3, SMT
<1>3. FirstPressed(keys) \in keys
  BY <1>2 DEF FirstPressed
<1>4. Reg \subseteq Byte
  BY SMT DEF Reg, Byte
<1> QED BY <1>1, <1>3, <1>4

LEMMA SpotType ==
  ASSUME NEW x \in 0..(Width - 1), NEW y \in 0..(Height - 1), NEW b \in 0..7, NEW row \in 0..15
  PROVE  SpritePixel(x, y, b, row) \in Pixel
<1>1. (x + b) % Width \in 0..(Width - 1) /\ (y + row) % Height \in 0..(Height - 1)
  BY DisplayAssumption, SMT
<1> QED BY <1>1 DEF SpritePixel, Pixel

-----------------------------------------------------------------------------
(* Type correctness: what the FSM drives, then what every clock drives. *)

ControlTypes ==
  /\ halted \in BOOLEAN /\ fetchValid \in BOOLEAN
  /\ state \in States /\ pc \in Addr /\ opcode \in Opcode
  /\ index \in Addr /\ V \in [Reg -> Byte]
  /\ stack \in [mem : [0..(StackDepth - 1) -> Addr], sp : 0..(StackDepth - 1),
                depth : 0..StackDepth]
  /\ draw \in DrawState /\ burst \in [idx : Reg, x : Reg] /\ flag \in 0..1

ClockedTypes ==
  /\ enable \in BOOLEAN /\ fault \in BOOLEAN /\ rng \in Byte
  /\ ram \in [Addr -> Byte] /\ rdata \in Byte \X Byte
  /\ write \in Write /\ loadSkid \in Write /\ loadWrite \in Write
  /\ pfq \in [valid : BOOLEAN, pc : Addr, opcode : Opcode]
  /\ timers \in [delay : Byte, sound : Byte, count : 0..(TicksPerPulse - 1), tick : BOOLEAN]
  /\ fb \subseteq Pixel

LEMMA TypeParts == TypeOK <=> ControlTypes /\ ClockedTypes
BY DEF TypeOK, ControlTypes, ClockedTypes

LEMMA ZeroTypes ==
  /\ 0 \in Addr /\ 0 \in Byte /\ 0 \in Opcode /\ 0 \in Reg /\ Seed \in Byte
  /\ RomBase \in Addr /\ NoWrite \in Write /\ NoDraw \in DrawState
  /\ NoBurst \in [idx : Reg, x : Reg]
  /\ NoEntry \in [valid : BOOLEAN, pc : Addr, opcode : Opcode]
<1>1. 0 \in Addr /\ 0 \in Byte /\ 0 \in Opcode /\ 0 \in Reg /\ Seed \in Byte /\ RomBase \in Addr
  BY AddrSpaceAssumption, CoreAssumption, MaxOpcodeType, SMT DEF Addr, Byte, Opcode, Reg, Seed
<1>2. NoWrite \in Write /\ NoBurst \in [idx : Reg, x : Reg]
  BY <1>1 DEF NoWrite, Write, NoBurst
<1>3. NoEntry \in [valid : BOOLEAN, pc : Addr, opcode : Opcode]
  BY <1>1 DEF NoEntry
<1>4. 0 \in 0..(Width - 1) /\ 0 \in 0..(Height - 1) /\ 0 \in 0..15 /\ 0 \in 0..7
  BY DisplayAssumption, SMT
<1>5. NoDraw \in DrawState
  BY <1>1, <1>4 DEF NoDraw, DrawState
<1> QED BY <1>1, <1>2, <1>3, <1>5

LEMMA MemType == ASSUME TypeOK PROVE Mem \in [Addr -> Byte]
BY CoreAssumption DEF TypeOK, Mem, Addr

LEMMA FetchedType == ASSUME TypeOK PROVE Fetched \in Opcode
<1>1. rdata[1] \in Byte /\ rdata[2] \in Byte
  BY DEF TypeOK
<1> QED BY <1>1, ByteSums DEF Fetched

LEMMA OffsetTypes ==
  ASSUME TypeOK
  PROVE  /\ pc \in Int /\ index \in Int /\ burst.idx \in Reg /\ draw.row \in 0..15
         /\ index + burst.idx \in Int /\ index + draw.row \in Int
<1>1. burst.idx \in Reg /\ draw.row \in 0..15 /\ pc \in Addr /\ index \in Addr
  BY DEF TypeOK, DrawState
<1> QED BY <1>1, AddrSpaceAssumption, SMT DEF Addr, Reg

LEMMA RegTypes ==
  ASSUME TypeOK
  PROVE  X \in Reg /\ Y \in Reg /\ V[X] \in Byte /\ V[Y] \in Byte
BY FieldTypes DEF TypeOK, X, Y

LEMMA NextTypes ==
  ASSUME TypeOK PROVE Next2 \in Addr /\ Next4 \in Addr
<1>1. pc + 2 \in Int /\ pc + 4 \in Int
  BY AddrSpaceAssumption, SMT DEF TypeOK, Addr
<1> QED BY <1>1, WrapType DEF Next2, Next4

LEMMA ReadAddrType == ASSUME TypeOK PROVE ReadAddr \in Addr \X Addr
<1>1. pc + 2 + 0 \in Int /\ pc + 2 + 1 \in Int /\ pc + 0 \in Int /\ pc + 1 \in Int
  BY OffsetTypes, SMT
<1>2. FetchAddr(0) \in Addr /\ FetchAddr(1) \in Addr
  BY <1>1, WrapType DEF FetchAddr
<1> QED BY OffsetTypes, <1>2, WrapType DEF ReadAddr

LEMMA CpuWriteType == ASSUME TypeOK PROVE CpuWrite \in Write
<1>1. /\ index + burst.idx \in Int /\ index + 0 \in Int /\ index + 1 \in Int /\ index + 2 \in Int
      /\ V[burst.idx] \in Byte
  BY OffsetTypes, SMT DEF TypeOK
<1>2. BcdDigit(0, V[X]) \in Byte /\ BcdDigit(1, V[X]) \in Byte /\ BcdDigit(2, V[X]) \in Byte
  BY RegTypes, BcdType
<1>3. /\ Wrap(index + burst.idx) \in Addr /\ Wrap(index + 0) \in Addr
      /\ Wrap(index + 1) \in Addr /\ Wrap(index + 2) \in Addr
  BY <1>1, WrapType
<1> HIDE DEF Wrap
<1> QED BY <1>1, <1>2, <1>3, ZeroTypes DEF CpuWrite, Write

LEMMA ClockTypes == ASSUME TypeOK, Clock PROVE ClockedTypes'
<1> USE DEF Clock
<1>1. ArbWrite \in Write
  BY CpuWriteType DEF TypeOK, ArbWrite
<1>2. ram' \in [Addr -> Byte]
  BY DEF TypeOK, Memory, Write
<1>3. rdata' \in Byte \X Byte
  BY MemType, ReadAddrType DEF Memory
<1>4. write' \in Write
  BY <1>1 DEF Memory
<1>5. loadSkid' \in Write
  BY CoreAssumption, ZeroTypes DEF Loader
<1>6. loadWrite' \in Write
  <2>1. RomBase + loadSkid.addr \in Int
    BY AddrSpaceAssumption, CoreAssumption, SMT DEF TypeOK, Write, Addr
  <2>2. Wrap(RomBase + loadSkid.addr) \in Addr
    BY <2>1, WrapType
  <2> QED BY <2>2, ZeroTypes DEF Loader, TypeOK, Write
<1>7. pfq' \in [valid : BOOLEAN, pc : Addr, opcode : Opcode]
  BY FetchedType DEF Prefetch, TypeOK
<1>8. timers' \in [delay : Byte, sound : Byte, count : 0..(TicksPerPulse - 1), tick : BOOLEAN]
  <2>1. \A t \in Byte : (IF timers.tick /\ t # 0 THEN t - 1 ELSE t) \in Byte
    BY SMT DEF Byte
  <2>2. (IF timers.count = TicksPerPulse - 1 THEN 0 ELSE timers.count + 1) \in 0..(TicksPerPulse - 1)
    BY CoreAssumption, SMT DEF TypeOK
  <2> QED BY <2>1, <2>2, RegTypes DEF Timers, Down, TypeOK
<1>9. fb' \subseteq Pixel
  <2>1. Spot \in Pixel
    BY SpotType DEF TypeOK, DrawState, Spot
  <2> QED BY <2>1 DEF Display, TypeOK
<1>10. rng' \in Byte
  BY LfsrType DEF Random, TypeOK
<1>11. fault' \in BOOLEAN
  BY DEF Faults, TypeOK
<1>12. enable' \in BOOLEAN
  BY DEF Enable
<1> QED
  BY <1>2, <1>3, <1>4, <1>5, <1>6, <1>7, <1>8, <1>9, <1>10, <1>11, <1>12 DEF ClockedTypes

LEMMA InitTypes == Init => TypeOK
<1> SUFFICES ASSUME Init PROVE TypeOK
  OBVIOUS
<1>1. EmptyStack \in [mem : [0..(StackDepth - 1) -> Addr], sp : 0..(StackDepth - 1),
                      depth : 0..StackDepth]
  BY CoreAssumption, ZeroTypes, SMT DEF EmptyStack
<1>2. NoTime \in [delay : Byte, sound : Byte, count : 0..(TicksPerPulse - 1), tick : BOOLEAN]
  BY CoreAssumption, ZeroTypes, SMT DEF NoTime
<1>3. "FETCH" \in States
  BY DEF States
<1>4. V \in [Reg -> Byte] /\ flag \in 0..1 /\ index \in Addr /\ opcode \in Opcode
  BY ZeroTypes, SMT DEF Init
<1>5. ControlTypes
  BY <1>1, <1>3, <1>4, ZeroTypes DEF Init, ControlTypes
<1>6. /\ ram \in [Addr -> Byte] /\ rdata \in Byte \X Byte /\ fb \subseteq Pixel
      /\ enable \in BOOLEAN /\ fault \in BOOLEAN
  BY CoreAssumption, ZeroTypes DEF Init
<1>7. ClockedTypes
  BY <1>2, <1>6, ZeroTypes DEF Init, ClockedTypes
<1> QED BY <1>5, <1>7, TypeParts

(* A step is typed once the registers its FSM state drives are. *)
LEMMA StepTypes == ASSUME TypeOK, ControlTypes', Clock PROVE TypeOK'
BY ClockTypes, TypeParts DEF ControlTypes, ClockedTypes, TypeOK

(* The frame shared by the actions that only move the FSM. *)
LEMMA GotoTypes ==
  ASSUME TypeOK, NEW s \in States, Goto(s), UNCHANGED <<opcode, regs, seqs>>
  PROVE  ControlTypes'
BY DEF Goto, regs, seqs, TypeOK, ControlTypes

LEMMA AdvanceTypes ==
  ASSUME TypeOK, NEW a \in Addr, Advance(a), flag' \in 0..1,
         index' \in Addr, V' \in [Reg -> Byte],
         stack' \in [mem : [0..(StackDepth - 1) -> Addr], sp : 0..(StackDepth - 1),
                     depth : 0..StackDepth]
  PROVE  TypeOK'
<1>1. "FETCH" \in States
  BY DEF States
<1>2. Eligible \in BOOLEAN
  BY DEF Eligible, Executing, Active
<1>3. ControlTypes'
  BY <1>1, <1>2 DEF Advance, TypeOK, ControlTypes
<1> QED BY <1>3, StepTypes DEF Advance

LEMMA RetireTypes ==
  ASSUME TypeOK, NEW a \in Addr, Retire(a),
         index' \in Addr, V' \in [Reg -> Byte],
         stack' \in [mem : [0..(StackDepth - 1) -> Addr], sp : 0..(StackDepth - 1),
                     depth : 0..StackDepth]
  PROVE  TypeOK'
BY AdvanceTypes DEF Retire, TypeOK

LEMMA ExecuteTypes == ASSUME TypeOK, Execute PROVE TypeOK'
<1> USE RegTypes, NextTypes
<1>a. opcode \in Opcode /\ V \in [Reg -> Byte] /\ index \in Addr
  BY DEF TypeOK
<1>f. /\ Nib(opcode) \in 0..15 /\ Imm(opcode) \in Byte /\ NNN(opcode) \in Int
      /\ X \in Reg
  BY <1>a, FieldTypes
<1>s. stack \in [mem : [0..(StackDepth - 1) -> Addr], sp : 0..(StackDepth - 1),
                 depth : 0..StackDepth]
  BY DEF TypeOK
<1>w. Wrap(NNN(opcode)) \in Addr
  BY <1>f, WrapType
<1>1. CASE ExecCls
  BY <1>1, <1>a, <1>s, RetireTypes DEF ExecCls, regs
<1>2. CASE ExecCall
  <2>1. stack.depth # StackDepth => stack.depth + 1 \in 0..StackDepth
    BY <1>s, CoreAssumption, SMT
  <2>2. (stack.sp + 1) % StackDepth \in 0..(StackDepth - 1)
    BY <1>s, CoreAssumption, SMT
  <2>3. stack' \in [mem : [0..(StackDepth - 1) -> Addr], sp : 0..(StackDepth - 1),
                    depth : 0..StackDepth]
    BY <1>2, <1>a, <1>s, <2>1, <2>2 DEF ExecCall, Pushed
  <2> QED BY <1>2, <1>a, <1>w, <2>3, RetireTypes DEF ExecCall
<1>3. CASE ExecRet
  <2>1. Below \in 0..(StackDepth - 1)
    BY <1>s, CoreAssumption, SMT DEF Below
  <2>2. stack.depth # 0 => stack.depth - 1 \in 0..StackDepth
    BY <1>s, CoreAssumption, SMT
  <2>3. stack.mem[Below] \in Addr
    BY <1>s, <2>1
  <2>4. stack' \in [mem : [0..(StackDepth - 1) -> Addr], sp : 0..(StackDepth - 1),
                    depth : 0..StackDepth]
    BY <1>3, <1>s, <2>1, <2>2 DEF ExecRet, Popped
  <2> QED BY <1>3, <1>a, <2>3, <2>4, RetireTypes DEF ExecRet
<1>4. CASE ExecJump
  <2>1. NNN(opcode) + (IF Op(opcode) = "JUMP_V0" THEN V[0] ELSE 0) \in Int
    BY <1>a, <1>f, ZeroTypes, IntSums
  <2> QED BY <1>4, <1>a, <1>s, <2>1, WrapType, RetireTypes DEF ExecJump, regs
<1>5. CASE ExecSkip
  BY <1>5, <1>a, <1>s, RetireTypes DEF ExecSkip, regs
<1>6. CASE ExecKeySkip
  BY <1>6, <1>a, <1>s, RetireTypes DEF ExecKeySkip, regs
<1>7. CASE ExecReg
  <2>1. (V[X] + Imm(opcode)) % 256 \in Byte
    BY <1>f, ByteSums
  <2>2. BitAnd(LfsrNext(rng), Imm(opcode)) \in Byte
    BY <1>f, BitTypes, LfsrType DEF TypeOK
  <2>3. timers.delay \in Byte
    BY DEF TypeOK
  <2>4. V' \in [Reg -> Byte]
    BY <1>7, <1>a, <1>f, <2>1, <2>2, <2>3 DEF ExecReg, Exec, SetV
  <2> QED BY <1>7, <1>a, <1>s, <2>4, RetireTypes DEF ExecReg
<1>8. CASE ExecAlu
  <2>1. V' \in [Reg -> Byte] /\ flag' \in 0..1
    BY <1>8, <1>a, <1>f, AluTypes DEF ExecAlu, SetV
  <2> QED BY <1>8, <1>a, <1>s, <2>1, AdvanceTypes DEF ExecAlu
<1>9. CASE ExecAluFlag
  <2>1. V' \in [Reg -> Byte] /\ flag' \in 0..1
    BY <1>9, <1>a, <1>f, AluTypes DEF ExecAluFlag, SetV
  <2>2. ControlTypes'
    BY <1>9, <2>1 DEF ExecAluFlag, TypeOK, ControlTypes, States
  <2> QED BY <1>9, <2>2, StepTypes DEF ExecAluFlag
<1>10. CASE ExecIndex
  <2>1. index + V[X] \in Int
    BY OffsetTypes, SMT DEF Byte
  <2>2. index' \in Addr
    BY <1>10, <1>w, <2>1, WrapType, FontAddrType DEF ExecIndex, Exec
  <2> QED BY <1>10, <1>a, <1>s, <2>2, RetireTypes DEF ExecIndex
<1>11. CASE ExecTimer
  BY <1>11, <1>a, <1>s, RetireTypes DEF ExecTimer, regs
<1>12. CASE ExecDraw
  <2>1. V[X] % Width \in 0..(Width - 1) /\ V[Y] % Height \in 0..(Height - 1)
    BY DisplayAssumption, SMTT(30) DEF Byte
  <2>2. draw' \in DrawState
    BY <1>12, <1>f, <2>1, ZeroTypes DEF ExecDraw, DrawState, NoDraw
  <2>3. ControlTypes'
    BY <1>12, <2>2 DEF ExecDraw, TypeOK, ControlTypes, States, regs
  <2> QED BY <1>12, <2>3, StepTypes DEF ExecDraw
<1>13. CASE ExecBurst
  <2>1. burst' \in [idx : Reg, x : Reg]
    BY <1>13, <1>f, ZeroTypes DEF ExecBurst, TypeOK
  <2>2. state' \in States
    BY <1>13 DEF ExecBurst, Exec, States
  <2>3. ControlTypes'
    BY <1>13, <2>1, <2>2 DEF ExecBurst, TypeOK, ControlTypes, regs
  <2> QED BY <1>13, <2>3, StepTypes DEF ExecBurst
<1>14. CASE ExecWaitKey
  <2>1. "WAIT_KEY" \in States
    BY DEF States
  <2>2. ControlTypes'
    BY <1>14, <2>1, GotoTypes DEF ExecWaitKey
  <2> QED BY <1>14, <2>2, StepTypes DEF ExecWaitKey
<1>15. CASE ExecIllegal
  <2>1. state' \in States
    BY <1>15 DEF ExecIllegal, States
  <2>2. ControlTypes'
    BY <1>15, <2>1 DEF ExecIllegal, TypeOK, ControlTypes, regs, seqs
  <2> QED BY <1>15, <2>2, StepTypes DEF ExecIllegal
<1> QED
  BY <1>1, <1>2, <1>3, <1>4, <1>5, <1>6, <1>7, <1>8, <1>9, <1>10, <1>11, <1>12, <1>13,
     <1>14, <1>15 DEF Execute

LEMMA ContinueTypes == ASSUME TypeOK, Continue PROVE TypeOK'
<1>a. /\ V \in [Reg -> Byte] /\ draw \in DrawState /\ burst \in [idx : Reg, x : Reg]
      /\ rdata[1] \in Byte /\ rdata[2] \in Byte /\ X \in Reg /\ flag \in 0..1
  BY RegTypes DEF TypeOK
<1>b. \A k \in Reg : (k + 1) % 16 \in Reg
  BY SMT DEF Reg
<1>c. VF \in Reg /\ \A c : Pick(c, 1) \in Byte
  BY PickType, SMT DEF VF, Reg, Byte
<1>d. Collide \in BOOLEAN
  BY <1>a DEF Collide, PixelOn, Active, DrawState
<1>e. /\ "FETCH" \in States /\ "STORE" \in States /\ "LOAD" \in States
      /\ "MEM_READ" \in States /\ "DRAW" \in States /\ "WAIT_KEY" \in States
      /\ "BCD1" \in States /\ "BCD2" \in States
  BY DEF States
<1>1. CASE AluFlagWrite
  <2>1. V' \in [Reg -> Byte]
    <3>1. flag \in Byte
      BY <1>a, SMT DEF Byte
    <3> QED BY <1>1, <1>a, <3>1 DEF AluFlagWrite, SetV
  <2>2. ControlTypes'
    BY <1>1, <1>e, <2>1 DEF AluFlagWrite, Goto, seqs, TypeOK, ControlTypes
  <2> QED BY <1>1, <2>2, StepTypes DEF AluFlagWrite
<1>2. CASE WaitKey
  <2>1. PICK keys \in KeySets :
          IF keys = {} THEN Goto("WAIT_KEY") /\ UNCHANGED V
          ELSE /\ SetV(X, FirstPressed(keys))
               /\ pc' = Next2 /\ state' = "FETCH" /\ fetchValid' = FALSE
               /\ UNCHANGED halted
    BY <1>2 DEF WaitKey
  <2>2. CASE keys = {}
    <3>1. ControlTypes'
      BY <1>2, <1>e, <2>1, <2>2 DEF WaitKey, Goto, seqs, TypeOK, ControlTypes
    <3> QED BY <1>2, <3>1, StepTypes DEF WaitKey
  <2>3. CASE keys # {}
    <3>1. FirstPressed(keys) \in Byte
      BY <2>3, FirstPressedType
    <3>2. V' \in [Reg -> Byte]
      BY <1>a, <2>1, <2>3, <3>1 DEF SetV
    <3>3. ControlTypes'
      BY <1>2, <1>e, <2>1, <2>3, <3>2, NextTypes DEF WaitKey, seqs, TypeOK, ControlTypes
    <3> QED BY <1>2, <3>3, StepTypes DEF WaitKey
  <2> QED BY <2>2, <2>3
<1>3. CASE Bcd
  <2>1. ControlTypes'
    BY <1>3, <1>e DEF Bcd, Goto, regs, seqs, TypeOK, ControlTypes
  <2> QED BY <1>3, <2>1, StepTypes DEF Bcd
<1>4. CASE Store
  <2>1. burst' \in [idx : Reg, x : Reg]
    BY <1>4, <1>a, <1>b DEF Store, BurstNext
  <2>2. ControlTypes'
    BY <1>4, <1>e, <2>1 DEF Store, BurstNext, Goto, regs, TypeOK, ControlTypes
  <2> QED BY <1>4, <2>2, StepTypes DEF Store
<1>5. CASE LoadRead
  <2>1. ControlTypes'
    BY <1>5, <1>e, GotoTypes DEF LoadRead
  <2> QED BY <1>5, <2>1, StepTypes DEF LoadRead
<1>6. CASE LoadCommit
  <2>1. burst' \in [idx : Reg, x : Reg]
    BY <1>6, <1>a, <1>b DEF LoadCommit, BurstNext
  <2>2. V' \in [Reg -> Byte]
    BY <1>6, <1>a DEF LoadCommit, SetV
  <2>3. ControlTypes'
    BY <1>6, <1>e, <2>1, <2>2 DEF LoadCommit, BurstNext, Goto, TypeOK, ControlTypes
  <2> QED BY <1>6, <2>3, StepTypes DEF LoadCommit
<1>7. CASE DrawRead
  <2>1. ControlTypes'
    BY <1>7, <1>e, GotoTypes DEF DrawRead
  <2> QED BY <1>7, <2>1, StepTypes DEF DrawRead
<1>8. CASE DrawLatch
  <2>1. draw' \in DrawState
    BY <1>8, <1>a DEF DrawLatch, DrawState
  <2>2. ControlTypes'
    BY <1>8, <1>e, <2>1 DEF DrawLatch, Goto, regs, TypeOK, ControlTypes
  <2> QED BY <1>8, <2>2, StepTypes DEF DrawLatch
<1>9. CASE DrawPixel
  <2>1. draw.bit + 1 \in 0..7
    BY <1>9, <1>a, SMT DEF DrawPixel, DrawState
  <2>2. draw' \in DrawState
    BY <1>9, <1>a, <1>d, <2>1 DEF DrawPixel, DrawState
  <2>3. ControlTypes'
    BY <1>9, <1>e, <2>2 DEF DrawPixel, Goto, regs, TypeOK, ControlTypes
  <2> QED BY <1>9, <2>3, StepTypes DEF DrawPixel
<1>10. CASE DrawRowEnd
  <2>1. (draw.row + 1) % 16 \in 0..15 /\ 0 \in 0..7
    BY <1>a, SMT DEF DrawState
  <2>2. draw' \in DrawState
    BY <1>10, <1>a, <1>d, <2>1 DEF DrawRowEnd, DrawState
  <2>3. ControlTypes'
    BY <1>10, <1>e, <2>2 DEF DrawRowEnd, Goto, regs, TypeOK, ControlTypes
  <2> QED BY <1>10, <2>3, StepTypes DEF DrawRowEnd
<1>11. CASE DrawEnd
  <2>1. 0 \in 0..7
    BY SMT
  <2>2. draw' \in DrawState
    BY <1>11, <1>a, <1>d, <2>1 DEF DrawEnd, DrawState
  <2>3. V' \in [Reg -> Byte]
    BY <1>11, <1>a, <1>c DEF DrawEnd, SetV
  <2>4. ControlTypes'
    BY <1>11, <1>e, <2>2, <2>3 DEF DrawEnd, Goto, TypeOK, ControlTypes
  <2> QED BY <1>11, <2>4, StepTypes DEF DrawEnd
<1> QED
  BY <1>1, <1>2, <1>3, <1>4, <1>5, <1>6, <1>7, <1>8, <1>9, <1>10, <1>11 DEF Continue

LEMMA TickTypes == ASSUME TypeOK, Tick PROVE TypeOK'
<1>1. CASE FetchHit
  <2>1. opcode' \in Opcode
    BY <1>1, FetchedType DEF FetchHit, HitOpcode, TypeOK
  <2>2. ControlTypes'
    BY <1>1, <2>1 DEF FetchHit, Goto, regs, seqs, TypeOK, ControlTypes, States
  <2> QED BY <1>1, <2>2, StepTypes DEF FetchHit
<1>2. CASE FetchMiss
  <2>1. ControlTypes'
    BY <1>2 DEF FetchMiss, Goto, regs, seqs, TypeOK, ControlTypes, States
  <2> QED BY <1>2, <2>1, StepTypes DEF FetchMiss
<1>3. CASE Decode
  <2>1. ControlTypes'
    BY <1>3, FetchedType DEF Decode, Goto, regs, seqs, TypeOK, ControlTypes, States
  <2> QED BY <1>3, <2>1, StepTypes DEF Decode
<1>4. CASE Execute
  BY <1>4, ExecuteTypes
<1>5. CASE Continue
  BY <1>5, ContinueTypes
<1>6. CASE Halted
  <2>1. ControlTypes'
    BY <1>6 DEF Halted, regs, seqs, TypeOK, ControlTypes
  <2> QED BY <1>6, <2>1, StepTypes DEF Halted
<1>7. CASE Held
  <2>1. flag' \in 0..1
    BY <1>7, SMT DEF Held
  <2>2. ControlTypes'
    BY <1>7, <2>1, ZeroTypes DEF Held, TypeOK, ControlTypes, States
  <2> QED BY <1>7, <2>2, StepTypes DEF Held
<1> QED BY <1>1, <1>2, <1>3, <1>4, <1>5, <1>6, <1>7 DEF Tick

LEMMA ResetTypes == ASSUME TypeOK, Reset PROVE TypeOK'
<1>1. EmptyStack \in [mem : [0..(StackDepth - 1) -> Addr], sp : 0..(StackDepth - 1),
                      depth : 0..StackDepth]
  BY CoreAssumption, ZeroTypes, SMT DEF EmptyStack
<1>2. NoTime \in [delay : Byte, sound : Byte, count : 0..(TicksPerPulse - 1), tick : BOOLEAN]
  BY CoreAssumption, ZeroTypes, SMT DEF NoTime
<1>3. V' \in [Reg -> Byte] /\ flag' \in 0..1
  BY ZeroTypes, SMT DEF Reset
<1>4. ControlTypes'
  BY <1>1, <1>3, ZeroTypes DEF Reset, ControlTypes, States
<1>5. ClockedTypes'
  BY <1>2, ZeroTypes DEF Reset, TypeOK, ClockedTypes
<1> QED BY <1>4, <1>5, TypeParts DEF ControlTypes, ClockedTypes, TypeOK

LEMMA NextTypeOK == ASSUME TypeOK, [Next]_vars PROVE TypeOK'
<1>1. CASE UNCHANGED vars
  BY <1>1 DEF vars, fsm, regs, seqs, TypeOK
<1> QED BY <1>1, TickTypes, ResetTypes DEF Next

(* Every register keeps a value of its width: no operand, address, counter  *)
(* or loop variable of the core leaves its range in any reachable state.    *)
THEOREM TypeCorrect == Spec => []TypeOK
BY InitTypes, NextTypeOK, PTL DEF Spec

-----------------------------------------------------------------------------
(* The read-ahead path. *)

LEMMA TickClocks == Tick => Clock
BY DEF Tick, FetchHit, FetchMiss, Decode, Execute, ExecCls, ExecCall, ExecRet, ExecJump,
       ExecSkip, ExecKeySkip, ExecReg, ExecAlu, ExecAluFlag, ExecIndex, ExecTimer, ExecDraw,
       ExecBurst, ExecWaitKey, ExecIllegal, Retire, Advance, Continue, AluFlagWrite, WaitKey, Bcd,
       Store, LoadRead, LoadCommit, DrawRead, DrawLatch, DrawPixel, DrawRowEnd, DrawEnd,
       Halted, Held

(* An operation that may be read ahead is none of the others. *)
LEMMA SequentialOps ==
  Eligible => \/ SysCls(opcode) /\ Op(opcode) = "SYS"
              \/ Op(opcode) = "ALU" /\ AluSimple(opcode)
              \/ Op(opcode) \in {"LOAD_IMM", "ADD_IMM", "RANDOM", "TIMER_READ", "LOAD_I",
                                 "ADD_I", "FONT_ADDR", "TIMER_DELAY_WRITE",
                                 "TIMER_SOUND_WRITE"}
<1>1. ASSUME SysCls(opcode) PROVE Op(opcode) = "SYS"
  <2>1. opcode \div 4096 = 0
    BY <1>1, SMT DEF SysCls
  <2> QED BY <2>1, SMT DEF Op, Class
<1> QED BY <1>1 DEF Eligible, Sequential, ReadAhead

(* The flag of the ALU operations is exclusive of the simple ones. *)
LEMMA AluExclusive == AluSimple(opcode) => ~AluFlag(opcode)
BY SMT DEF AluSimple, AluFlag

(* After a read-ahead operation the core is in FETCH at the next opcode,    *)
(* with the fill pending.                                                   *)
LEMMA EligibleRetires ==
  ASSUME Tick, Eligible PROVE state' = "FETCH" /\ pc' = Next2 /\ fetchValid'
<1>1. Executing /\ Legal(opcode) /\ state = "EXEC"
  BY DEF Eligible, Executing
<1>2. Execute
  BY <1>1 DEF Tick, Executing, Active, FetchHit, FetchMiss, Decode, Continue, AluFlagWrite,
     WaitKey, Bcd, Store, LoadRead, LoadCommit, DrawRead, DrawLatch, DrawPixel, DrawRowEnd,
     DrawEnd, Halted, Held
<1>3. ~SysRet(opcode) \/ ~SysCls(opcode)
  BY SMT DEF SysRet, SysCls
<1>4. ExecCls \/ ExecAlu \/ ExecReg \/ ExecIndex \/ ExecTimer
  BY <1>1, <1>2, <1>3, SequentialOps, AluExclusive DEF Execute, Exec, ExecCall, ExecRet,
     ExecJump, ExecSkip, ExecKeySkip, ExecAluFlag, ExecDraw, ExecBurst, ExecWaitKey,
     ExecIllegal
<1> QED BY <1>4 DEF ExecCls, ExecAlu, ExecReg, ExecIndex, ExecTimer, Retire, Advance

(* A fill is pending only after the EXEC cycle of a read-ahead operation.   *)
LEMMA FillSource == ASSUME Tick, Fill' PROVE Eligible
BY DEF Fill, Tick, FetchHit, FetchMiss, Decode, Execute, ExecCls, ExecCall, ExecRet,
       ExecJump, ExecSkip, ExecKeySkip, ExecReg, ExecAlu, ExecAluFlag, ExecIndex, ExecTimer,
       ExecDraw, ExecBurst, ExecWaitKey, ExecIllegal, Retire, Advance, Continue, AluFlagWrite,
       WaitKey, Bcd, Store, LoadRead, LoadCommit, DrawRead, DrawLatch, DrawPixel, DrawRowEnd,
       DrawEnd, Halted, Held, Goto, BurstNext

(* A valid entry is in flight: the fill of this cycle put it there, and the *)
(* EXEC that follows flushes it or replaces it by the next fill.            *)
FillLive      == fetchValid => ~halted
EntryInFlight == pfq.valid => state = "EXEC" \/ Fill

LEMMA FillLiveStep == ASSUME FillLive, Tick PROVE FillLive'
BY DEF FillLive, Tick, FetchHit, FetchMiss, Decode, Execute, ExecCls, ExecCall, ExecRet,
       ExecJump, ExecSkip, ExecKeySkip, ExecReg, ExecAlu, ExecAluFlag, ExecIndex, ExecTimer,
       ExecDraw, ExecBurst, ExecWaitKey, ExecIllegal, Retire, Advance, Continue, AluFlagWrite,
       WaitKey, Bcd, Store, LoadRead, LoadCommit, DrawRead, DrawLatch, DrawPixel, DrawRowEnd,
       DrawEnd, Halted, Held, Goto, BurstNext, Executing, Active, Exec

LEMMA EntryStep == ASSUME TypeOK, FillLive, EntryInFlight, Tick PROVE EntryInFlight'
<1> SUFFICES ASSUME pfq'.valid PROVE (state = "EXEC" \/ Fill)'
  BY DEF EntryInFlight
<1>1. ~Flush /\ (Fill \/ pfq.valid)
  BY TickClocks DEF Clock, Prefetch, TypeOK
<1>2. CASE Fill
  <2>1. Active /\ state = "FETCH" /\ Hit
    BY <1>1, <1>2 DEF Flush, Fill, FillLive, Hit, Active
  <2>2. FetchHit
    BY <2>1 DEF Tick, Active, FetchMiss, Decode, Execute, ExecCls, ExecCall, ExecRet,
       ExecJump, ExecSkip, ExecKeySkip, ExecReg, ExecAlu, ExecAluFlag, ExecIndex, ExecTimer,
       ExecDraw, ExecBurst, ExecWaitKey, ExecIllegal, Continue, AluFlagWrite,
       WaitKey, Bcd, Store, LoadRead, LoadCommit, DrawRead, DrawLatch, DrawPixel, DrawRowEnd,
       DrawEnd, Halted, Held, Exec, Executing
  <2> QED BY <2>2 DEF FetchHit, Goto
<1>3. CASE ~Fill
  <2>1. Eligible
    BY <1>1, <1>3 DEF EntryInFlight, Flush
  <2> QED BY <2>1, EligibleRetires DEF Fill
<1> QED BY <1>2, <1>3

LEMMA EntryInv == Spec => [](TypeOK /\ FillLive /\ EntryInFlight)
<1> DEFINE Inv == TypeOK /\ FillLive /\ EntryInFlight
<1>1. Init => Inv
  BY InitTypes DEF Init, FillLive, EntryInFlight, NoEntry
<1>2. Inv /\ [Next]_vars => Inv'
  <2> SUFFICES ASSUME Inv, [Next]_vars PROVE Inv'
    OBVIOUS
  <2>1. CASE Tick
    BY <2>1, NextTypeOK, FillLiveStep, EntryStep
  <2>2. CASE Reset
    BY <2>2, NextTypeOK DEF Reset, FillLive, EntryInFlight, NoEntry
  <2>3. CASE UNCHANGED vars
    BY <2>3, NextTypeOK DEF vars, fsm, FillLive, EntryInFlight, Fill
  <2> QED BY <2>1, <2>2, <2>3 DEF Next
<1> QED BY <1>1, <1>2, PTL DEF Spec

(* The stored entry of the prefetch queue never answers a fetch: in FETCH   *)
(* an opcode comes from the fill of the same cycle or from memory.          *)
THEOREM StoredEntryNeverUsed == Spec => []StoredEntryUnused
<1>1. EntryInFlight => StoredEntryUnused
  BY DEF EntryInFlight, StoredEntryUnused, Fill
<1> QED BY <1>1, EntryInv, PTL

-----------------------------------------------------------------------------
(* Writes in flight while the core runs, with the load port silent then.    *)
LoaderQuiet == enable => ~loadSkid.we /\ ~loadWrite.we
WriteBound  ==
  enable /\ write.we => \/ state \in {"BCD1", "BCD2", "STORE"}
                        \/ state = "FETCH" /\ ~fetchValid

LEMMA WriteStep ==
  ASSUME LoadsWhileRunning = FALSE, TypeOK, LoaderQuiet, WriteBound, Tick
  PROVE  LoaderQuiet' /\ WriteBound'
<1>1. Memory /\ Loader /\ Enable
  BY TickClocks DEF Clock
<1>2. LoaderQuiet'
  BY <1>1 DEF LoaderQuiet, Loader, Enable, NoWrite, TypeOK
<1>3. WriteBound'
  <2> SUFFICES ASSUME enable', write'.we PROVE (\/ state \in {"BCD1", "BCD2", "STORE"}
                                                \/ state = "FETCH" /\ ~fetchValid)'
    BY DEF WriteBound
  <2>1. ~loadWrite.we
    BY <1>1 DEF Enable, LoaderQuiet
  <2>2. CpuWrite.we
    BY <1>1, <2>1 DEF Memory, ArbWrite
  <2>3. Active /\ state \in {"STORE", "BCD0", "BCD1", "BCD2"}
    BY <2>2 DEF CpuWrite, NoWrite
  <2>4. Store \/ Bcd
    BY <2>3 DEF Tick, Active, FetchHit, FetchMiss, Decode, Execute, ExecCls, ExecCall, ExecRet,
       ExecJump, ExecSkip, ExecKeySkip, ExecReg, ExecAlu, ExecAluFlag, ExecIndex, ExecTimer,
       ExecDraw, ExecBurst, ExecWaitKey, ExecIllegal, Continue, AluFlagWrite,
       WaitKey, LoadRead, LoadCommit, DrawRead, DrawLatch, DrawPixel, DrawRowEnd,
       DrawEnd, Halted, Held, Exec, Executing
  <2> QED BY <2>3, <2>4 DEF Store, Bcd, BurstNext, Goto
<1> QED BY <1>2, <1>3

LEMMA WriteInv ==
  ASSUME LoadsWhileRunning = FALSE
  PROVE  Spec => [](TypeOK /\ LoaderQuiet /\ WriteBound)
<1> DEFINE Inv == TypeOK /\ LoaderQuiet /\ WriteBound
<1>1. Init => Inv
  BY InitTypes DEF Init, LoaderQuiet, WriteBound, NoWrite
<1>2. Inv /\ [Next]_vars => Inv'
  <2> SUFFICES ASSUME Inv, [Next]_vars PROVE Inv'
    OBVIOUS
  <2>1. CASE Tick
    BY <2>1, NextTypeOK, WriteStep
  <2>2. CASE Reset
    BY <2>2, NextTypeOK DEF Reset, LoaderQuiet, WriteBound, NoWrite
  <2>3. CASE UNCHANGED vars
    BY <2>3, NextTypeOK DEF vars, fsm, LoaderQuiet, WriteBound
  <2> QED BY <2>1, <2>2, <2>3 DEF Next
<1> QED BY <1>1, <1>2, PTL DEF Spec

(* The address arithmetic of the read-ahead: two reads from pc + 2 are the  *)
(* opcode at the wrapped pc + 2, also across the end of the memory.         *)
LEMMA WrapTwice == \A a \in Addr : Wrap(Wrap(a + 2) + 1) = Wrap(a + 2 + 1)
BY AddrSpaceAssumption, SMT DEF Wrap, Addr

(* The EXEC cycle of a read-ahead operation writes nothing, so the opcode   *)
(* its reads return is the one in memory when FETCH uses it.                *)
LEMMA FillReadsMemory ==
  ASSUME LoadsWhileRunning = FALSE, TypeOK, LoaderQuiet, WriteBound, Tick, Fill'
  PROVE  (Fetched = OpcodeAt(pc))'
<1>1. Eligible /\ enable /\ state = "EXEC" /\ Op(opcode) # "DRAW"
  BY FillSource, SequentialOps DEF Eligible, Executing, Active
<1>2. pc' = Next2 /\ Memory
  BY <1>1, EligibleRetires, TickClocks DEF Clock
<1>3. ~write.we /\ write' = NoWrite
  BY <1>1, <1>2 DEF WriteBound, LoaderQuiet, Memory, ArbWrite, CpuWrite
<1>4. ArchMem' = Mem
  BY <1>2, <1>3 DEF ArchMem, Mem, Memory, NoWrite
<1>5. ReadAddr = <<Wrap(pc + 2 + 0), Wrap(pc + 2 + 1)>>
  BY <1>1 DEF ReadAddr, FetchAddr
<1>6. pc + 2 + 0 = pc + 2
  BY OffsetTypes, SMT
<1>7. rdata' = <<Mem[Next2], Mem[Wrap(Next2 + 1)]>>
  BY <1>2, <1>5, <1>6, WrapTwice DEF Memory, TypeOK, Next2
<1> QED BY <1>2, <1>4, <1>7 DEF Fetched, OpcodeAt

(* An opcode read ahead is the one memory holds when it is used, whatever   *)
(* the program, as long as the load port is silent while the core runs.     *)
THEOREM PrefetchNeverStale ==
  ASSUME LoadsWhileRunning = FALSE PROVE Spec => []PrefetchCoherent
<1> DEFINE Inv == TypeOK /\ LoaderQuiet /\ WriteBound
<1>1. Init => PrefetchCoherent
  BY DEF Init, PrefetchCoherent, Fill
<1>2. Inv /\ PrefetchCoherent /\ [Next]_vars => PrefetchCoherent'
  <2> SUFFICES ASSUME Inv, PrefetchCoherent, [Next]_vars PROVE PrefetchCoherent'
    OBVIOUS
  <2>1. CASE Tick
    BY <2>1, FillReadsMemory DEF PrefetchCoherent
  <2>2. CASE Reset
    BY <2>2 DEF Reset, PrefetchCoherent, Fill
  <2>3. CASE UNCHANGED vars
    BY <2>3 DEF vars, fsm, PrefetchCoherent, Fill, Fetched, OpcodeAt, ArchMem
  <2> QED BY <2>1, <2>2, <2>3 DEF Next
<1> QED BY <1>1, <1>2, WriteInv, PTL DEF Spec

-----------------------------------------------------------------------------
(* A halted core has recorded the illegal opcode it stopped on. *)

LEMMA HaltStep == ASSUME TypeOK, HaltRecorded, Tick PROVE HaltRecorded'
<1> SUFFICES ASSUME halted' PROVE (fault /\ ~Legal(opcode) /\ state \in {"FETCH", "TRAP"})'
  BY DEF HaltRecorded
<1>1. Faults
  BY TickClocks DEF Clock
<1>2. ExecIllegal \/ Halted
  BY DEF Tick, FetchHit, FetchMiss, Decode, Execute, ExecCls, ExecCall, ExecRet,
     ExecJump, ExecSkip, ExecKeySkip, ExecReg, ExecAlu, ExecAluFlag, ExecIndex, ExecTimer,
     ExecDraw, ExecBurst, ExecWaitKey, Retire, Advance, Continue, AluFlagWrite, WaitKey, Bcd, Store,
     LoadRead, LoadCommit, DrawRead, DrawLatch, DrawPixel, DrawRowEnd, DrawEnd, Held, Goto,
     BurstNext, Executing, Active, Exec, TypeOK
<1>3. CASE ExecIllegal
  BY <1>1, <1>3 DEF ExecIllegal, Faults, Executing, Active, Legal
<1>4. CASE Halted
  BY <1>1, <1>4 DEF Halted, Faults, HaltRecorded, Legal
<1> QED BY <1>2, <1>3, <1>4

(* Halting on an illegal opcode leaves a fault record, the opcode itself    *)
(* and an idle pipeline, until the core is disabled or reset.               *)
THEOREM HaltIsRecorded == Spec => []HaltRecorded
<1>1. Init => HaltRecorded
  BY DEF Init, HaltRecorded
<1>2. TypeOK /\ HaltRecorded /\ [Next]_vars => HaltRecorded'
  <2>1. ASSUME HaltRecorded, Reset PROVE HaltRecorded'
    BY <2>1 DEF Reset, HaltRecorded
  <2>2. ASSUME HaltRecorded, UNCHANGED vars PROVE HaltRecorded'
    BY <2>2 DEF vars, fsm, HaltRecorded
  <2> QED BY <2>1, <2>2, HaltStep DEF Next
<1> QED BY <1>1, <1>2, TypeCorrect, PTL DEF Spec

-----------------------------------------------------------------------------
(* The call stack. *)

LEMMA ModStep ==
  ASSUME NEW n \in Nat, n > 0, NEW d \in 0..n
  PROVE  /\ d # n => ((d % n) + 1) % n = (d + 1) % n
         /\ d # 0 => ((d % n) - 1) % n = (d - 1) % n
<1>1. CASE d = n
  <2>1. d % n = 0 /\ (d - 1) % n = (0 - 1) % n
    BY <1>1, SMT
  <2> QED BY <1>1, <2>1, SMT
<1>2. CASE d # n
  <2>1. d % n = d
    BY <1>2, SMT
  <2> QED BY <1>2, <2>1, SMT
<1> QED BY <1>1, <1>2

LEMMA StackStep == ASSUME TypeOK, StackShape, Tick PROVE StackShape'
<1>a. stack \in [mem : [0..(StackDepth - 1) -> Addr], sp : 0..(StackDepth - 1),
                  depth : 0..StackDepth]
  BY DEF TypeOK
<1>b. StackDepth \in Nat /\ StackDepth > 0
  BY CoreAssumption
<1>1. CASE ExecCall
  <2>1. CASE stack.depth = StackDepth
    BY <1>1, <2>1 DEF ExecCall, Pushed, StackShape
  <2>2. CASE stack.depth # StackDepth
    <3>1. stack'.sp = (stack.sp + 1) % StackDepth /\ stack'.depth = stack.depth + 1
      BY <1>1, <2>2 DEF ExecCall, Pushed
    <3> QED BY <1>a, <1>b, <2>2, <3>1, ModStep DEF StackShape
  <2> QED BY <2>1, <2>2
<1>2. CASE ExecRet
  <2>1. CASE stack.depth = 0
    BY <1>2, <2>1 DEF ExecRet, Popped, StackShape
  <2>2. CASE stack.depth # 0
    <3>1. stack'.sp = (stack.sp - 1) % StackDepth /\ stack'.depth = stack.depth - 1
      BY <1>2, <1>a, <2>2 DEF ExecRet, Popped, Below
    <3> QED BY <1>a, <1>b, <2>2, <3>1, ModStep DEF StackShape
  <2> QED BY <2>1, <2>2
<1>3. CASE ~ExecCall /\ ~ExecRet
  <2>1. stack' = stack
    BY <1>3 DEF Tick, FetchHit, FetchMiss, Decode, Execute, ExecCls, ExecJump, ExecSkip,
       ExecKeySkip, ExecReg, ExecAlu, ExecAluFlag, ExecIndex, ExecTimer, ExecDraw, ExecBurst,
       ExecWaitKey, ExecIllegal, Continue, AluFlagWrite, WaitKey, Bcd, Store, LoadRead,
       LoadCommit, DrawRead, DrawLatch, DrawPixel, DrawRowEnd, DrawEnd, Halted, Held, regs
  <2> QED BY <2>1 DEF StackShape
<1> QED BY <1>1, <1>2, <1>3

(* Stack pointer and depth agree after any nesting of calls and returns,    *)
(* overflowing and underflowing ones included, for any stack depth.         *)
THEOREM StackConsistent == Spec => []StackShape
<1>1. Init => StackShape
  BY CoreAssumption, SMT DEF Init, StackShape, EmptyStack
<1>2. TypeOK /\ StackShape /\ [Next]_vars => StackShape'
  <2>1. ASSUME Reset PROVE StackShape'
    BY <2>1, CoreAssumption, SMT DEF Reset, StackShape, EmptyStack
  <2>2. ASSUME StackShape, UNCHANGED vars PROVE StackShape'
    BY <2>2 DEF vars, regs, StackShape
  <2> QED BY <2>1, <2>2, StackStep DEF Next
<1> QED BY <1>1, <1>2, TypeCorrect, PTL DEF Spec

-----------------------------------------------------------------------------
(* The random generator never sticks: no draw of RND reaches the zero state *)
(* of the shift register.                                                   *)
THEOREM RngNeverSticks == Spec => []RngNeverZero
<1>1. Init => RngNeverZero
  BY SMT DEF Init, RngNeverZero, Seed
<1>2. TypeOK /\ RngNeverZero /\ [Next]_vars => RngNeverZero'
  <2>1. ASSUME TypeOK, RngNeverZero, Tick PROVE RngNeverZero'
    BY <2>1, TickClocks, LfsrNonzero DEF Clock, Random, RngNeverZero, TypeOK
  <2>2. ASSUME Reset PROVE RngNeverZero'
    BY <2>2, SMT DEF Reset, RngNeverZero, Seed
  <2>3. ASSUME RngNeverZero, UNCHANGED vars PROVE RngNeverZero'
    BY <2>3 DEF vars, RngNeverZero
  <2> QED BY <2>1, <2>2, <2>3 DEF Next
<1> QED BY <1>1, <1>2, TypeCorrect, PTL DEF Spec

-----------------------------------------------------------------------------
(* The sequencers of the operations that take several cycles. *)

LEMMA SequencerStep == ASSUME TypeOK, SequencersInStep, Tick PROVE SequencersInStep'
<1>a. /\ draw \in DrawState /\ burst \in [idx : Reg, x : Reg]
      /\ Nib(opcode) \in 0..15 /\ X \in Reg
  BY FieldTypes, RegTypes DEF TypeOK
<1>b. \A j, k \in Reg : j <= k /\ j # k => (j + 1) % 16 \in Reg /\ (j + 1) % 16 <= k
  BY SMT DEF Reg
<1>c. \A k \in Reg : 0 <= k
  BY SMT DEF Reg
<1>d. /\ \A n \in 0..15 : n # 0 => 0 < n
      /\ \A n, r \in 0..15 : r < n /\ r # n - 1 => (r + 1) % 16 < n
  BY SMT
<1>1. CASE ExecDraw
  BY <1>1, <1>a, <1>d DEF SequencersInStep, ExecDraw, NoDraw, Exec, Executing
<1>2. CASE ExecBurst
  BY <1>2, <1>a, <1>c DEF SequencersInStep, ExecBurst, Exec, Executing, X
<1>3. CASE Bcd
  BY <1>3 DEF SequencersInStep, Bcd, Goto, seqs
<1>4. CASE Store
  BY <1>4, <1>a, <1>b DEF SequencersInStep, Store, BurstNext, Goto, X
<1>5. CASE LoadRead
  BY <1>5 DEF SequencersInStep, LoadRead, Goto, seqs, X
<1>6. CASE LoadCommit
  BY <1>6, <1>a, <1>b DEF SequencersInStep, LoadCommit, BurstNext, Goto, X
<1>7. CASE DrawRead
  BY <1>7 DEF SequencersInStep, DrawRead, Goto, seqs, X
<1>8. CASE DrawLatch
  BY <1>8, <1>a DEF SequencersInStep, DrawLatch, Goto, DrawState
<1>9. CASE DrawPixel
  BY <1>9, <1>a DEF SequencersInStep, DrawPixel, Goto, DrawState
<1>10. CASE DrawRowEnd
  BY <1>10, <1>a, <1>d DEF SequencersInStep, DrawRowEnd, LastRow, Goto, DrawState
<1>11. CASE DrawEnd
  BY <1>11, <1>a DEF SequencersInStep, DrawEnd, Goto, DrawState
<1>12. CASE Held
  BY <1>12 DEF SequencersInStep, Held, NoDraw
<1>13. CASE Halted
  BY <1>13 DEF SequencersInStep, Halted, seqs, X
<1>14. CASE AluFlagWrite \/ WaitKey
  BY <1>14 DEF SequencersInStep, AluFlagWrite, WaitKey, Goto, seqs
<1>15. CASE FetchHit \/ FetchMiss \/ Decode
  BY <1>15 DEF SequencersInStep, FetchHit, FetchMiss, Decode, Goto, seqs
<1>16. CASE ExecCls \/ ExecCall \/ ExecRet \/ ExecJump \/ ExecSkip \/ ExecKeySkip
            \/ ExecReg \/ ExecAlu \/ ExecIndex \/ ExecTimer
  BY <1>16 DEF SequencersInStep, ExecCls, ExecCall, ExecRet, ExecJump, ExecSkip, ExecKeySkip,
     ExecReg, ExecAlu, ExecIndex, ExecTimer, Retire, Advance, Exec, Executing
<1>17. CASE ExecAluFlag \/ ExecWaitKey \/ ExecIllegal
  BY <1>17 DEF SequencersInStep, ExecAluFlag, ExecWaitKey, ExecIllegal, Goto, seqs, Exec,
     Executing
<1> QED
  BY <1>1, <1>2, <1>3, <1>4, <1>5, <1>6, <1>7, <1>8, <1>9, <1>10, <1>11, <1>12, <1>13, <1>14,
     <1>15, <1>16, <1>17 DEF Tick, Execute, Continue

(* The multi-cycle operations stay on the instruction that started them and *)
(* within its last register and its last sprite row.                        *)
THEOREM SequencersStayInStep == Spec => []SequencersInStep
<1>1. Init => SequencersInStep
  BY DEF Init, SequencersInStep, NoDraw
<1>2. TypeOK /\ SequencersInStep /\ [Next]_vars => SequencersInStep'
  <2>1. ASSUME Reset PROVE SequencersInStep'
    BY <2>1 DEF Reset, SequencersInStep, NoDraw
  <2>2. ASSUME SequencersInStep, UNCHANGED vars PROVE SequencersInStep'
    BY <2>2 DEF vars, fsm, seqs, SequencersInStep, X
  <2> QED BY <2>1, <2>2, SequencerStep DEF Next
<1> QED BY <1>1, <1>2, TypeCorrect, PTL DEF Spec

-----------------------------------------------------------------------------
(* Between the retirements: how the registers of the core relate to arch,   *)
(* the state the instruction under way started from.                        *)
ArchState ==
  [pc : Addr, i : Addr, v : [Reg -> Byte], mem : [Addr -> Byte],
   stack : [0..(StackDepth - 1) -> Addr], sp : 0..(StackDepth - 1),
   delay : Byte, sound : Byte, fb : SUBSET Pixel, run : BOOLEAN]

OpcodeIn(mem, a) == 256 * mem[a] + mem[Wrap(a + 1)]
Current          == OpcodeIn(arch.mem, arch.pc)

(* The first k bytes of a store, a load and a conversion are done; rows up  *)
(* to row, and bits of it up to bit, of a sprite are drawn.                 *)
Offset(i, a) == (a - i) % AddrSpace
Stored(i, v, mem, k) == [a \in Addr |-> IF Offset(i, a) < k THEN v[Offset(i, a)] ELSE mem[a]]
Loaded(i, v, mem, k) == [r \in Reg |-> IF r < k THEN mem[Wrap(i + r)] ELSE v[r]]
Digits(i, b, mem, k) ==
  [a \in Addr |-> IF Offset(i, a) < k THEN BcdDigit(Offset(i, a), b) ELSE mem[a]]
Before(p, row, bit) == p[1] < row \/ (p[1] = row /\ p[2] < bit)
Lit(i, mem, p)      == SpriteBit(mem[Wrap(i + p[1])], p[2])
Drawn(i, mem, x, y, row, bit) ==
  {SpritePixel(x, y, p[2], p[1]) :
     p \in {q \in (0..15) \X (0..7) : Before(q, row, bit) /\ Lit(i, mem, q)}}
Toggled(screen, s)  == (screen \ s) \cup (s \ screen)

Between == state \in {"FETCH", "DECODE", "EXEC", "WAIT_KEY", "TRAP"}
Drawing == state = "DRAW" \/ (state = "MEM_READ" /\ Op(opcode) = "DRAW")
Loading == state = "LOAD" \/ (state = "MEM_READ" /\ Op(opcode) = "LOAD_REGS")
Storing == state \in {"STORE", "BCD0", "BCD1", "BCD2"}

Followed ==
  /\ arch.delay = timers.delay /\ arch.sound = timers.sound
  /\ arch.i = index /\ arch.stack = stack.mem /\ arch.sp = stack.sp
  /\ pc = IF Between THEN arch.pc ELSE Wrap(arch.pc + 2)
  /\ ~Storing => ArchMem = arch.mem
  /\ ~Drawing => fb = arch.fb
  /\ ~Loading /\ state # "ALU_FLAG" => V = arch.v
  /\ state \notin {"FETCH", "DECODE", "TRAP"} => opcode = Current
  /\ state = "DECODE" \/ Fill => Fetched = Current
  /\ state = "WAIT_KEY" => Op(opcode) = "WAIT_KEY"
InAlu ==
  state = "ALU_FLAG" =>
    /\ Op(opcode) = "ALU" /\ AluFlag(opcode)
    /\ V = [arch.v EXCEPT ![X] = AluResult(Nib(opcode), arch.v[X], arch.v[Y])]
    /\ flag = AluFlagBit(Nib(opcode), arch.v[X], arch.v[Y])
    /\ X = VF /\ Nib(opcode) \in {6, 14} => flag = 0
InLoad ==
  Loading =>
    /\ V = Loaded(arch.i, arch.v, arch.mem, burst.idx)
    /\ state = "MEM_READ" => rdata[1] = arch.mem[Wrap(arch.i + burst.idx)]
InStore ==
  Storing =>
    ArchMem = CASE state = "STORE" -> Stored(arch.i, arch.v, arch.mem, burst.idx)
                [] state = "BCD0"  -> Digits(arch.i, arch.v[X], arch.mem, 0)
                [] state = "BCD1"  -> Digits(arch.i, arch.v[X], arch.mem, 1)
                [] state = "BCD2"  -> Digits(arch.i, arch.v[X], arch.mem, 2)
InDraw ==
  Drawing =>
    LET drawn == Drawn(arch.i, arch.mem, arch.v[X], arch.v[Y], draw.row, draw.bit)
    IN /\ draw.x = arch.v[X] % Width /\ draw.y = arch.v[Y] % Height
       /\ ~draw.valid => draw.bit = 0
       /\ draw.valid => draw.byte = arch.mem[Wrap(arch.i + draw.row)]
       /\ state = "DRAW" /\ ~draw.valid => rdata[2] = arch.mem[Wrap(arch.i + draw.row)]
       /\ fb = Toggled(arch.fb, drawn)
       /\ draw.coll <=> drawn \cap arch.fb # {}

(* Only the sequencers write: their last write is in flight in FETCH.       *)
Quiet == write.we => \/ state \in {"BCD1", "BCD2", "STORE"}
                     \/ state = "FETCH" /\ ~fetchValid

InStep ==
  /\ arch \in ArchState /\ arch.run = enable
  /\ enable => Followed /\ InAlu /\ InLoad /\ InStore /\ InDraw /\ Quiet

-----------------------------------------------------------------------------
(* Modular arithmetic, for a modulus that is a constant. *)

LEMMA ModUnique ==
  ASSUME NEW n \in Nat, n > 0, NEW x \in Int, NEW q \in Int, NEW r \in 0..(n - 1), x = n * q + r
  PROVE  x % n = r
BY SMT

LEMMA ModShift ==
  ASSUME NEW n \in Nat, n > 0, NEW a \in Int, NEW b \in Int
  PROVE  ((a % n) + b) % n = (a + b) % n
<1> DEFINE q == (a \div n)
           p == ((a % n) + b) \div n
           r == ((a % n) + b) % n
<1>1. a = n * q + (a % n) /\ q \in Int /\ a % n \in 0..(n - 1)
  BY SMT
<1>2. (a % n) + b = n * p + r /\ p \in Int /\ r \in 0..(n - 1)
  BY <1>1, SMT
<1>3. a + b = n * (p + q) + r
  <2> HIDE DEF p, q, r
  <2> QED BY <1>1, <1>2, SMT
<1>4. p + q \in Int
  BY <1>1, <1>2, SMT
<1> HIDE DEF p, q, r
<1>5. (a + b) % n = r
  BY <1>2, <1>3, <1>4, ModUnique, SMT
<1> QED BY <1>5 DEF r

LEMMA WrapShift == \A a, b \in Int : Wrap(Wrap(a) + b) = Wrap(a + b)
<1>1. AddrSpace \in Nat /\ AddrSpace > 0
  BY AddrSpaceAssumption, SMT
<1>2. \A a, b \in Int : ((a % AddrSpace) + b) % AddrSpace = (a + b) % AddrSpace
  BY <1>1, ModShift
<1> QED BY <1>2 DEF Wrap

LEMMA WrapSmall == \A a \in Addr : Wrap(a) = a
BY AddrSpaceAssumption, SMT DEF Wrap, Addr

(* Address a is the k-th from i exactly when its offset from i is k.        *)
LEMMA OffsetIs ==
  ASSUME NEW i \in Addr, NEW a \in Addr, NEW k \in Nat, k < AddrSpace
  PROVE  /\ Offset(i, a) \in 0..(AddrSpace - 1)
         /\ Offset(i, a) = k <=> a = Wrap(i + k)
<1>1. a - i \in Int /\ i + k \in Int /\ a \in Int /\ i \in Int /\ AddrSpace \in Nat /\ AddrSpace > 1
  BY AddrSpaceAssumption, SMT DEF Addr
<1>2. Offset(i, a) \in 0..(AddrSpace - 1)
  BY <1>1, SMT DEF Offset
<1>3. ASSUME Offset(i, a) = k PROVE a = Wrap(i + k)
  <2>1. Wrap(Wrap(a - i) + i) = Wrap(a - i + i)
    BY <1>1, WrapShift
  <2>2. a - i + i = a /\ k + i = i + k
    BY <1>1, SMT
  <2> QED BY <1>3, <2>1, <2>2, WrapSmall DEF Offset, Wrap
<1>4. ASSUME a = Wrap(i + k) PROVE Offset(i, a) = k
  <2>1. Wrap(Wrap(i + k) + (0 - i)) = Wrap((i + k) + (0 - i))
    BY <1>1, WrapShift, SMT
  <2>2. (i + k) + (0 - i) = k /\ a + (0 - i) = a - i
    BY <1>1, SMT
  <2>3. k \in Addr
    BY <1>1, SMT DEF Addr
  <2> QED BY <1>4, <2>1, <2>2, <2>3, WrapSmall DEF Offset, Wrap
<1> QED BY <1>2, <1>3, <1>4

-----------------------------------------------------------------------------
(* What a program sees of memory across a clock edge. *)

LEMMA ArchMemType == ASSUME TypeOK PROVE ArchMem \in [Addr -> Byte]
BY CoreAssumption DEF TypeOK, ArchMem, Addr, Write

LEMMA ArchMemStep ==
  ASSUME TypeOK, Memory
  PROVE  ArchMem' = [a \in Addr |-> IF a \in DOMAIN FontRom THEN FontRom[a]
                                    ELSE IF ArbWrite.we /\ ArbWrite.addr = a THEN ArbWrite.data
                                    ELSE ArchMem[a]]
<1>1. ArchMem' = [a \in Addr |-> IF a \in DOMAIN FontRom THEN FontRom[a]
                                 ELSE IF ArbWrite.we /\ ArbWrite.addr = a THEN ArbWrite.data
                                 ELSE ram'[a]]
  BY DEF ArchMem, Memory
<1>2. \A a \in Addr : a \notin DOMAIN FontRom => ram'[a] = ArchMem[a]
  BY DEF ArchMem, Memory, TypeOK, Write
<1> HIDE DEF ArchMem
<1> QED BY <1>1, <1>2

LEMMA ArchMemKept ==
  ASSUME TypeOK, Memory, ~ArbWrite.we PROVE ArchMem' = ArchMem
<1>1. \A a \in Addr : a \in DOMAIN FontRom => ArchMem[a] = FontRom[a]
  BY DEF ArchMem
<1>2. ArchMem' = [a \in Addr |-> ArchMem[a]]
  BY <1>1, ArchMemStep
<1> QED BY <1>2, ArchMemType

LEMMA ArchMemPut ==
  ASSUME TypeOK, Memory, ~loadWrite.we, CpuWrite.we, ~WritesFont
  PROVE  ArchMem' = [ArchMem EXCEPT ![CpuWrite.addr] = CpuWrite.data]
<1>1. \A a \in Addr : a \in DOMAIN FontRom => ArchMem[a] = FontRom[a]
  BY DEF ArchMem
<1>2. CpuWrite.addr \in DOMAIN FontRom => CpuWrite.data = FontRom[CpuWrite.addr]
  BY DEF WritesFont
<1>3. ArbWrite = CpuWrite
  BY DEF ArbWrite
<1>4. ArchMem' = [a \in Addr |-> IF CpuWrite.addr = a THEN CpuWrite.data ELSE ArchMem[a]]
  BY <1>1, <1>2, <1>3, ArchMemStep
<1> HIDE DEF ArchMem
<1> QED BY <1>4, ArchMemType, CpuWriteType DEF Write

LEMMA Settled == ~write.we => Mem = ArchMem
BY DEF Mem, ArchMem

(* A step that is no memory operation of the core writes nothing. *)
LEMMA NoWriteStep ==
  ASSUME TypeOK, Clock, enable, ~LoadsRunning, ~Storing
  PROVE  ArchMem' = ArchMem /\ ~write'.we
<1>1. CpuWrite = NoWrite
  BY DEF CpuWrite, Storing
<1>2. ~ArbWrite.we
  BY <1>1 DEF ArbWrite, LoadsRunning, NoWrite
<1> QED BY <1>2, ArchMemKept DEF Clock, Memory

-----------------------------------------------------------------------------
(* States of the oracle. *)

Pass(s)    == Oracle!DecrementTimers(s)
Less(t)    == IF t = 0 THEN 0 ELSE t - 1
SameButTimers(s, t) ==
  /\ s.pc = t.pc /\ s.i = t.i /\ s.v = t.v /\ s.mem = t.mem /\ s.stack = t.stack
  /\ s.sp = t.sp /\ s.fb = t.fb /\ s.run = t.run

LEMMA SameState ==
  ASSUME NEW s \in ArchState, NEW t \in ArchState, SameButTimers(s, t),
         s.delay = t.delay, s.sound = t.sound
  PROVE  s = t
BY DEF ArchState, SameButTimers

LEMMA LessType == \A b \in Byte : Less(b) \in Byte
BY SMT DEF Less, Byte

LEMMA PassFields ==
  ASSUME NEW s \in ArchState
  PROVE  /\ Pass(s) \in ArchState /\ SameButTimers(Pass(s), s)
         /\ Pass(s).delay = Less(s.delay) /\ Pass(s).sound = Less(s.sound)
<1>1. Pass(s) = [s EXCEPT !.delay = Less(@), !.sound = Less(@)]
  BY DEF Pass, Oracle!DecrementTimers, Less
<1>2. Less(s.delay) \in Byte /\ Less(s.sound) \in Byte
  BY LessType DEF ArchState
<1> HIDE DEF Less
<1> QED BY <1>1, <1>2 DEF ArchState, SameButTimers

LEMMA TimerStep ==
  ASSUME TypeOK, Timers
  PROVE  /\ ~Exec({"TIMER_DELAY_WRITE"}) =>
              timers'.delay = IF timers.tick THEN Less(timers.delay) ELSE timers.delay
         /\ ~Exec({"TIMER_SOUND_WRITE"}) =>
              timers'.sound = IF timers.tick THEN Less(timers.sound) ELSE timers.sound
BY DEF Timers, Down, Less

LEMMA SnapshotType == ASSUME TypeOK PROVE Snapshot \in ArchState
<1>1. /\ pc \in Addr /\ index \in Addr /\ V \in [Reg -> Byte] /\ enable \in BOOLEAN
      /\ stack.mem \in [0..(StackDepth - 1) -> Addr] /\ stack.sp \in 0..(StackDepth - 1)
      /\ timers.delay \in Byte /\ timers.sound \in Byte /\ fb \in SUBSET Pixel
  BY DEF TypeOK
<1> QED BY <1>1, ArchMemType DEF Snapshot, ArchState

LEMMA SnapshotFields ==
  /\ Snapshot.pc = pc /\ Snapshot.i = index /\ Snapshot.v = V /\ Snapshot.mem = ArchMem
  /\ Snapshot.stack = stack.mem /\ Snapshot.sp = stack.sp /\ Snapshot.fb = fb
  /\ Snapshot.delay = timers.delay /\ Snapshot.sound = timers.sound /\ Snapshot.run = enable
BY DEF Snapshot

-----------------------------------------------------------------------------
(* Decoding: the operation of the core and the case of the oracle. *)

LEMMA ClassIs ==
  ASSUME NEW oc \in Opcode
  PROVE  /\ Class(oc) \in 0..15
         /\ Op(oc) = "SYS"         <=> Class(oc) = 0
         /\ Op(oc) = "JUMP"        <=> Class(oc) = 1
         /\ Op(oc) = "CALL"        <=> Class(oc) = 2
         /\ Op(oc) = "SKIP_EQ_IMM" <=> Class(oc) = 3
         /\ Op(oc) = "SKIP_NE_IMM" <=> Class(oc) = 4
         /\ Op(oc) = "SKIP_EQ_REG" <=> Class(oc) = 5
         /\ Op(oc) = "LOAD_IMM"    <=> Class(oc) = 6
         /\ Op(oc) = "ADD_IMM"     <=> Class(oc) = 7
         /\ Op(oc) = "ALU"         <=> Class(oc) = 8
         /\ Op(oc) = "SKIP_NE_REG" <=> Class(oc) = 9
         /\ Op(oc) = "LOAD_I"      <=> Class(oc) = 10
         /\ Op(oc) = "JUMP_V0"     <=> Class(oc) = 11
         /\ Op(oc) = "RANDOM"      <=> Class(oc) = 12
         /\ Op(oc) = "DRAW"        <=> Class(oc) = 13
         /\ Op(oc) = "KEY_SKIP"    <=> Class(oc) = 14
         /\ Class(oc) = 15 => Op(oc) = MiscOp(Imm(oc))
<1>1. Class(oc) \in 0..15
  BY SMT DEF Class, Opcode, MaxOpcode
<1>2. /\ \A o \in {"SYS", "JUMP", "CALL", "SKIP_EQ_IMM", "SKIP_NE_IMM", "SKIP_EQ_REG", "LOAD_IMM",
                   "ADD_IMM", "ALU", "SKIP_NE_REG", "LOAD_I", "JUMP_V0", "RANDOM", "DRAW",
                   "KEY_SKIP"} : o # MiscOp(Imm(oc))
  BY DEF MiscOp
<1>3. \A c \in 0..15 : c # 15 => c + 1 \in 1..15
  BY SMT
<1> HIDE DEF Class
<1> QED BY <1>1, <1>2, <1>3, SMTT(30) DEF Op

(* The operations of class 15, by their low byte. *)
LEMMA MiscIs ==
  ASSUME NEW oc \in Opcode, Class(oc) = 15
  PROVE  /\ Op(oc) = "TIMER_READ"        <=> Imm(oc) = 7
         /\ Op(oc) = "WAIT_KEY"          <=> Imm(oc) = 10
         /\ Op(oc) = "TIMER_DELAY_WRITE" <=> Imm(oc) = 21
         /\ Op(oc) = "TIMER_SOUND_WRITE" <=> Imm(oc) = 24
         /\ Op(oc) = "ADD_I"             <=> Imm(oc) = 30
         /\ Op(oc) = "FONT_ADDR"         <=> Imm(oc) = 41
         /\ Op(oc) = "BCD"               <=> Imm(oc) = 51
         /\ Op(oc) = "STORE_REGS"        <=> Imm(oc) = 85
         /\ Op(oc) = "LOAD_REGS"         <=> Imm(oc) = 101
<1>1. Op(oc) = MiscOp(Imm(oc))
  BY ClassIs
<1>2. Imm(oc) \in Int
  BY FieldTypes, SMT DEF Byte
<1> HIDE DEF Imm, Op
<1> QED BY <1>1, <1>2, SMT DEF MiscOp

MiscOps == {"TIMER_READ", "WAIT_KEY", "TIMER_DELAY_WRITE", "TIMER_SOUND_WRITE", "ADD_I",
            "FONT_ADDR", "BCD", "STORE_REGS", "LOAD_REGS"}
LEMMA MiscClass == ASSUME NEW oc \in Opcode, Op(oc) \in MiscOps PROVE Class(oc) = 15
<1>1. Class(oc) \in 0..15
  BY ClassIs
<1> HIDE DEF Op, Class
<1> QED BY <1>1, ClassIs, SMT DEF MiscOps

LEMMA OracleFields ==
  ASSUME NEW oc
  PROVE  /\ Oracle!XReg(oc) = XReg(oc) /\ Oracle!YReg(oc) = YReg(oc) /\ Oracle!Nib(oc) = Nib(oc)
         /\ Oracle!Imm(oc) = Imm(oc) /\ Oracle!NNN(oc) = NNN(oc) /\ Oracle!Class(oc) = Class(oc)
         /\ Oracle!Wrap(oc) = Wrap(oc)
BY DEF Oracle!XReg, Oracle!YReg, Oracle!Nib, Oracle!Imm, Oracle!NNN, Oracle!Class, Oracle!Wrap,
       XReg, YReg, Nib, Imm, NNN, Class, Wrap

LEMMA SysClass ==
  ASSUME NEW oc \in Opcode, SysCls(oc) \/ SysRet(oc) PROVE Class(oc) = 0
BY SMT DEF SysCls, SysRet, Class

JumpTo(s, a)  == [s EXCEPT !.pc = a]
PointTo(s, a) == [s EXCEPT !.i = a]

(* One case of the oracle for each class. *)
LEMMA OracleSys ==
  ASSUME NEW s, NEW oc \in Opcode, NEW rnd, NEW keys
  PROVE  /\ SysCls(oc) => Oracle!ExecOp(s, oc, rnd, keys) = Oracle!Cls(s)
         /\ SysRet(oc) => Oracle!ExecOp(s, oc, rnd, keys) = Oracle!Ret(s)
<1>1. SysCls(oc) \/ SysRet(oc) => Class(oc) = 0
  BY SysClass
<1> HIDE DEF Class
<1> QED BY <1>1, OracleFields, SMT DEF Oracle!ExecOp, SysCls, SysRet

LEMMA OracleNone ==
  ASSUME NEW s, NEW oc \in Opcode, NEW rnd, NEW keys, Class(oc) = 0, ~SysCls(oc), ~SysRet(oc)
  PROVE  Oracle!ExecOp(s, oc, rnd, keys) = s
<1> HIDE DEF Class
<1> QED BY OracleFields, SMT DEF Oracle!ExecOp, SysCls, SysRet

LEMMA OracleFlow ==
  ASSUME NEW s, NEW oc \in Opcode, NEW rnd, NEW keys
  PROVE  /\ Class(oc) = 1 => Oracle!ExecOp(s, oc, rnd, keys) = JumpTo(s, Wrap(NNN(oc)))
         /\ Class(oc) = 2 => Oracle!ExecOp(s, oc, rnd, keys) = Oracle!Call(s, Wrap(NNN(oc)))
         /\ Class(oc) = 11 => Oracle!ExecOp(s, oc, rnd, keys) = JumpTo(s, Wrap(NNN(oc) + s.v[0]))
         /\ Class(oc) \in {3, 4, 5, 9} => Oracle!ExecOp(s, oc, rnd, keys) = Oracle!ExecSkip(s, oc)
         /\ Class(oc) = 14 => Oracle!ExecOp(s, oc, rnd, keys)
                               = Oracle!ExecKeypad(s, Imm(oc), XReg(oc), keys)
<1>1. oc = 224 \/ oc = 238 => Class(oc) = 0
  BY SysClass DEF SysCls, SysRet
<1> HIDE DEF Class
<1> USE <1>1, OracleFields DEF Oracle!ExecOp, JumpTo
<1>3. Class(oc) = 1 => Oracle!ExecOp(s, oc, rnd, keys) = JumpTo(s, Wrap(NNN(oc)))
  BY SMT
<1>4. Class(oc) = 2 => Oracle!ExecOp(s, oc, rnd, keys) = Oracle!Call(s, Wrap(NNN(oc)))
  BY SMT
<1>5. Class(oc) = 11 => Oracle!ExecOp(s, oc, rnd, keys) = JumpTo(s, Wrap(NNN(oc) + s.v[0]))
  BY SMT
<1>6. Class(oc) \in {3, 4, 5, 9} => Oracle!ExecOp(s, oc, rnd, keys) = Oracle!ExecSkip(s, oc)
  BY SMT
<1>7. Class(oc) = 14 => Oracle!ExecOp(s, oc, rnd, keys)
                          = Oracle!ExecKeypad(s, Imm(oc), XReg(oc), keys)
  BY SMT
<1> QED BY ONLY <1>3, <1>4, <1>5, <1>6, <1>7

LEMMA OracleImm ==
  ASSUME NEW s, NEW oc \in Opcode, NEW rnd, NEW keys, Class(oc) = 6
  PROVE  Oracle!ExecOp(s, oc, rnd, keys) = Oracle!SetReg(s, XReg(oc), Imm(oc))
<1>1. oc # 224 /\ oc # 238
  BY SysClass, SMT DEF SysCls, SysRet
<1> HIDE DEF Class
<1> QED BY <1>1, OracleFields, SMT DEF Oracle!ExecOp

LEMMA OracleAdd ==
  ASSUME NEW s, NEW oc \in Opcode, NEW rnd, NEW keys, Class(oc) = 7
  PROVE  Oracle!ExecOp(s, oc, rnd, keys) = Oracle!SetReg(s, XReg(oc), (s.v[XReg(oc)] + Imm(oc)) % 256)
<1>1. oc # 224 /\ oc # 238
  BY SysClass, SMT DEF SysCls, SysRet
<1> HIDE DEF Class
<1> QED BY <1>1, OracleFields, SMT DEF Oracle!ExecOp

LEMMA OracleAlu ==
  ASSUME NEW s, NEW oc \in Opcode, NEW rnd, NEW keys, Class(oc) = 8
  PROVE  Oracle!ExecOp(s, oc, rnd, keys) = Oracle!ExecAlu(s, Nib(oc), XReg(oc), YReg(oc))
<1>1. oc # 224 /\ oc # 238
  BY SysClass, SMT DEF SysCls, SysRet
<1> HIDE DEF Class
<1> QED BY <1>1, OracleFields, SMT DEF Oracle!ExecOp

LEMMA OracleIndex ==
  ASSUME NEW s, NEW oc \in Opcode, NEW rnd, NEW keys, Class(oc) = 10
  PROVE  Oracle!ExecOp(s, oc, rnd, keys) = PointTo(s, Wrap(NNN(oc)))
<1>1. oc # 224 /\ oc # 238
  BY SysClass, SMT DEF SysCls, SysRet
<1> HIDE DEF Class
<1> QED BY <1>1, OracleFields, SMT DEF Oracle!ExecOp, PointTo

LEMMA OracleRandom ==
  ASSUME NEW s, NEW oc \in Opcode, NEW rnd, NEW keys, Class(oc) = 12
  PROVE  Oracle!ExecOp(s, oc, rnd, keys) = Oracle!SetReg(s, XReg(oc), Oracle!BitAnd(rnd, Imm(oc)))
<1>1. oc # 224 /\ oc # 238
  BY SysClass, SMT DEF SysCls, SysRet
<1> HIDE DEF Class
<1> QED BY <1>1, OracleFields, SMT DEF Oracle!ExecOp

LEMMA OracleDraw ==
  ASSUME NEW s, NEW oc \in Opcode, NEW rnd, NEW keys, Class(oc) = 13
  PROVE  Oracle!ExecOp(s, oc, rnd, keys) = Oracle!Draw(s, XReg(oc), YReg(oc), Nib(oc))
<1>1. oc # 224 /\ oc # 238
  BY SysClass, SMT DEF SysCls, SysRet
<1> HIDE DEF Class
<1> QED BY <1>1, OracleFields, SMT DEF Oracle!ExecOp

LEMMA OracleMisc ==
  ASSUME NEW s, NEW oc \in Opcode, NEW rnd, NEW keys, Class(oc) = 15
  PROVE  Oracle!ExecOp(s, oc, rnd, keys) = Oracle!ExecMisc(s, Imm(oc), XReg(oc), keys)
<1>1. oc # 224 /\ oc # 238
  BY SysClass, SMT DEF SysCls, SysRet
<1> HIDE DEF Class
<1> QED BY <1>1, OracleFields, SMT DEF Oracle!ExecOp

-----------------------------------------------------------------------------
(* One instruction of the oracle. *)

After(s) == [s EXCEPT !.pc = Wrap(@ + 2)]

LEMMA AfterFields ==
  ASSUME NEW s \in ArchState
  PROVE  /\ After(s) \in ArchState /\ After(s).pc = Wrap(s.pc + 2)
         /\ After(s).i = s.i /\ After(s).v = s.v /\ After(s).mem = s.mem
         /\ After(s).stack = s.stack /\ After(s).sp = s.sp /\ After(s).delay = s.delay
         /\ After(s).sound = s.sound /\ After(s).fb = s.fb /\ After(s).run = s.run
<1>1. Wrap(s.pc + 2) \in Addr
  <2>1. s.pc \in Addr
    BY DEF ArchState
  <2>2. s.pc + 2 \in Int
    BY <2>1, AddrSpaceAssumption, SMT DEF Addr
  <2> QED BY <2>2, WrapType
<1> HIDE DEF Wrap
<1> QED BY <1>1 DEF After, ArchState

LEMMA StepIs ==
  ASSUME NEW s \in ArchState, NEW rnd, NEW keys
  PROVE  /\ OpcodeIn(s.mem, s.pc) \in Opcode
         /\ Oracle!FetchOpcode(s) = OpcodeIn(s.mem, s.pc)
         /\ Oracle!Step(s, rnd, keys)
              = Oracle!ExecOp(After(s), OpcodeIn(s.mem, s.pc), rnd, keys)
<1>1. s.pc \in Addr /\ s.mem \in [Addr -> Byte]
  BY DEF ArchState
<1>2. Wrap(s.pc + 1) \in Addr /\ Wrap(s.pc) = s.pc
  BY <1>1, AddrSpaceAssumption, WrapType, WrapSmall, SMT DEF Addr
<1>3. OpcodeIn(s.mem, s.pc) \in Opcode
  BY <1>1, <1>2, ByteSums DEF OpcodeIn
<1>4. Oracle!FetchOpcode(s) = OpcodeIn(s.mem, s.pc)
  BY <1>2, OracleFields DEF Oracle!FetchOpcode, OpcodeIn
<1>5. [s EXCEPT !.pc = Oracle!Wrap(@ + 2)] = After(s)
  BY OracleFields DEF After
<1> QED BY <1>3, <1>4, <1>5 DEF Oracle!Step

(* t is where the oracle gets from s by one instruction. *)
Draws(oc) == IF Class(oc) = 12 THEN Byte ELSE {0}
Executed(s, t) ==
  \E keys \in KeySets : \E rnd \in Draws(OpcodeIn(s.mem, s.pc)) : t = Oracle!Step(s, rnd, keys)

(* An instruction that leaves the timers alone, and a period that may end   *)
(* with it.                                                                 *)
Completed ==
  \E t \in ArchState : /\ Executed(arch, t) /\ SameButTimers(Snapshot', t)
                       /\ t.delay = arch.delay /\ t.sound = arch.sound

TimersFollow ==
  /\ timers'.delay = IF timers.tick THEN Less(timers.delay) ELSE timers.delay
  /\ timers'.sound = IF timers.tick THEN Less(timers.sound) ELSE timers.sound

LEMMA OracleExecuted ==
  ASSUME NEW s \in ArchState, NEW t, Executed(s, t)
  PROVE  \E keys \in KeySets :
         \E rnd \in IF Oracle!Class(Oracle!FetchOpcode(s)) = 12 THEN Oracle!Byte ELSE {0} :
           t = Oracle!Step(s, rnd, keys)
<1>1. PICK keys \in KeySets, rnd \in Draws(OpcodeIn(s.mem, s.pc)) : t = Oracle!Step(s, rnd, keys)
  BY DEF Executed
<1>2. Oracle!Byte = Byte
  BY DEF Oracle!Byte, Byte
<1>3. Oracle!Class(Oracle!FetchOpcode(s)) = Class(OpcodeIn(s.mem, s.pc))
  BY StepIs, OracleFields
<1> HIDE DEF Class, Byte
<1>4. rnd \in IF Oracle!Class(Oracle!FetchOpcode(s)) = 12 THEN Oracle!Byte ELSE {0}
  BY <1>2, <1>3 DEF Draws
<1> QED BY <1>1, <1>4

LEMMA SnapshotTypeNext == (TypeOK => Snapshot \in ArchState)'
<1>1. TypeOK => Snapshot \in ArchState
  BY SnapshotType
<1> QED BY <1>1, PTL

LEMMA CompletedStep ==
  ASSUME arch \in ArchState, arch.delay = timers.delay, arch.sound = timers.sound,
         TypeOK', arch' = Snapshot', Completed, TimersFollow
  PROVE  Oracle!Instruction
<1>1. PICK t \in ArchState : /\ Executed(arch, t) /\ SameButTimers(Snapshot', t)
                             /\ t.delay = arch.delay /\ t.sound = arch.sound
  BY DEF Completed
<1>2. Snapshot' \in ArchState
  BY SnapshotTypeNext
<1>3. Snapshot'.delay = timers'.delay /\ Snapshot'.sound = timers'.sound
  BY DEF Snapshot
<1>4. CASE timers.tick
  <2>1. SameButTimers(Snapshot', Pass(t))
    BY <1>1, PassFields DEF SameButTimers
  <2>2. Snapshot'.delay = Pass(t).delay /\ Snapshot'.sound = Pass(t).sound
    BY <1>1, <1>3, <1>4, PassFields DEF TimersFollow
  <2>3. Snapshot' = Pass(t)
    BY <1>2, <2>1, <2>2, PassFields, SameState
  <2> QED BY <1>1, <2>3, OracleExecuted DEF Oracle!Instruction, Pass
<1>5. CASE ~timers.tick
  <2>1. Snapshot'.delay = t.delay /\ Snapshot'.sound = t.sound
    BY <1>1, <1>3, <1>5 DEF TimersFollow
  <2>2. Snapshot' = t
    BY <1>1, <1>2, <2>1, SameState
  <2> QED BY <1>1, <2>2, OracleExecuted DEF Oracle!Instruction
<1> QED BY <1>4, <1>5

-----------------------------------------------------------------------------
(* t has the given registers, and the timers and the run bit of arch. *)
Looks(t, p, i, v, mem, stk, sp, screen) ==
  /\ t \in ArchState
  /\ t.pc = p /\ t.i = i /\ t.v = v /\ t.mem = mem /\ t.stack = stk /\ t.sp = sp
  /\ t.fb = screen /\ t.delay = arch.delay /\ t.sound = arch.sound /\ t.run = arch.run

LEMMA LooksPc ==
  ASSUME NEW s, NEW p, NEW i, NEW v, NEW mem, NEW stk, NEW sp, NEW screen,
         Looks(s, p, i, v, mem, stk, sp, screen), NEW q \in Addr
  PROVE  Looks(JumpTo(s, q), q, i, v, mem, stk, sp, screen)
BY DEF Looks, ArchState, JumpTo

LEMMA LooksIndex ==
  ASSUME NEW s, NEW p, NEW i, NEW v, NEW mem, NEW stk, NEW sp, NEW screen,
         Looks(s, p, i, v, mem, stk, sp, screen), NEW a \in Addr
  PROVE  Looks(PointTo(s, a), p, a, v, mem, stk, sp, screen)
BY DEF Looks, ArchState, PointTo

LEMMA LooksReg ==
  ASSUME NEW s, NEW p, NEW i, NEW v, NEW mem, NEW stk, NEW sp, NEW screen,
         Looks(s, p, i, v, mem, stk, sp, screen), NEW r \in Reg, NEW b \in Byte
  PROVE  Looks(Oracle!SetReg(s, r, b), p, i, [v EXCEPT ![r] = b], mem, stk, sp, screen)
<1>1. Oracle!SetReg(s, r, b) = [s EXCEPT !.v = [v EXCEPT ![r] = b]]
  BY DEF Oracle!SetReg, Looks
<1>2. [v EXCEPT ![r] = b] \in [Reg -> Byte]
  BY DEF Looks, ArchState
<1> DEFINE w == [v EXCEPT ![r] = b]
<1> HIDE DEF w
<1>3. w \in [Reg -> Byte] /\ Oracle!SetReg(s, r, b) = [s EXCEPT !.v = w]
  BY <1>1, <1>2 DEF w
<1>4. Looks([s EXCEPT !.v = w], p, i, w, mem, stk, sp, screen)
  BY <1>3 DEF Looks, ArchState
<1> QED BY <1>3, <1>4 DEF w

LEMMA LooksMem ==
  ASSUME NEW s, NEW p, NEW i, NEW v, NEW mem, NEW stk, NEW sp, NEW screen,
         Looks(s, p, i, v, mem, stk, sp, screen), NEW w \in [Addr -> Byte]
  PROVE  Looks([s EXCEPT !.mem = w], p, i, v, w, stk, sp, screen)
BY DEF Looks, ArchState

LEMMA LooksRegs ==
  ASSUME NEW s, NEW p, NEW i, NEW v, NEW mem, NEW stk, NEW sp, NEW screen,
         Looks(s, p, i, v, mem, stk, sp, screen), NEW w \in [Reg -> Byte]
  PROVE  Looks([s EXCEPT !.v = w], p, i, w, mem, stk, sp, screen)
BY DEF Looks, ArchState

LEMMA LooksScreen ==
  ASSUME NEW s, NEW p, NEW i, NEW v, NEW mem, NEW stk, NEW sp, NEW screen,
         Looks(s, p, i, v, mem, stk, sp, screen), NEW lit \in SUBSET Pixel
  PROVE  Looks([s EXCEPT !.fb = lit], p, i, v, mem, stk, sp, lit)
BY DEF Looks, ArchState

LEMMA LooksStack ==
  ASSUME NEW s, NEW p, NEW i, NEW v, NEW mem, NEW stk, NEW sp, NEW screen,
         Looks(s, p, i, v, mem, stk, sp, screen), NEW q \in Addr, NEW top \in 0..(StackDepth - 1),
         NEW stk2 \in [0..(StackDepth - 1) -> Addr]
  PROVE  Looks([s EXCEPT !.stack = stk2, !.sp = top, !.pc = q], q, i, v, mem, stk2, top, screen)
BY DEF Looks, ArchState

(* Where the oracle starts from, seen from EXEC or WAIT_KEY. *)
AtRest == /\ TypeOK /\ InStep /\ Active /\ ~LoadsRunning
          /\ state \in {"EXEC", "WAIT_KEY"} /\ Clock

LEMMA RestFrame ==
  ASSUME AtRest
  PROVE  /\ arch \in ArchState /\ arch.run = enable /\ opcode = Current /\ opcode \in Opcode
         /\ arch.delay = timers.delay /\ arch.sound = timers.sound /\ Timers
         /\ ArchMem' = ArchMem /\ arch.pc = pc /\ arch.mem = ArchMem
         /\ Looks(After(arch), Next2, index, V, ArchMem, stack.mem, stack.sp, fb)
<1>1. Between /\ ~Storing /\ ~Loading /\ ~Drawing /\ state \notin {"FETCH", "DECODE", "TRAP", "ALU_FLAG"}
  BY DEF AtRest, Between, Storing, Loading, Drawing
<1>2. /\ arch \in ArchState /\ arch.run = enable /\ opcode = Current
      /\ arch.delay = timers.delay /\ arch.sound = timers.sound
      /\ arch.pc = pc /\ arch.i = index /\ arch.v = V /\ arch.mem = ArchMem
      /\ arch.stack = stack.mem /\ arch.sp = stack.sp /\ arch.fb = fb
  BY <1>1 DEF AtRest, InStep, Followed, Active
<1>3. ArchMem' = ArchMem /\ Timers
  BY <1>1, NoWriteStep DEF AtRest, Active, Clock
<1>4. Looks(After(arch), Next2, index, V, ArchMem, stack.mem, stack.sp, fb)
  BY <1>2, AfterFields DEF Looks, Next2
<1> QED BY <1>2, <1>3, <1>4 DEF AtRest, TypeOK

(* The instruction is complete when the oracle gets where the core got. *)
LEMMA Reaches ==
  ASSUME arch \in ArchState, arch.run = enable, enable, enable',
         NEW keys \in KeySets, NEW rnd \in Draws(Current),
         Looks(Oracle!ExecOp(After(arch), Current, rnd, keys),
               pc', index', V', ArchMem', stack'.mem, stack'.sp, fb')
  PROVE  Completed
<1> DEFINE t == Oracle!ExecOp(After(arch), Current, rnd, keys)
<1>1. t = Oracle!Step(arch, rnd, keys)
  BY StepIs DEF Current
<1>2. Executed(arch, t)
  BY <1>1 DEF Executed, Current
<1> HIDE DEF t
<1>3. /\ t \in ArchState /\ t.delay = arch.delay /\ t.sound = arch.sound
      /\ t.pc = pc' /\ t.i = index' /\ t.v = V' /\ t.mem = ArchMem' /\ t.stack = stack'.mem
      /\ t.sp = stack'.sp /\ t.fb = fb' /\ t.run = arch.run
  BY DEF Looks, t
<1>4. arch.run \in BOOLEAN
  BY DEF ArchState
<1>5. Snapshot'.run = t.run
  BY <1>3, <1>4 DEF Snapshot
<1>6. SameButTimers(Snapshot', t)
  BY <1>3, <1>5 DEF Snapshot, SameButTimers
<1> QED BY <1>2, <1>3, <1>6 DEF Completed

-----------------------------------------------------------------------------
(* The instructions that complete in EXEC. *)

LEMMA ReachesAnyInput ==
  ASSUME AtRest, enable', Class(opcode) # 12,
         \A keys \in KeySets :
           Looks(Oracle!ExecOp(After(arch), opcode, 0, keys),
                 pc', index', V', ArchMem', stack'.mem, stack'.sp, fb')
  PROVE  Completed
<1>1. PICK keys \in KeySets : TRUE
  BY CoreAssumption
<1>2. 0 \in Draws(Current)
  BY RestFrame DEF Draws
<1> QED BY <1>1, <1>2, RestFrame, Reaches DEF AtRest, Active

LEMMA ScreenKept ==
  ASSUME TypeOK, Display, state # "DRAW", state = "EXEC" => ~SysCls(opcode)
  PROVE  fb' = fb
BY DEF Display, PixelOn, Executing

LEMMA ClsCompletes == ASSUME AtRest, enable', ExecCls PROVE Completed
<1>1. Class(opcode) = 0 /\ SysCls(opcode) /\ Executing
  BY RestFrame, SysClass DEF ExecCls, Exec
<1>2. pc' = Next2 /\ index' = index /\ V' = V /\ stack' = stack
  BY DEF ExecCls, Retire, Advance, regs
<1>3. fb' = {}
  BY <1>1 DEF AtRest, Clock, Display, PixelOn, Executing
<1>4. ASSUME NEW keys
      PROVE  Looks(Oracle!ExecOp(After(arch), opcode, 0, keys),
                   pc', index', V', ArchMem', stack'.mem, stack'.sp, fb')
  <2>1. Oracle!ExecOp(After(arch), opcode, 0, keys) = Oracle!Cls(After(arch))
    <3>1. opcode \in Opcode
      BY RestFrame
    <3> QED BY <1>1, <3>1, OracleSys
  <2>0. Oracle!Cls(After(arch)) = [After(arch) EXCEPT !.fb = {}]
    BY DEF Oracle!Cls
  <2>2. {} \in SUBSET Pixel
    OBVIOUS
  <2> HIDE DEF Looks
  <2> QED BY <1>2, <1>3, <2>0, <2>1, <2>2, RestFrame, LooksScreen
<1> QED BY <1>1, <1>4, ReachesAnyInput

LEMMA CallCompletes == ASSUME AtRest, ~Overflows, enable', ExecCall PROVE Completed
<1>1. Class(opcode) = 2 /\ state = "EXEC"
  BY RestFrame, ClassIs DEF ExecCall, Exec, Executing
<1>2. ~SysCls(opcode) /\ NNN(opcode) \in Int
  BY <1>1, RestFrame, SysClass, FieldTypes
<1>3. pc' = Wrap(NNN(opcode)) /\ index' = index /\ V' = V /\ fb' = fb
  BY <1>1, <1>2, ScreenKept DEF ExecCall, Retire, Advance, AtRest, Clock
<1>4. /\ stack'.mem = [stack.mem EXCEPT ![stack.sp] = Next2]
      /\ stack'.sp = (stack.sp + 1) % StackDepth
  <2>1. stack' = Pushed /\ stack.depth # StackDepth
    BY DEF ExecCall, Overflows
  <2> QED BY <2>1 DEF Pushed
<1>t. stack.mem \in [0..(StackDepth - 1) -> Addr] /\ stack.sp \in 0..(StackDepth - 1)
  BY DEF AtRest, TypeOK
<1>5. (stack.sp + 1) % StackDepth \in 0..(StackDepth - 1) /\ stack.sp % StackDepth = stack.sp
  BY <1>t, CoreAssumption, SMTT(30)
<1>6. ASSUME NEW keys
      PROVE  Looks(Oracle!ExecOp(After(arch), opcode, 0, keys),
                   pc', index', V', ArchMem', stack'.mem, stack'.sp, fb')
  <2> DEFINE s == After(arch)
             stk == [stack.mem EXCEPT ![stack.sp] = Next2]
             top == (stack.sp + 1) % StackDepth
             a == Wrap(NNN(opcode))
  <2>1. Oracle!ExecOp(s, opcode, 0, keys) = Oracle!Call(s, a)
    BY <1>1, RestFrame, OracleFlow
  <2>2. s.sp = stack.sp /\ s.stack = stack.mem /\ s.pc = Next2
    BY RestFrame DEF Looks
  <2>3. Oracle!Call(s, a) = [s EXCEPT !.stack = stk, !.sp = top, !.pc = a]
    <3> HIDE DEF s, a
    <3> QED BY <1>5, <2>2 DEF Oracle!Call
  <2>4. a \in Addr /\ stk \in [0..(StackDepth - 1) -> Addr] /\ top \in 0..(StackDepth - 1)
    BY <1>2, <1>t, <1>5, NextTypes, WrapType DEF AtRest
  <2>5. Looks(s, Next2, index, V, ArchMem, stack.mem, stack.sp, fb)
    BY RestFrame
  <2> HIDE DEF s, stk, top, a
  <2>6. Looks([s EXCEPT !.stack = stk, !.sp = top, !.pc = a], a, index, V, ArchMem, stk, top, fb)
    BY <2>4, <2>5, LooksStack
  <2>7. pc' = a /\ stack'.mem = stk /\ stack'.sp = top /\ ArchMem' = ArchMem
    BY <1>3, <1>4, RestFrame DEF a, stk, top
  <2> QED BY <1>3, <2>1, <2>3, <2>6, <2>7 DEF s
<1> QED BY <1>1, <1>6, ReachesAnyInput

LEMMA RetCompletes ==
  ASSUME AtRest, StackShape, ~ReturnsAtTop, enable', ExecRet PROVE Completed
<1>1. SysRet(opcode) /\ Class(opcode) = 0 /\ state = "EXEC" /\ ~SysCls(opcode)
  BY RestFrame, SysClass, SMT DEF ExecRet, Exec, Executing, SysRet, SysCls
<1>t. /\ stack.mem \in [0..(StackDepth - 1) -> Addr] /\ stack.sp \in 0..(StackDepth - 1)
      /\ stack.depth \in 0..StackDepth /\ StackDepth \in Nat /\ StackDepth > 0
  BY CoreAssumption DEF AtRest, TypeOK
<1>2. stack.sp # 0 /\ stack.depth # 0
  <2>1. stack.sp # 0
    BY DEF ExecRet, ReturnsAtTop
  <2>2. 0 % StackDepth = 0
    BY <1>t, SMT
  <2> QED BY <2>1, <2>2 DEF StackShape
<1>3. Below = stack.sp - 1 /\ stack.sp - 1 \in 0..(StackDepth - 1)
  BY <1>t, <1>2, SMTT(30) DEF Below
<1>4. /\ pc' = stack.mem[stack.sp - 1] /\ index' = index /\ V' = V /\ fb' = fb
      /\ stack' = Popped
  BY <1>1, <1>3, ScreenKept DEF ExecRet, Retire, Advance, AtRest, Clock
<1>5. stack'.mem = stack.mem /\ stack'.sp = stack.sp - 1
  BY <1>2, <1>3, <1>4 DEF Popped, AtRest, TypeOK
<1>6. ASSUME NEW keys
      PROVE  Looks(Oracle!ExecOp(After(arch), opcode, 0, keys),
                   pc', index', V', ArchMem', stack'.mem, stack'.sp, fb')
  <2> DEFINE s == After(arch)
             a == stack.mem[stack.sp - 1]
             top == stack.sp - 1
  <2>1. Oracle!ExecOp(s, opcode, 0, keys) = Oracle!Ret(s)
    <3>1. opcode \in Opcode
      BY RestFrame
    <3> HIDE DEF s
    <3> QED BY <1>1, <3>1, OracleSys
  <2>2. s.sp = stack.sp /\ s.stack = stack.mem
    BY RestFrame DEF Looks
  <2>3. Oracle!Ret(s) = [s EXCEPT !.sp = top, !.pc = a]
    <3> HIDE DEF s
    <3> QED BY <1>2, <2>2 DEF Oracle!Ret
  <2>4. a \in Addr /\ top \in 0..(StackDepth - 1)
    BY <1>t, <1>3
  <2>5. Looks(s, Next2, index, V, ArchMem, stack.mem, stack.sp, fb)
    BY RestFrame
  <2> HIDE DEF s, top, a
  <2>6. Looks([s EXCEPT !.sp = top, !.pc = a], a, index, V, ArchMem, stack.mem, top, fb)
    BY <2>4, <2>5 DEF Looks, ArchState
  <2>7. pc' = a /\ stack'.mem = stack.mem /\ stack'.sp = top /\ ArchMem' = ArchMem
    BY <1>4, <1>5, RestFrame DEF a, top
  <2> QED BY <1>4, <2>1, <2>3, <2>6, <2>7 DEF s
<1> QED BY <1>1, <1>6, ReachesAnyInput, SMT

LEMMA JumpCompletes == ASSUME AtRest, enable', ExecJump PROVE Completed
<1>1. /\ state = "EXEC" /\ opcode \in Opcode /\ NNN(opcode) \in Int
      /\ Class(opcode) = IF Op(opcode) = "JUMP_V0" THEN 11 ELSE 1
  BY RestFrame, ClassIs, FieldTypes DEF ExecJump, Exec, Executing
<1>2. ~SysCls(opcode) /\ Class(opcode) # 12
  BY <1>1, SysClass, SMT
<1> DEFINE a == Wrap(NNN(opcode) + IF Op(opcode) = "JUMP_V0" THEN V[0] ELSE 0)
<1>3. pc' = a /\ index' = index /\ V' = V /\ fb' = fb /\ stack' = stack
  BY <1>1, <1>2, ScreenKept DEF ExecJump, Retire, Advance, AtRest, Clock, regs
<1>4. a \in Addr
  <2>1. V[0] \in Byte
    BY ZeroTypes DEF AtRest, TypeOK
  <2>2. NNN(opcode) + (IF Op(opcode) = "JUMP_V0" THEN V[0] ELSE 0) \in Int
    BY <1>1, <2>1, IntSums
  <2> QED BY <2>2, WrapType
<1>5. ASSUME NEW keys
      PROVE  Looks(Oracle!ExecOp(After(arch), opcode, 0, keys),
                   pc', index', V', ArchMem', stack'.mem, stack'.sp, fb')
  <2> DEFINE s == After(arch)
  <2>1. Looks(s, Next2, index, V, ArchMem, stack.mem, stack.sp, fb) /\ ArchMem' = ArchMem
    BY RestFrame
  <2>2. Oracle!ExecOp(s, opcode, 0, keys) = JumpTo(s, a)
    <3>1. s.v = V /\ NNN(opcode) + 0 = NNN(opcode)
      BY <1>1, <2>1, SMT DEF Looks
    <3>2. CASE Op(opcode) = "JUMP_V0"
      BY <1>1, <3>1, <3>2, OracleFlow
    <3>3. CASE Op(opcode) # "JUMP_V0"
      BY <1>1, <3>1, <3>3, OracleFlow
    <3> QED BY <3>2, <3>3
  <2> HIDE DEF s, a
  <2> QED BY <1>3, <1>4, <2>1, <2>2, LooksPc DEF s
<1> QED BY <1>2, <1>5, ReachesAnyInput

(* Past the opcode, or past the next one too. *)
LEMMA SkipReaches ==
  ASSUME AtRest, Class(opcode) # 12, enable', Next4 = Next2 + 2, NEW c \in BOOLEAN,
         pc' = (IF c THEN Next4 ELSE Next2), index' = index, V' = V, stack' = stack, fb' = fb,
         NEW keys \in KeySets,
         Oracle!ExecOp(After(arch), opcode, 0, keys) = Oracle!SkipIf(After(arch), c)
  PROVE  Completed
<1> DEFINE s == After(arch)
<1>1. /\ Looks(s, Next2, index, V, ArchMem, stack.mem, stack.sp, fb) /\ ArchMem' = ArchMem
      /\ arch \in ArchState /\ arch.run = enable /\ opcode = Current
  BY RestFrame
<1>2. s.pc = Next2 /\ Next4 \in Addr
  BY <1>1, NextTypes DEF Looks, AtRest
<1>3. CASE c
  <2>1. Oracle!ExecOp(s, opcode, 0, keys) = JumpTo(s, Next4)
    BY <1>2, <1>3 DEF Oracle!SkipIf, JumpTo
  <2>2. Looks(JumpTo(s, Next4), Next4, index, V, ArchMem, stack.mem, stack.sp, fb)
    BY <1>1, <1>2, LooksPc
  <2>3. Looks(Oracle!ExecOp(s, Current, 0, keys),
              pc', index', V', ArchMem', stack'.mem, stack'.sp, fb')
    BY <1>1, <1>3, <2>1, <2>2
  <2> QED BY <1>1, <2>3, Reaches DEF Draws, AtRest, Active
<1>4. CASE ~c
  <2>1. Oracle!ExecOp(s, opcode, 0, keys) = s
    BY <1>4 DEF Oracle!SkipIf
  <2>2. Looks(Oracle!ExecOp(s, Current, 0, keys),
              pc', index', V', ArchMem', stack'.mem, stack'.sp, fb')
    BY <1>1, <1>4, <2>1
  <2> QED BY <1>1, <2>2, Reaches DEF Draws, AtRest, Active
<1> QED BY <1>3, <1>4

LEMMA SkipCompletes == ASSUME AtRest, ~SkipsPastEnd, enable', ExecSkip PROVE Completed
<1> DEFINE c == SkipTaken(opcode, V[X], V[Y])
<1>1. /\ state = "EXEC" /\ opcode \in Opcode /\ Next4 = Next2 + 2
      /\ Class(opcode) \in {3, 4, 5, 9} /\ Class(opcode) # 12
      /\ Op(opcode) \in {"SKIP_EQ_IMM", "SKIP_NE_IMM", "SKIP_EQ_REG", "SKIP_NE_REG"}
  BY RestFrame, ClassIs DEF ExecSkip, Exec, Executing, SkipsPastEnd
<1>2. ~SysCls(opcode)
  BY <1>1, SysClass, SMT
<1>3. pc' = (IF c THEN Next4 ELSE Next2) /\ index' = index /\ V' = V /\ fb' = fb /\ stack' = stack
  BY <1>1, <1>2, ScreenKept DEF ExecSkip, Retire, Advance, AtRest, Clock, regs
<1>4. PICK keys \in KeySets : TRUE
  BY CoreAssumption
<1>5. c \in BOOLEAN
  BY <1>1 DEF SkipTaken
<1>6. Oracle!ExecOp(After(arch), opcode, 0, keys) = Oracle!SkipIf(After(arch), c)
  <2>1. Oracle!ExecOp(After(arch), opcode, 0, keys) = Oracle!ExecSkip(After(arch), opcode)
    BY <1>1, OracleFlow
  <2>2. After(arch).v = V
    BY RestFrame DEF Looks
  <2>3. c <=> \/ Class(opcode) = 3 /\ V[X] = Imm(opcode)
              \/ Class(opcode) = 4 /\ V[X] # Imm(opcode)
              \/ Class(opcode) = 5 /\ Nib(opcode) = 0 /\ V[X] = V[Y]
              \/ Class(opcode) = 9 /\ Nib(opcode) = 0 /\ V[X] # V[Y]
    BY <1>1, ClassIs DEF SkipTaken
  <2>4. CASE c
    BY <2>1, <2>2, <2>3, <2>4, OracleFields DEF Oracle!ExecSkip, Oracle!SkipIf, X, Y
  <2>5. CASE ~c
    BY <2>1, <2>2, <2>3, <2>5, OracleFields DEF Oracle!ExecSkip, Oracle!SkipIf, X, Y
  <2> QED BY <2>4, <2>5
<1> HIDE DEF c
<1> QED BY <1>1, <1>3, <1>5, <1>6, SkipReaches

LEMMA KeySkipCompletes == ASSUME AtRest, ~SkipsPastEnd, enable', ExecKeySkip PROVE Completed
<1>1. /\ state = "EXEC" /\ opcode \in Opcode /\ Next4 = Next2 + 2 /\ Class(opcode) = 14
  BY RestFrame, ClassIs DEF ExecKeySkip, Exec, Executing, SkipsPastEnd
<1>2. ~SysCls(opcode) /\ Class(opcode) # 12
  BY <1>1, SysClass, SMT
<1>3. PICK keys \in KeySets : Retire(IF KeySkipTaken(opcode, V[X], keys) THEN Next4 ELSE Next2)
  BY DEF ExecKeySkip
<1> DEFINE c == KeySkipTaken(opcode, V[X], keys)
<1>4. pc' = (IF c THEN Next4 ELSE Next2) /\ index' = index /\ V' = V /\ fb' = fb /\ stack' = stack
  BY <1>1, <1>2, <1>3, ScreenKept DEF ExecKeySkip, Retire, Advance, AtRest, Clock, regs
<1>5. c \in BOOLEAN
  BY DEF KeySkipTaken
<1>6. Oracle!ExecOp(After(arch), opcode, 0, keys) = Oracle!SkipIf(After(arch), c)
  <2>1. Oracle!ExecOp(After(arch), opcode, 0, keys)
          = Oracle!ExecKeypad(After(arch), Imm(opcode), XReg(opcode), keys)
    BY <1>1, OracleFlow
  <2>2. After(arch).v = V
    BY RestFrame DEF Looks
  <2>3. CASE c
    BY <2>1, <2>2, <2>3 DEF Oracle!ExecKeypad, Oracle!SkipIf, KeySkipTaken, X
  <2>4. CASE ~c
    BY <2>1, <2>2, <2>4 DEF Oracle!ExecKeypad, Oracle!SkipIf, KeySkipTaken, X
  <2> QED BY <2>3, <2>4
<1> HIDE DEF c
<1> QED BY <1>1, <1>2, <1>4, <1>5, <1>6, SkipReaches

(* One register is written and the core goes on to the next opcode. *)
LEMMA RegReaches ==
  ASSUME AtRest, enable', NEW b \in Byte, V' = [V EXCEPT ![X] = b],
         pc' = Next2, index' = index, stack' = stack, fb' = fb,
         NEW keys \in KeySets, NEW rnd \in Draws(opcode),
         Oracle!ExecOp(After(arch), opcode, rnd, keys) = Oracle!SetReg(After(arch), X, b)
  PROVE  Completed
<1> DEFINE s == After(arch)
<1>1. /\ Looks(s, Next2, index, V, ArchMem, stack.mem, stack.sp, fb) /\ ArchMem' = ArchMem
      /\ arch \in ArchState /\ arch.run = enable /\ opcode = Current
  BY RestFrame
<1>2. X \in Reg
  BY RegTypes DEF AtRest
<1>3. Looks(Oracle!SetReg(s, X, b), Next2, index, [V EXCEPT ![X] = b], ArchMem, stack.mem, stack.sp, fb)
  BY <1>1, <1>2, LooksReg
<1>4. Looks(Oracle!ExecOp(s, Current, rnd, keys),
            pc', index', V', ArchMem', stack'.mem, stack'.sp, fb')
  BY <1>1, <1>3
<1> QED BY <1>1, <1>4, Reaches DEF AtRest, Active

LEMMA RegCompletes == ASSUME AtRest, enable', ExecReg PROVE Completed
<1>1. /\ state = "EXEC" /\ opcode \in Opcode
      /\ Op(opcode) \in {"LOAD_IMM", "ADD_IMM", "RANDOM", "TIMER_READ"}
      /\ Imm(opcode) \in Byte /\ V[X] \in Byte /\ timers.delay \in Byte /\ rng \in Byte
  BY RestFrame, FieldTypes, RegTypes DEF ExecReg, Exec, Executing, AtRest, TypeOK
<1>2. PICK keys \in KeySets : TRUE
  BY CoreAssumption
<1>3. opcode \in Opcode /\ Class(opcode) # 0 /\ After(arch).v = V /\ After(arch).delay = timers.delay
  BY <1>1, RestFrame, ClassIs DEF Looks
<1>4. pc' = Next2 /\ index' = index /\ fb' = fb /\ stack' = stack
  BY <1>1, <1>3, SysClass, ScreenKept DEF ExecReg, Retire, Advance, AtRest, Clock
<1>5. CASE Op(opcode) = "LOAD_IMM"
  <2>1. V' = [V EXCEPT ![X] = Imm(opcode)]
    BY <1>5 DEF ExecReg, SetV
  <2>2. Class(opcode) = 6
    BY <1>1, <1>5, ClassIs
  <2>3. /\ Oracle!ExecOp(After(arch), opcode, 0, keys) = Oracle!SetReg(After(arch), X, Imm(opcode))
        /\ 0 \in Draws(opcode)
    BY <1>1, <2>2, OracleImm DEF X, Draws
  <2> QED BY <1>1, <1>4, <2>1, <2>3, RegReaches
<1>6. CASE Op(opcode) = "ADD_IMM"
  <2> DEFINE b == (V[X] + Imm(opcode)) % 256
  <2>1. V' = [V EXCEPT ![X] = b]
    BY <1>6 DEF ExecReg, SetV
  <2>2. Class(opcode) = 7
    BY <1>1, <1>6, ClassIs
  <2>3. /\ Oracle!ExecOp(After(arch), opcode, 0, keys) = Oracle!SetReg(After(arch), X, b)
        /\ 0 \in Draws(opcode)
    BY <1>1, <1>3, <2>2, OracleAdd DEF X, Draws
  <2>4. b \in Byte
    BY <1>1, ByteSums
  <2> HIDE DEF b
  <2> QED BY <1>4, <2>1, <2>3, <2>4, RegReaches
<1>7. CASE Op(opcode) = "RANDOM"
  <2> DEFINE b == BitAnd(LfsrNext(rng), Imm(opcode))
  <2>1. V' = [V EXCEPT ![X] = b]
    BY <1>7 DEF ExecReg, SetV
  <2>2. Class(opcode) = 12
    BY <1>1, <1>7, ClassIs
  <2>3. LfsrNext(rng) \in Byte /\ LfsrNext(rng) \in Draws(opcode)
    BY <1>1, <2>2, LfsrType DEF Draws
  <2>4. Oracle!BitAnd(LfsrNext(rng), Imm(opcode)) = b
    BY DEF Oracle!BitAnd, Oracle!FromBits, Oracle!HasBit, Oracle!Pick, BitAnd, FromBits, HasBit, Pick
  <2>5. Oracle!ExecOp(After(arch), opcode, LfsrNext(rng), keys) = Oracle!SetReg(After(arch), X, b)
    BY <1>1, <2>2, <2>4, OracleRandom DEF X
  <2>6. b \in Byte
    BY <1>1, <2>3, BitTypes
  <2> HIDE DEF b
  <2> QED BY <1>4, <2>1, <2>3, <2>5, <2>6, RegReaches
<1>8. CASE Op(opcode) = "TIMER_READ"
  <2>1. V' = [V EXCEPT ![X] = timers.delay]
    BY <1>8 DEF ExecReg, SetV
  <2>2. Class(opcode) = 15 /\ Imm(opcode) = 7
    BY <1>1, <1>8, MiscClass, MiscIs DEF MiscOps
  <2>3. Oracle!ExecOp(After(arch), opcode, 0, keys) = Oracle!ExecMisc(After(arch), 7, X, keys)
    BY <1>1, <2>2, OracleMisc DEF X
  <2>4. Oracle!ExecMisc(After(arch), 7, X, keys) = Oracle!SetReg(After(arch), X, timers.delay)
    BY <1>3, SMT DEF Oracle!ExecMisc
  <2>5. 0 \in Draws(opcode)
    BY <2>2 DEF Draws
  <2> QED BY <1>1, <1>4, <2>1, <2>3, <2>4, <2>5, RegReaches
<1> QED BY <1>1, <1>5, <1>6, <1>7, <1>8

LEMMA OracleBits ==
  ASSUME NEW a, NEW b
  PROVE  /\ Oracle!BitOr(a, b) = BitOr(a, b) /\ Oracle!BitAnd(a, b) = BitAnd(a, b)
         /\ Oracle!BitXor(a, b) = BitXor(a, b) /\ Oracle!Pick(a, b) = Pick(a, b)
BY DEF Oracle!BitOr, Oracle!BitAnd, Oracle!BitXor, Oracle!FromBits, Oracle!HasBit, Oracle!Pick,
       BitOr, BitAnd, BitXor, FromBits, HasBit, Pick

LEMMA AluCompletes == ASSUME AtRest, enable', ExecAlu PROVE Completed
<1> DEFINE b == AluResult(Nib(opcode), V[X], V[Y])
<1>1. /\ state = "EXEC" /\ opcode \in Opcode /\ Class(opcode) = 8 /\ Nib(opcode) \in 0..3
      /\ V[X] \in Byte /\ V[Y] \in Byte /\ After(arch).v = V
  BY RestFrame, RegTypes, ClassIs DEF ExecAlu, Exec, Executing, AluSimple, AtRest, Looks
<1>2. PICK keys \in KeySets : TRUE
  BY CoreAssumption
<1>3. /\ pc' = Next2 /\ index' = index /\ fb' = fb /\ stack' = stack /\ V' = [V EXCEPT ![X] = b]
  BY <1>1, SysClass, ScreenKept, SMT DEF ExecAlu, Advance, AtRest, Clock, SetV
<1>4. b \in Byte
  <2>1. Nib(opcode) \in 0..15
    BY <1>1, SMT
  <2> QED BY <1>1, <2>1, AluTypes
<1>5. Oracle!ExecAlu(After(arch), Nib(opcode), X, Y) = Oracle!SetReg(After(arch), X, b)
  <2> DEFINE s == After(arch)
             n == Nib(opcode)
  <2>1. s.v = V /\ n \in 0..3
    BY <1>1
  <2>2. Oracle!BitOr(V[X], V[Y]) = BitOr(V[X], V[Y]) /\ Oracle!BitAnd(V[X], V[Y]) = BitAnd(V[X], V[Y])
        /\ Oracle!BitXor(V[X], V[Y]) = BitXor(V[X], V[Y])
    BY OracleBits
  <2> HIDE DEF s, n
  <2>3. Oracle!ExecAlu(s, n, X, Y) = Oracle!SetReg(s, X, AluResult(n, V[X], V[Y]))
    <3>1. CASE n = 0
      BY <2>1, <3>1, SMT DEF Oracle!ExecAlu, AluResult
    <3>2. CASE n = 1
      BY <2>1, <2>2, <3>2, SMT DEF Oracle!ExecAlu, AluResult
    <3>3. CASE n = 2
      BY <2>1, <2>2, <3>3, SMT DEF Oracle!ExecAlu, AluResult
    <3>4. CASE n = 3
      BY <2>1, <2>2, <3>4, SMT DEF Oracle!ExecAlu, AluResult
    <3> QED BY <2>1, <3>1, <3>2, <3>3, <3>4, SMT
  <2> QED BY <2>3 DEF s, n
<1>6. Oracle!ExecOp(After(arch), opcode, 0, keys) = Oracle!SetReg(After(arch), X, b)
  BY <1>1, <1>5, OracleAlu DEF X, Y
<1>7. 0 \in Draws(opcode)
  BY <1>1 DEF Draws
<1> HIDE DEF b
<1> QED BY <1>3, <1>4, <1>6, <1>7, RegReaches

LEMMA IndexCompletes == ASSUME AtRest, enable', ExecIndex PROVE Completed
<1> DEFINE a == index'
           s == After(arch)
<1>1. /\ state = "EXEC" /\ opcode \in Opcode /\ Op(opcode) \in {"LOAD_I", "ADD_I", "FONT_ADDR"}
      /\ V[X] \in Byte /\ index \in Addr
      /\ Looks(s, Next2, index, V, ArchMem, stack.mem, stack.sp, fb) /\ ArchMem' = ArchMem
  BY RestFrame, RegTypes DEF ExecIndex, Exec, Executing, AtRest, TypeOK
<1>2. Class(opcode) \in {10, 15} /\ s.v = V /\ s.i = index
  BY <1>1, ClassIs, MiscClass DEF MiscOps, Looks
<1>3. /\ pc' = Next2 /\ fb' = fb /\ stack' = stack /\ V' = V
  BY <1>1, <1>2, SysClass, ScreenKept, SMT DEF ExecIndex, Retire, Advance, AtRest, Clock
<1>4. ASSUME NEW keys PROVE Oracle!ExecOp(s, opcode, 0, keys) = PointTo(s, a)
  <2>1. CASE Op(opcode) = "LOAD_I"
    <3>1. a = Wrap(NNN(opcode))
      BY <2>1 DEF ExecIndex
    <3> QED BY <1>1, <2>1, <3>1, ClassIs, OracleIndex
  <2>2. CASE Op(opcode) = "ADD_I"
    <3>1. a = Wrap(index + V[X])
      BY <2>2 DEF ExecIndex
    <3>2. Class(opcode) = 15 /\ Imm(opcode) = 30
      BY <1>1, <2>2, MiscClass, MiscIs DEF MiscOps
    <3>3. Oracle!ExecOp(s, opcode, 0, keys) = Oracle!ExecMisc(s, 30, X, keys)
      BY <1>1, <3>2, OracleMisc DEF X
    <3>4. Oracle!ExecMisc(s, 30, X, keys) = PointTo(s, a)
      <4>1. Oracle!Wrap(index + V[X]) = a
        BY <3>1, OracleFields
      <4> HIDE DEF s, a
      <4> QED BY <1>2, <4>1, SMT DEF Oracle!ExecMisc, PointTo
    <3> QED BY <3>3, <3>4
  <2>3. CASE Op(opcode) = "FONT_ADDR"
    <3>1. a = Wrap((4 * (V[X] % 16)) + (V[X] % 16))
      BY <2>3 DEF ExecIndex, FontAddr
    <3>2. Class(opcode) = 15 /\ Imm(opcode) = 41
      BY <1>1, <2>3, MiscClass, MiscIs DEF MiscOps
    <3>3. Oracle!ExecOp(s, opcode, 0, keys) = Oracle!ExecMisc(s, 41, X, keys)
      BY <1>1, <3>2, OracleMisc DEF X
    <3>4. Oracle!ExecMisc(s, 41, X, keys) = PointTo(s, a)
      <4>1. (V[X] % 16) * 5 = (4 * (V[X] % 16)) + (V[X] % 16)
        BY <1>1, SMT DEF Byte
      <4>2. Oracle!Wrap((V[X] % 16) * 5) = a
        BY <3>1, <4>1, OracleFields
      <4> HIDE DEF s, a
      <4> QED BY <1>2, <4>2, SMT DEF Oracle!ExecMisc, PointTo
    <3> QED BY <3>3, <3>4
  <2> QED BY <1>1, <2>1, <2>2, <2>3
<1>5. a \in Addr
  <2>1. NNN(opcode) \in Int /\ index + V[X] \in Int
    BY <1>1, AddrSpaceAssumption, FieldTypes, SMT DEF Byte, Addr
  <2>2. Wrap(NNN(opcode)) \in Addr /\ Wrap(index + V[X]) \in Addr /\ FontAddr(V[X]) \in Addr
    BY <1>1, <2>1, WrapType, FontAddrType
  <2> QED BY <1>1, <2>2 DEF ExecIndex
<1>6. ASSUME NEW keys
      PROVE  Looks(Oracle!ExecOp(s, opcode, 0, keys),
                   pc', index', V', ArchMem', stack'.mem, stack'.sp, fb')
  <2> HIDE DEF s
  <2> QED BY <1>1, <1>3, <1>4, <1>5, LooksIndex
<1> QED BY <1>2, <1>6, ReachesAnyInput, SMT

(* A timer is written: a period that ends in the same cycle counts the      *)
(* other timer down, before the write.                                      *)
LEMMA TimerWritten ==
  ASSUME AtRest, ExecTimer, NEW s \in ArchState, NEW keys, SameButTimers(s, arch)
  PROVE  /\ Oracle!Step(s, 0, keys) \in ArchState
         /\ SameButTimers(Oracle!Step(s, 0, keys), After(arch))
         /\ Oracle!Step(s, 0, keys).delay
              = IF Op(opcode) = "TIMER_DELAY_WRITE" THEN V[X] ELSE s.delay
         /\ Oracle!Step(s, 0, keys).sound
              = IF Op(opcode) = "TIMER_SOUND_WRITE" THEN V[X] ELSE s.sound
<1> DEFINE r == After(s)
           t == Oracle!Step(s, 0, keys)
<1>1. /\ opcode \in Opcode /\ Op(opcode) \in {"TIMER_DELAY_WRITE", "TIMER_SOUND_WRITE"}
      /\ V[X] \in Byte /\ arch \in ArchState
      /\ opcode = OpcodeIn(arch.mem, arch.pc) /\ arch.v = V
  <2>1. After(arch).v = arch.v /\ After(arch).v = V
    BY RestFrame, AfterFields DEF Looks
  <2> QED BY <2>1, RestFrame, RegTypes DEF ExecTimer, Exec, AtRest, Current
<1>2. Class(opcode) = 15
  BY <1>1, MiscClass DEF MiscOps
<1>3. s.mem = arch.mem /\ s.pc = arch.pc /\ s.v = arch.v
  BY DEF SameButTimers
<1>4. t = Oracle!ExecMisc(r, Imm(opcode), X, keys)
  BY <1>1, <1>2, <1>3, StepIs, OracleMisc DEF X
<1>5. /\ r \in ArchState /\ r.delay = s.delay /\ r.sound = s.sound /\ r.v = V
      /\ SameButTimers(r, After(arch))
  BY <1>1, <1>3, AfterFields DEF SameButTimers
<1>6. CASE Op(opcode) = "TIMER_DELAY_WRITE"
  <2>1. Imm(opcode) = 21
    BY <1>1, <1>2, <1>6, MiscIs
  <2> HIDE DEF r, t
  <2>2. t = [r EXCEPT !.delay = V[X]]
    BY <1>4, <1>5, <2>1, SMT DEF Oracle!ExecMisc
  <2>3. t \in ArchState /\ SameButTimers(t, After(arch)) /\ t.delay = V[X] /\ t.sound = s.sound
    BY <1>1, <1>5, <2>2 DEF ArchState, SameButTimers
  <2> QED BY <1>6, <2>3 DEF t
<1>7. CASE Op(opcode) = "TIMER_SOUND_WRITE"
  <2>1. Imm(opcode) = 24
    BY <1>1, <1>2, <1>7, MiscIs
  <2> HIDE DEF r, t
  <2>2. t = [r EXCEPT !.sound = V[X]]
    BY <1>4, <1>5, <2>1, SMT DEF Oracle!ExecMisc
  <2>3. t \in ArchState /\ SameButTimers(t, After(arch)) /\ t.sound = V[X] /\ t.delay = s.delay
    BY <1>1, <1>5, <2>2 DEF ArchState, SameButTimers
  <2> QED BY <1>7, <2>3 DEF t
<1> QED BY <1>1, <1>6, <1>7

LEMMA TimerCompletes ==
  ASSUME AtRest, TypeOK', enable', arch' = Snapshot', ExecTimer PROVE Oracle!Instruction
<1> DEFINE s == IF timers.tick THEN Pass(arch) ELSE arch
<1>1. PICK keys \in KeySets : TRUE
  BY CoreAssumption
<1>2. /\ arch \in ArchState /\ arch.delay = timers.delay /\ arch.sound = timers.sound /\ Timers
      /\ arch.run = enable /\ enable /\ state = "EXEC" /\ opcode \in Opcode
      /\ Op(opcode) \in {"TIMER_DELAY_WRITE", "TIMER_SOUND_WRITE"} /\ opcode = Current
  BY RestFrame DEF ExecTimer, Exec, Executing, AtRest, Active
<1>3. s \in ArchState /\ SameButTimers(s, arch)
  BY <1>2, PassFields DEF SameButTimers
<1>4. /\ s.delay = (IF timers.tick THEN Less(timers.delay) ELSE timers.delay)
      /\ s.sound = (IF timers.tick THEN Less(timers.sound) ELSE timers.sound)
  BY <1>2, PassFields
<1>5. Class(opcode) # 12
  BY <1>2, MiscClass DEF MiscOps
<1>6. /\ pc' = Next2 /\ index' = index /\ V' = V /\ stack' = stack /\ fb' = fb
  <2>1. ~SysCls(opcode)
    BY <1>2, SysClass, MiscClass DEF MiscOps
  <2> QED BY <1>2, <2>1, ScreenKept DEF ExecTimer, Retire, Advance, AtRest, Clock, regs
<1>7. /\ timers'.delay = (IF Op(opcode) = "TIMER_DELAY_WRITE" THEN V[X] ELSE s.delay)
      /\ timers'.sound = (IF Op(opcode) = "TIMER_SOUND_WRITE" THEN V[X] ELSE s.sound)
  <2>1. \A ops : Exec(ops) <=> Op(opcode) \in ops
    BY DEF ExecTimer, Exec
  <2>2. timers'.delay = IF Op(opcode) = "TIMER_DELAY_WRITE" THEN V[X] ELSE Down(timers.delay)
    BY <1>2, <2>1 DEF Timers
  <2>3. timers'.sound = IF Op(opcode) = "TIMER_SOUND_WRITE" THEN V[X] ELSE Down(timers.sound)
    BY <1>2, <2>1 DEF Timers
  <2>4. Down(timers.delay) = s.delay /\ Down(timers.sound) = s.sound
    BY <1>4 DEF Down, Less
  <2> QED BY <2>2, <2>3, <2>4
<1> DEFINE t == Oracle!Step(s, 0, keys)
<1>8. /\ t \in ArchState /\ SameButTimers(t, After(arch))
      /\ t.delay = timers'.delay /\ t.sound = timers'.sound
  <2> HIDE DEF s
  <2> QED BY <1>3, <1>7, TimerWritten
<1>9. Snapshot' = t
  <2>1. Snapshot' \in ArchState
    BY SnapshotTypeNext
  <2>2. Looks(After(arch), Next2, index, V, ArchMem, stack.mem, stack.sp, fb) /\ ArchMem' = ArchMem
    BY RestFrame
  <2>3. /\ Snapshot'.pc = pc' /\ Snapshot'.i = index' /\ Snapshot'.v = V' /\ Snapshot'.mem = ArchMem'
        /\ Snapshot'.stack = stack'.mem /\ Snapshot'.sp = stack'.sp /\ Snapshot'.fb = fb'
        /\ Snapshot'.delay = timers'.delay /\ Snapshot'.sound = timers'.sound
        /\ Snapshot'.run = enable'
    BY DEF Snapshot
  <2>4. arch.run \in BOOLEAN
    BY <1>2 DEF ArchState
  <2> HIDE DEF t
  <2>5. SameButTimers(Snapshot', t)
    BY <1>2, <1>6, <1>8, <2>2, <2>3, <2>4 DEF SameButTimers, Looks
  <2> QED BY <1>8, <2>1, <2>3, <2>5, SameState
<1>10. t \in {Oracle!Step(arch, 0, keys), Oracle!Step(Pass(arch), 0, keys)}
  BY DEF t
<1>11. 0 \in IF Oracle!Class(Oracle!FetchOpcode(arch)) = 12 THEN Oracle!Byte ELSE {0}
  BY <1>2, <1>5, StepIs, OracleFields DEF Current
<1> HIDE DEF t
<1> QED BY <1>1, <1>9, <1>10, <1>11 DEF Oracle!Instruction, Pass

(* An illegal opcode is no operation of the oracle. *)
LEMMA IllegalIsNone ==
  ASSUME NEW oc \in Opcode, ~Legal(oc), NEW s, NEW keys
  PROVE  Oracle!ExecOp(s, oc, 0, keys) = s /\ Class(oc) # 12
<1>1. Class(oc) \in {0, 5, 8, 9, 14, 15}
  BY ClassIs DEF Legal
<1>f. Nib(oc) \in 0..15 /\ Imm(oc) \in 0..255
  BY FieldTypes DEF Byte
<1>2. CASE Class(oc) = 0
  <2>1. ~SysCls(oc) /\ ~SysRet(oc)
    <3>1. Op(oc) = "SYS"
      BY <1>2, ClassIs
    <3> QED BY <3>1 DEF Legal
  <2> QED BY <1>2, <2>1, OracleNone
<1>3. CASE Class(oc) \in {5, 9}
  <2>1. Nib(oc) # 0
    BY <1>3, ClassIs DEF Legal
  <2>2. Oracle!ExecOp(s, oc, 0, keys) = Oracle!ExecSkip(s, oc)
    BY <1>3, OracleFlow
  <2>3. Oracle!ExecSkip(s, oc) = s
    <3>1. Oracle!Class(oc) \in {5, 9} /\ Oracle!Nib(oc) # 0
      BY <1>3, <2>1, OracleFields
    <3> HIDE DEF Class
    <3> QED BY <3>1, SMT DEF Oracle!ExecSkip, Oracle!SkipIf
  <2> QED BY <1>3, <2>2, <2>3
<1>4. CASE Class(oc) = 8
  <2>1. ~AluSimple(oc) /\ ~AluFlag(oc)
    BY <1>4, ClassIs DEF Legal
  <2>2. Nib(oc) \notin {0, 1, 2, 3, 4, 5, 6, 7, 14}
    BY <1>f, <2>1, SMT DEF AluSimple, AluFlag
  <2>3. Oracle!ExecOp(s, oc, 0, keys) = Oracle!ExecAlu(s, Nib(oc), XReg(oc), YReg(oc))
    BY <1>4, OracleAlu
  <2>4. ASSUME NEW n \in 0..15, n \notin {0, 1, 2, 3, 4, 5, 6, 7, 14}, NEW x, NEW y
        PROVE  Oracle!ExecAlu(s, n, x, y) = s
    BY <2>4, SMT DEF Oracle!ExecAlu
  <2> QED BY <1>4, <1>f, <2>2, <2>3, <2>4
<1>5. CASE Class(oc) = 14
  <2>1. Imm(oc) \notin {158, 161}
    BY <1>5, ClassIs DEF Legal
  <2>2. Oracle!ExecOp(s, oc, 0, keys) = Oracle!ExecKeypad(s, Imm(oc), XReg(oc), keys)
    BY <1>5, OracleFlow
  <2>3. Oracle!ExecKeypad(s, Imm(oc), XReg(oc), keys) = s
    BY <2>1 DEF Oracle!ExecKeypad, Oracle!SkipIf
  <2> QED BY <1>5, <2>2, <2>3
<1>6. CASE Class(oc) = 15
  <2>1. Op(oc) = "ILLEGAL"
    <3>1. Op(oc) = MiscOp(Imm(oc))
      BY <1>6, ClassIs
    <3>2. MiscOp(Imm(oc)) \notin {"SYS", "SKIP_EQ_REG", "SKIP_NE_REG", "ALU", "KEY_SKIP"}
      BY DEF MiscOp
    <3> QED BY <3>1, <3>2 DEF Legal
  <2>2. Imm(oc) \notin {7, 10, 21, 24, 30, 41, 51, 85, 101}
    BY <1>6, <2>1, MiscIs
  <2>3. Oracle!ExecOp(s, oc, 0, keys) = Oracle!ExecMisc(s, Imm(oc), XReg(oc), keys)
    BY <1>6, OracleMisc
  <2>4. ASSUME NEW k \in 0..255, k \notin {7, 10, 21, 24, 30, 41, 51, 85, 101}, NEW x
        PROVE  Oracle!ExecMisc(s, k, x, keys) = s
    BY <2>4, SMT DEF Oracle!ExecMisc
  <2> QED BY <1>6, <1>f, <2>2, <2>3, <2>4
<1> QED BY <1>1, <1>2, <1>3, <1>4, <1>5, <1>6

LEMMA IllegalCompletes ==
  ASSUME AtRest, enable', ExecIllegal, IllegalPolicy = "NOP" PROVE Completed
<1>1. state = "EXEC" /\ opcode \in Opcode /\ ~Legal(opcode)
  BY RestFrame DEF ExecIllegal, Executing
<1>2. ~SysCls(opcode)
  BY <1>1, SysClass, ClassIs DEF Legal
<1>3. pc' = Next2 /\ index' = index /\ V' = V /\ fb' = fb /\ stack' = stack
  BY <1>1, <1>2, ScreenKept DEF ExecIllegal, AtRest, Clock, regs
<1>4. ASSUME NEW keys
      PROVE  Looks(Oracle!ExecOp(After(arch), opcode, 0, keys),
                   pc', index', V', ArchMem', stack'.mem, stack'.sp, fb')
  BY <1>1, <1>3, RestFrame, IllegalIsNone
<1> QED BY <1>1, <1>4, IllegalIsNone, ReachesAnyInput

(* A sprite without rows clears VF and leaves the screen. *)
LEMMA NoRowCompletes ==
  ASSUME AtRest, ~DrawsNoRow, enable', ExecDraw, Nib(opcode) = 0 PROVE Completed
<1>1. /\ state = "EXEC" /\ opcode \in Opcode /\ Class(opcode) = 13 /\ V[VF] = 0
      /\ VF \in Reg
  BY RestFrame, ClassIs, SMT DEF ExecDraw, Exec, Executing, DrawsNoRow, VF, Reg
<1>2. ~SysCls(opcode)
  BY <1>1, SysClass
<1>3. pc' = Next2 /\ index' = index /\ V' = V /\ fb' = fb /\ stack' = stack
  BY <1>1, <1>2, ScreenKept DEF ExecDraw, AtRest, Clock, regs
<1>4. ASSUME NEW keys
      PROVE  Looks(Oracle!ExecOp(After(arch), opcode, 0, keys),
                   pc', index', V', ArchMem', stack'.mem, stack'.sp, fb')
  <2> DEFINE s == After(arch)
  <2>1. /\ Looks(s, Next2, index, V, ArchMem, stack.mem, stack.sp, fb) /\ ArchMem' = ArchMem
        /\ V \in [Reg -> Byte]
    BY RestFrame DEF AtRest, TypeOK
  <2>2. Oracle!ExecOp(s, opcode, 0, keys) = Oracle!Draw(s, X, Y, 0)
    BY <1>1, OracleDraw DEF X, Y
  <2>3. 0..(0 - 1) = {}
    BY SMT
  <2> HIDE DEF s
  <2>4. Oracle!Draw(s, X, Y, 0) = Oracle!SetFlag([s EXCEPT !.fb = s.fb], Oracle!Pick({} # {}, 1))
    <3>1. (0..(0 - 1)) \X (0..7) = {}
      BY <2>3
    <3> DEFINE set == {p \in (0..(0 - 1)) \X (0..7) :
                         Oracle!SpriteBit(s.mem[Oracle!Wrap(s.i + p[1])], p[2])}
               sprite == {Oracle!SpritePixel(s.v[X], s.v[Y], p[2], p[1]) : p \in set}
    <3>2. set = {}
      BY <3>1
    <3>3. sprite = {}
      BY <3>2
    <3>4. Oracle!Draw(s, X, Y, 0)
            = Oracle!SetFlag([s EXCEPT !.fb = (@ \ sprite) \cup (sprite \ @)],
                             Oracle!Collision(sprite, s.fb))
      BY DEF Oracle!Draw
    <3> HIDE DEF sprite
    <3>5. (s.fb \ sprite) \cup (sprite \ s.fb) = s.fb /\ sprite \cap s.fb = {}
      BY <3>3
    <3> QED BY <3>4, <3>5 DEF Oracle!Collision
  <2>5. [s EXCEPT !.fb = s.fb] = s
    BY <2>1 DEF Looks, ArchState
  <2>6. Oracle!Pick({} # {}, 1) = 0
    BY DEF Oracle!Pick
  <2>7. Oracle!SetFlag(s, 0) = Oracle!SetReg(s, VF, 0)
    BY DEF Oracle!SetFlag, Oracle!SetReg, Oracle!VF, VF
  <2>8. [V EXCEPT ![VF] = 0] = V
    BY <1>1, <2>1
  <2>9. 0 \in Byte
    BY ZeroTypes
  <2>10. Looks(Oracle!SetReg(s, VF, 0), Next2, index, V, ArchMem, stack.mem, stack.sp, fb)
    BY <1>1, <2>1, <2>8, <2>9, LooksReg
  <2>11. Oracle!ExecOp(s, opcode, 0, keys) = Oracle!SetReg(s, VF, 0)
    BY <2>2, <2>4, <2>5, <2>6, <2>7
  <2> QED BY <1>3, <2>1, <2>10, <2>11 DEF s
<1> QED BY <1>1, <1>4, ReachesAnyInput

-----------------------------------------------------------------------------
(* The instructions that complete in a later cycle. *)

(* Where the oracle starts from, seen from a sequencer. *)
AtWork == /\ TypeOK /\ InStep /\ Active /\ ~LoadsRunning /\ ~Between /\ Clock

LEMMA WorkFrame ==
  ASSUME AtWork
  PROVE  /\ arch \in ArchState /\ arch.run = enable /\ opcode = Current /\ opcode \in Opcode
         /\ arch.delay = timers.delay /\ arch.sound = timers.sound /\ Timers
         /\ arch.v \in [Reg -> Byte] /\ arch.mem \in [Addr -> Byte] /\ arch.fb \subseteq Pixel
         /\ arch.i = index /\ index \in Addr /\ X \in Reg /\ Y \in Reg
         /\ pc = Wrap(arch.pc + 2)
         /\ Looks(After(arch), pc, index, arch.v, arch.mem, stack.mem, stack.sp, arch.fb)
<1>1. /\ arch \in ArchState /\ arch.run = enable /\ enable
      /\ state \notin {"FETCH", "DECODE", "EXEC", "WAIT_KEY", "TRAP"} /\ TypeOK /\ Clock
      /\ InStep
  BY DEF AtWork, InStep, Between, Active
<1>2. /\ opcode = Current /\ arch.delay = timers.delay /\ arch.sound = timers.sound
      /\ arch.i = index /\ arch.stack = stack.mem /\ arch.sp = stack.sp
      /\ pc = Wrap(arch.pc + 2)
  BY <1>1 DEF InStep, Followed, Between
<1>3. opcode \in Opcode /\ index \in Addr /\ X \in Reg /\ Y \in Reg /\ Timers
  BY <1>1, RegTypes DEF TypeOK, Clock
<1>4. arch.v \in [Reg -> Byte] /\ arch.mem \in [Addr -> Byte] /\ arch.fb \subseteq Pixel
  BY <1>1 DEF ArchState
<1>5. Looks(After(arch), pc, index, arch.v, arch.mem, stack.mem, stack.sp, arch.fb)
  BY <1>1, <1>2, AfterFields DEF Looks
<1> QED BY <1>1, <1>2, <1>3, <1>4, <1>5

LEMMA ReachesFromWork ==
  ASSUME AtWork, enable', Class(opcode) # 12,
         \A keys \in KeySets :
           Looks(Oracle!ExecOp(After(arch), opcode, 0, keys),
                 pc', index', V', ArchMem', stack'.mem, stack'.sp, fb')
  PROVE  Completed
<1>1. PICK keys \in KeySets : TRUE
  BY CoreAssumption
<1>2. 0 \in Draws(Current)
  BY WorkFrame DEF Draws
<1> QED BY <1>1, <1>2, WorkFrame, Reaches DEF AtWork, Active

LEMMA KeyCompletes ==
  ASSUME AtRest, enable', WaitKey, state' = "FETCH" PROVE Completed
<1>1. /\ state = "WAIT_KEY" /\ Op(opcode) = "WAIT_KEY" /\ opcode \in Opcode
  BY RestFrame DEF WaitKey, AtRest, InStep, Followed, Active
<1>2. Class(opcode) = 15 /\ Imm(opcode) = 10
  BY <1>1, MiscClass, MiscIs DEF MiscOps
<1>3. PICK keys \in KeySets :
        /\ keys # {} /\ V' = [V EXCEPT ![X] = FirstPressed(keys)] /\ pc' = Next2
  BY <1>1 DEF WaitKey, Goto, SetV
<1>4. index' = index /\ stack' = stack /\ fb' = fb
  BY <1>1, ScreenKept DEF WaitKey, AtRest, Clock
<1>5. FirstPressed(keys) \in Byte
  BY <1>3, CoreAssumption, FirstPressedType
<1>6. Oracle!ExecOp(After(arch), opcode, 0, keys) = Oracle!ExecMisc(After(arch), 10, X, keys)
  BY <1>1, <1>2, OracleMisc DEF X
<1>7. Oracle!FirstPressed(keys) = FirstPressed(keys)
  BY DEF Oracle!FirstPressed, FirstPressed
<1>8. Oracle!ExecMisc(After(arch), 10, X, keys) = Oracle!SetReg(After(arch), X, FirstPressed(keys))
  BY <1>3, <1>7, SMT DEF Oracle!ExecMisc
<1>9. 0 \in Draws(opcode)
  BY <1>2 DEF Draws
<1> QED BY <1>3, <1>4, <1>5, <1>6, <1>8, <1>9, RegReaches

(* The flag is written last in the core; the oracle writes it first for the *)
(* shifts, which makes no difference unless it is their operand.            *)
LEMMA FlagValues ==
  ASSUME NEW a \in Byte, NEW b \in Byte
  PROVE  /\ AluResult(4, a, b) = (a + b) % 256 /\ AluFlagBit(4, a, b) = (a + b) \div 256
         /\ AluResult(5, a, b) = (a - b) % 256 /\ AluFlagBit(5, a, b) = Pick(a >= b, 1)
         /\ AluResult(7, a, b) = (b - a) % 256 /\ AluFlagBit(7, a, b) = Pick(b >= a, 1)
         /\ AluResult(6, a, b) = a \div 2 /\ AluFlagBit(6, a, b) = a % 2
         /\ AluResult(14, a, b) = (2 * a) % 256 /\ AluFlagBit(14, a, b) = a \div 128
<1>1. /\ AluResult(4, a, b) = (a + b) % 256 /\ AluResult(5, a, b) = (a - b) % 256
      /\ AluResult(7, a, b) = (b - a) % 256 /\ AluResult(6, a, b) = a \div 2
      /\ AluResult(14, a, b) = (2 * a) % 256
  BY SMT DEF AluResult
<1>2. AluFlagBit(4, a, b) = (a + b) \div 256 /\ AluFlagBit(5, a, b) = Pick(a >= b, 1)
  BY SMT DEF AluFlagBit, Pick, HasBit, Byte
<1>3. AluFlagBit(7, a, b) = Pick(b >= a, 1) /\ AluFlagBit(6, a, b) = a % 2
  BY SMT DEF AluFlagBit, Pick, HasBit, Byte
<1>4. AluFlagBit(14, a, b) = a \div 128
  BY SMT DEF AluFlagBit, Pick, HasBit, Byte
<1> QED BY <1>1, <1>2, <1>3, <1>4

LEMMA OracleFlag ==
  ASSUME NEW s, NEW b PROVE Oracle!SetFlag(s, b) = Oracle!SetReg(s, VF, b)
BY DEF Oracle!SetFlag, Oracle!SetReg, Oracle!VF, VF

LEMMA AluFlagCompletes == ASSUME AtWork, enable', AluFlagWrite PROVE Completed
<1> DEFINE s == After(arch)
           n == Nib(opcode)
           a == arch.v[X]
           b == arch.v[Y]
           r == AluResult(n, a, b)
           f == AluFlagBit(n, a, b)
           w == [[arch.v EXCEPT ![X] = r] EXCEPT ![VF] = f]
<1>1. /\ state = "ALU_FLAG" /\ Op(opcode) = "ALU" /\ AluFlag(opcode)
      /\ V = [arch.v EXCEPT ![X] = r] /\ flag = f
      /\ X = VF /\ n \in {6, 14} => flag = 0
  BY DEF AluFlagWrite, AtWork, InStep, InAlu, Active
<1>2. /\ Looks(s, pc, index, arch.v, ArchMem', stack.mem, stack.sp, fb)
      /\ X \in Reg /\ Y \in Reg /\ arch.v \in [Reg -> Byte] /\ opcode \in Opcode /\ VF \in Reg
      /\ s.v = arch.v
  <2>1. ArchMem = arch.mem /\ fb = arch.fb /\ ~Storing
    BY <1>1 DEF AtWork, InStep, Followed, Storing, Drawing, Active
  <2>2. ArchMem' = arch.mem
    BY <2>1, NoWriteStep DEF AtWork, Active
  <2>3. VF \in Reg
    BY SMT DEF VF, Reg
  <2> QED BY <2>1, <2>2, <2>3, WorkFrame DEF Looks
<1>3. /\ a \in Byte /\ b \in Byte /\ n \in {4, 5, 6, 7, 14} /\ n \in 0..15
  BY <1>1, <1>2, FieldTypes DEF AluFlag
<1>4. r \in Byte /\ f \in 0..1 /\ f \in Byte
  <2>1. r \in Byte /\ f \in 0..1
    BY <1>3, AluTypes
  <2>2. 0..1 \subseteq Byte
    BY SMT DEF Byte
  <2> QED BY <2>1, <2>2
<1>5. pc' = pc /\ index' = index /\ stack' = stack /\ fb' = fb /\ V' = w
  BY <1>1, ScreenKept DEF AluFlagWrite, AtWork, Clock, Goto, SetV
<1>6. Class(opcode) = 8
  BY <1>1, <1>2, ClassIs
<1>7. Looks(Oracle!ExecAlu(s, n, X, Y), pc, index, w, ArchMem', stack.mem, stack.sp, fb)
  <2>1. CASE n \in {4, 5, 7}
    <3>1. Oracle!ExecAlu(s, n, X, Y) = Oracle!SetReg(Oracle!SetReg(s, X, r), VF, f)
      <4>1. /\ r = AluResult(n, s.v[X], s.v[Y]) /\ f = AluFlagBit(n, s.v[X], s.v[Y])
            /\ s.v[X] \in Byte /\ s.v[Y] \in Byte
        BY <1>2, <1>3
      <4> HIDE DEF s, r, f, n
      <4>2. Oracle!Pick(s.v[X] >= s.v[Y], 1) = Pick(s.v[X] >= s.v[Y], 1)
            /\ Oracle!Pick(s.v[Y] >= s.v[X], 1) = Pick(s.v[Y] >= s.v[X], 1)
        BY DEF Oracle!Pick, Pick
      <4>3. CASE n = 4
        BY <4>1, <4>3, FlagValues, OracleFlag, SMT DEF Oracle!ExecAlu
      <4>4. CASE n = 5
        BY <4>1, <4>2, <4>4, FlagValues, OracleFlag, SMT DEF Oracle!ExecAlu
      <4>5. CASE n = 7
        BY <4>1, <4>2, <4>5, FlagValues, OracleFlag, SMT DEF Oracle!ExecAlu
      <4> QED BY <2>1, <4>3, <4>4, <4>5
    <3> HIDE DEF s, r, f, a, b
    <3>2. Looks(Oracle!SetReg(s, X, r), pc, index, [arch.v EXCEPT ![X] = r], ArchMem',
                stack.mem, stack.sp, fb)
      BY <1>2, <1>4, LooksReg
    <3>3. Looks(Oracle!SetReg(Oracle!SetReg(s, X, r), VF, f), pc, index,
                [[arch.v EXCEPT ![X] = r] EXCEPT ![VF] = f], ArchMem', stack.mem, stack.sp, fb)
      BY <1>2, <1>4, <3>2, LooksReg
    <3> QED BY <3>1, <3>3
  <2>2. CASE n \in {6, 14}
    <3> DEFINE g == Oracle!SetReg(s, VF, f)
               q == IF n = 6 THEN g.v[X] \div 2 ELSE (2 * g.v[X]) % 256
    <3>1. Oracle!ExecAlu(s, n, X, Y) = Oracle!SetReg(g, X, q)
      <4>1. f = AluFlagBit(n, s.v[X], s.v[Y]) /\ s.v[X] \in Byte /\ s.v[Y] \in Byte
        BY <1>2, <1>3
      <4> HIDE DEF s, f, n
      <4>2. CASE n = 6
        <5>1. f = s.v[X] % 2
          BY <4>1, <4>2, FlagValues
        <5>2. g = Oracle!SetFlag(s, s.v[X] % 2)
          BY <5>1, OracleFlag
        <5> HIDE DEF g
        <5> QED BY <4>2, <5>2, SMT DEF Oracle!ExecAlu
      <4>3. CASE n = 14
        <5>1. f = s.v[X] \div 128
          BY <4>1, <4>3, FlagValues
        <5>2. g = Oracle!SetFlag(s, s.v[X] \div 128)
          BY <5>1, OracleFlag
        <5> HIDE DEF g
        <5> QED BY <4>3, <5>2, SMT DEF Oracle!ExecAlu
      <4> QED BY <2>2, <4>2, <4>3
    <3>2. Looks(g, pc, index, [arch.v EXCEPT ![VF] = f], ArchMem', stack.mem, stack.sp, fb)
      <4> HIDE DEF s, f
      <4> QED BY <1>2, <1>4, LooksReg
    <3>3. g.v = [arch.v EXCEPT ![VF] = f]
      BY <3>2 DEF Looks
    <3>4. g.v[X] = IF X = VF THEN f ELSE a
      BY <1>2, <3>3
    <3>5. X = VF => f = 0
      BY <1>1, <2>2
    <3>6. q = IF X = VF THEN 0 ELSE r
      <4>1. n = 6 => r = a \div 2
        BY <1>3, FlagValues
      <4>2. n = 14 => r = (2 * a) % 256
        BY <1>3, FlagValues
      <4>3. (0 \div 2 = 0) /\ ((2 * 0) % 256 = 0)
        BY SMT
      <4> HIDE DEF g, r, f, a, n
      <4> QED BY <2>2, <3>4, <3>5, <4>1, <4>2, <4>3
    <3>7. [[arch.v EXCEPT ![VF] = f] EXCEPT ![X] = q] = w
      <4> HIDE DEF q, r, f
      <4>1. CASE X = VF
        BY <1>2, <3>5, <3>6, <4>1
      <4>2. CASE X # VF
        BY <1>2, <3>6, <4>2
      <4> QED BY <4>1, <4>2
    <3>8. q \in Byte
      BY <1>4, <3>6, ZeroTypes
    <3> HIDE DEF q, g, w, f
    <3>9. Looks(Oracle!SetReg(g, X, q), pc, index, [[arch.v EXCEPT ![VF] = f] EXCEPT ![X] = q],
                ArchMem', stack.mem, stack.sp, fb)
      BY <1>2, <3>2, <3>8, LooksReg
    <3> QED BY <3>1, <3>7, <3>9
  <2> QED BY <1>3, <2>1, <2>2
<1>8. ASSUME NEW keys
      PROVE  Looks(Oracle!ExecOp(After(arch), opcode, 0, keys),
                   pc', index', V', ArchMem', stack'.mem, stack'.sp, fb')
  <2>1. Oracle!ExecOp(s, opcode, 0, keys) = Oracle!ExecAlu(s, n, X, Y)
    BY <1>2, <1>6, OracleAlu DEF X, Y
  <2> HIDE DEF w
  <2> QED BY <1>5, <1>7, <2>1
<1> QED BY <1>6, <1>8, ReachesFromWork

-----------------------------------------------------------------------------
(* Stores, loads and conversions, byte by byte. *)

LEMMA StoredNone ==
  ASSUME NEW i \in Addr, NEW v, NEW mem \in [Addr -> Byte]
  PROVE  Stored(i, v, mem, 0) = mem /\ Digits(i, v, mem, 0) = mem
<1>1. ASSUME NEW a \in Addr PROVE ~(Offset(i, a) < 0)
  <2>1. 0 \in Nat /\ 0 < AddrSpace
    BY AddrSpaceAssumption, SMT
  <2>2. Offset(i, a) \in 0..(AddrSpace - 1)
    BY <2>1, OffsetIs
  <2> QED BY <2>2, AddrSpaceAssumption, SMT
<1> QED BY <1>1 DEF Stored, Digits

LEMMA OffsetNext ==
  ASSUME NEW i \in Addr, NEW a \in Addr, NEW k \in Nat, k < AddrSpace
  PROVE  Offset(i, a) < k + 1 <=> Offset(i, a) < k \/ a = Wrap(i + k)
<1>1. Offset(i, a) \in Int
  BY OffsetIs, AddrSpaceAssumption, SMT
<1>2. Offset(i, a) < k + 1 <=> Offset(i, a) < k \/ Offset(i, a) = k
  BY <1>1, SMT
<1> QED BY <1>2, OffsetIs

LEMMA StoredNext ==
  ASSUME NEW i \in Addr, NEW v \in [Reg -> Byte], NEW mem \in [Addr -> Byte], NEW k \in 0..15
  PROVE  [Stored(i, v, mem, k) EXCEPT ![Wrap(i + k)] = v[k]] = Stored(i, v, mem, k + 1)
<1>1. k \in Nat /\ k < AddrSpace /\ i + k \in Int
  BY LockstepAssumption, AddrSpaceAssumption, SMT DEF Addr
<1>2. Wrap(i + k) \in Addr
  BY <1>1, WrapType
<1>3. Offset(i, Wrap(i + k)) = k
  BY <1>1, <1>2, OffsetIs
<1>4. \A a \in Addr : Offset(i, a) < k + 1 <=> Offset(i, a) < k \/ a = Wrap(i + k)
  BY <1>1, OffsetNext
<1>5. ASSUME NEW a \in Addr
      PROVE  [Stored(i, v, mem, k) EXCEPT ![Wrap(i + k)] = v[k]][a] = Stored(i, v, mem, k + 1)[a]
  BY <1>3, <1>4 DEF Stored
<1>6. DOMAIN [Stored(i, v, mem, k) EXCEPT ![Wrap(i + k)] = v[k]] = Addr
  BY DEF Stored
<1> QED BY <1>5, <1>6 DEF Stored

LEMMA DigitsNext ==
  ASSUME NEW i \in Addr, NEW b \in Byte, NEW mem \in [Addr -> Byte], NEW k \in 0..2
  PROVE  [Digits(i, b, mem, k) EXCEPT ![Wrap(i + k)] = BcdDigit(k, b)] = Digits(i, b, mem, k + 1)
<1>1. k \in Nat /\ k < AddrSpace /\ i + k \in Int
  BY LockstepAssumption, AddrSpaceAssumption, SMT DEF Addr
<1>2. Wrap(i + k) \in Addr
  BY <1>1, WrapType
<1>3. Offset(i, Wrap(i + k)) = k
  BY <1>1, <1>2, OffsetIs
<1>4. \A a \in Addr : Offset(i, a) < k + 1 <=> Offset(i, a) < k \/ a = Wrap(i + k)
  BY <1>1, OffsetNext
<1>5. ASSUME NEW a \in Addr
      PROVE  [Digits(i, b, mem, k) EXCEPT ![Wrap(i + k)] = BcdDigit(k, b)][a] = Digits(i, b, mem, k + 1)[a]
  BY <1>3, <1>4 DEF Digits
<1>6. DOMAIN [Digits(i, b, mem, k) EXCEPT ![Wrap(i + k)] = BcdDigit(k, b)] = Addr
  BY DEF Digits
<1> QED BY <1>5, <1>6 DEF Digits

LEMMA LoadedNext ==
  ASSUME NEW i \in Addr, NEW v \in [Reg -> Byte], NEW mem \in [Addr -> Byte], NEW k \in Reg
  PROVE  [Loaded(i, v, mem, k) EXCEPT ![k] = mem[Wrap(i + k)]] = Loaded(i, v, mem, k + 1)
<1>1. \A r \in Reg : r < k + 1 <=> r < k \/ r = k
  BY SMT DEF Reg
<1>2. ASSUME NEW r \in Reg
      PROVE  [Loaded(i, v, mem, k) EXCEPT ![k] = mem[Wrap(i + k)]][r] = Loaded(i, v, mem, k + 1)[r]
  BY <1>1 DEF Loaded
<1> QED BY <1>2 DEF Loaded

LEMMA LoadedNone ==
  ASSUME NEW i, NEW mem, NEW v \in [Reg -> Byte] PROVE Loaded(i, v, mem, 0) = v
<1>1. \A r \in Reg : ~(r < 0)
  BY SMT DEF Reg
<1> QED BY <1>1 DEF Loaded

LEMMA BurstTypes ==
  ASSUME NEW i \in Addr, NEW v \in [Reg -> Byte], NEW mem \in [Addr -> Byte], NEW k \in Int
  PROVE  Loaded(i, v, mem, k) \in [Reg -> Byte]
<1>1. \A r \in Reg : i + r \in Int
  BY AddrSpaceAssumption, SMT DEF Reg, Addr
<1>2. \A r \in Reg : mem[Wrap(i + r)] \in Byte
  BY <1>1, WrapType
<1> QED BY <1>2 DEF Loaded

LEMMA StoreStep ==
  ASSUME AtWork, ~WritesFont, Store
  PROVE  /\ ArchMem' = Stored(arch.i, arch.v, arch.mem, burst.idx + 1)
         /\ V = arch.v /\ fb = arch.fb /\ fb' = fb
<1>1. /\ state = "STORE" /\ Active /\ enable /\ TypeOK /\ Memory /\ Display
  BY DEF Store, AtWork, Active, Clock
<1>2. V = arch.v /\ fb = arch.fb /\ fb' = fb
      /\ ArchMem = Stored(arch.i, arch.v, arch.mem, burst.idx)
  BY <1>1, ScreenKept DEF AtWork, InStep, InStore, Followed, Storing, Drawing, Loading
<1>3. /\ CpuWrite.we /\ CpuWrite.addr = Wrap(index + burst.idx) /\ CpuWrite.data = V[burst.idx]
  BY <1>1 DEF CpuWrite
<1>4. ~loadWrite.we
  BY <1>1 DEF AtWork, LoadsRunning
<1>5. ArchMem' = [ArchMem EXCEPT ![Wrap(index + burst.idx)] = V[burst.idx]]
  BY <1>1, <1>3, <1>4, ArchMemPut
<1>6. burst.idx \in 0..15
  BY <1>1 DEF TypeOK, Reg
<1>7. /\ arch.v \in [Reg -> Byte] /\ arch.mem \in [Addr -> Byte] /\ arch.i = index /\ arch.i \in Addr
  BY WorkFrame
<1> QED BY <1>2, <1>5, <1>6, <1>7, StoredNext

LEMMA StoreCompletes ==
  ASSUME AtWork, SequencersInStep, ~WritesFont, enable', Store, state' = "FETCH" PROVE Completed
<1> DEFINE s == After(arch)
           w == Stored(arch.i, arch.v, arch.mem, X + 1)
<1>1. /\ state = "STORE" /\ burst.idx = burst.x /\ burst.x = X /\ Op(opcode) = "STORE_REGS"
  BY DEF Store, BurstNext, Goto, SequencersInStep
<1>2. /\ pc' = pc /\ index' = index /\ stack' = stack /\ V' = V
  BY DEF Store, BurstNext, Goto, regs
<1>3. ArchMem' = w /\ V = arch.v /\ fb' = arch.fb
  BY <1>1, StoreStep
<1>4. /\ Looks(s, pc, index, arch.v, arch.mem, stack.mem, stack.sp, arch.fb)
      /\ opcode \in Opcode /\ X \in Reg /\ arch.i = index
  BY WorkFrame
<1>5. Class(opcode) = 15 /\ Imm(opcode) = 85
  BY <1>1, <1>4, MiscClass, MiscIs DEF MiscOps
<1>6. w \in [Addr -> Byte]
  <2>1. ArchMem' \in [Addr -> Byte]
    <3>1. (TypeOK => ArchMem \in [Addr -> Byte])'
      BY ArchMemType, PTL
    <3> QED BY <3>1, NextTypeOK DEF Next, Tick, Continue, AtWork
  <2> QED BY <1>3, <2>1
<1>7. ASSUME NEW keys
      PROVE  Looks(Oracle!ExecOp(After(arch), opcode, 0, keys),
                   pc', index', V', ArchMem', stack'.mem, stack'.sp, fb')
  <2>1. Oracle!ExecOp(s, opcode, 0, keys) = Oracle!ExecMisc(s, 85, X, keys)
    BY <1>4, <1>5, OracleMisc DEF X
  <2>2. Oracle!ExecMisc(s, 85, X, keys) = [s EXCEPT !.mem = w]
    <3>1. s.i = arch.i /\ s.v = arch.v /\ s.mem = arch.mem
      BY <1>4 DEF Looks
    <3> HIDE DEF s
    <3>2. Oracle!ExecMisc(s, 85, X, keys)
            = [s EXCEPT !.mem = [a \in Addr |-> IF (a - s.i) % AddrSpace <= X
                                                THEN s.v[(a - s.i) % AddrSpace] ELSE s.mem[a]]]
      BY SMT DEF Oracle!ExecMisc, Oracle!Addr, Addr
    <3>3. \A a \in Addr : (a - s.i) % AddrSpace <= X <=> Offset(arch.i, a) < X + 1
      <4>1. ASSUME NEW a \in Addr PROVE (a - s.i) % AddrSpace \in Int
        <5>1. s.i \in Int /\ a \in Int
          BY <1>4, <3>1, AddrSpaceAssumption, SMT DEF Looks, ArchState, Addr
        <5> QED BY <5>1, AddrSpaceAssumption, SMT
      <4> QED BY <1>4, <3>1, <4>1, SMT DEF Offset, Reg
    <3>4. [a \in Addr |-> IF (a - s.i) % AddrSpace <= X
                          THEN s.v[(a - s.i) % AddrSpace] ELSE s.mem[a]] = w
      BY <3>1, <3>3 DEF Stored, Offset
    <3> QED BY <3>2, <3>4
  <2> HIDE DEF s, w
  <2>3. Looks([s EXCEPT !.mem = w], pc, index, arch.v, w, stack.mem, stack.sp, arch.fb)
    BY <1>4, <1>6, LooksMem
  <2> QED BY <1>2, <1>3, <2>1, <2>2, <2>3 DEF s
<1> QED BY <1>5, <1>7, ReachesFromWork

LEMMA BcdStep ==
  ASSUME AtWork, ~WritesFont, Bcd, NEW k \in 0..2,
         k = (IF state = "BCD0" THEN 0 ELSE IF state = "BCD1" THEN 1 ELSE 2)
  PROVE  /\ ArchMem' = Digits(arch.i, arch.v[X], arch.mem, k + 1)
         /\ V = arch.v /\ fb = arch.fb /\ fb' = fb
<1>1. /\ state \in {"BCD0", "BCD1", "BCD2"} /\ Active /\ enable /\ TypeOK /\ Memory /\ Display
  BY DEF Bcd, AtWork, Active, Clock
<1>2. /\ V = arch.v /\ fb = arch.fb /\ fb' = fb
      /\ ArchMem = Digits(arch.i, arch.v[X], arch.mem, k)
  BY <1>1, ScreenKept DEF AtWork, InStep, InStore, Followed, Storing, Drawing, Loading
<1>3. /\ CpuWrite.we /\ CpuWrite.addr = Wrap(index + k) /\ CpuWrite.data = BcdDigit(k, V[X])
  BY <1>1 DEF CpuWrite
<1>4. ~loadWrite.we
  BY <1>1 DEF AtWork, LoadsRunning
<1>5. ArchMem' = [ArchMem EXCEPT ![Wrap(index + k)] = BcdDigit(k, V[X])]
  BY <1>1, <1>3, <1>4, ArchMemPut
<1>6. /\ arch.v \in [Reg -> Byte] /\ arch.mem \in [Addr -> Byte] /\ arch.i = index /\ arch.i \in Addr
      /\ X \in Reg
  BY WorkFrame
<1> QED BY <1>2, <1>5, <1>6, DigitsNext

(* The three digits, wherever the index register points. *)
LEMMA DigitsAre ==
  ASSUME NEW i \in Addr, NEW b \in Byte, NEW mem \in [Addr -> Byte]
  PROVE  [mem EXCEPT ![Wrap(i + 0)] = b \div 100, ![Wrap(i + 1)] = (b \div 10) % 10,
                     ![Wrap(i + 2)] = b % 10] = Digits(i, b, mem, 3)
<1>1. Digits(i, b, mem, 0) = mem
  BY StoredNone
<1>2. BcdDigit(0, b) = b \div 100 /\ BcdDigit(1, b) = (b \div 10) % 10 /\ BcdDigit(2, b) = b % 10
  BY SMT DEF BcdDigit
<1>3. [mem EXCEPT ![Wrap(i + 0)] = b \div 100] = Digits(i, b, mem, 1)
  BY <1>1, <1>2, DigitsNext, SMT
<1>4. [Digits(i, b, mem, 1) EXCEPT ![Wrap(i + 1)] = (b \div 10) % 10] = Digits(i, b, mem, 2)
  BY <1>2, DigitsNext, SMT
<1>5. [Digits(i, b, mem, 2) EXCEPT ![Wrap(i + 2)] = b % 10] = Digits(i, b, mem, 3)
  BY <1>2, DigitsNext, SMT
<1> HIDE DEF Digits
<1> QED BY <1>3, <1>4, <1>5

LEMMA BcdCompletes ==
  ASSUME AtWork, SequencersInStep, ~WritesFont, enable', Bcd, state' = "FETCH" PROVE Completed
<1> DEFINE s == After(arch)
           w == Digits(arch.i, arch.v[X], arch.mem, 3)
<1>1. state = "BCD2" /\ Op(opcode) = "BCD"
  BY DEF Bcd, Goto, SequencersInStep
<1>2. /\ pc' = pc /\ index' = index /\ stack' = stack /\ V' = V
  BY DEF Bcd, Goto, regs
<1>3. ArchMem' = w /\ V = arch.v /\ fb' = arch.fb
  <2>1. 2 \in 0..2 /\ 2 + 1 = 3
    BY SMT
  <2>2. 2 = IF state = "BCD0" THEN 0 ELSE IF state = "BCD1" THEN 1 ELSE 2
    BY <1>1
  <2> QED BY <2>1, <2>2, BcdStep
<1>4. /\ Looks(s, pc, index, arch.v, arch.mem, stack.mem, stack.sp, arch.fb)
      /\ opcode \in Opcode /\ X \in Reg /\ arch.i = index /\ index \in Addr
      /\ arch.v \in [Reg -> Byte] /\ arch.mem \in [Addr -> Byte]
  BY WorkFrame
<1>5. Class(opcode) = 15 /\ Imm(opcode) = 51
  BY <1>1, <1>4, MiscClass, MiscIs DEF MiscOps
<1>6. w \in [Addr -> Byte]
  <2>1. ArchMem' \in [Addr -> Byte]
    <3>1. (TypeOK => ArchMem \in [Addr -> Byte])'
      BY ArchMemType, PTL
    <3> QED BY <3>1, NextTypeOK DEF Next, Tick, Continue, AtWork
  <2> QED BY <1>3, <2>1
<1>7. ASSUME NEW keys
      PROVE  Looks(Oracle!ExecOp(After(arch), opcode, 0, keys),
                   pc', index', V', ArchMem', stack'.mem, stack'.sp, fb')
  <2>1. Oracle!ExecOp(s, opcode, 0, keys) = Oracle!ExecMisc(s, 51, X, keys)
    BY <1>4, <1>5, OracleMisc DEF X
  <2>2. Oracle!ExecMisc(s, 51, X, keys) = [s EXCEPT !.mem = w]
    <3>1. s.i = arch.i /\ s.v = arch.v /\ s.mem = arch.mem
      BY <1>4 DEF Looks
    <3> HIDE DEF s
    <3>2. Oracle!ExecMisc(s, 51, X, keys)
            = [s EXCEPT !.mem = [@ EXCEPT ![Wrap(s.i + 0)] = s.v[X] \div 100,
                                          ![Wrap(s.i + 1)] = (s.v[X] \div 10) % 10,
                                          ![Wrap(s.i + 2)] = s.v[X] % 10]]
      BY SMT DEF Oracle!ExecMisc, Oracle!Wrap, Wrap
    <3>3. w = [s.mem EXCEPT ![Wrap(s.i + 0)] = s.v[X] \div 100,
                            ![Wrap(s.i + 1)] = (s.v[X] \div 10) % 10,
                            ![Wrap(s.i + 2)] = s.v[X] % 10]
      BY <1>4, <3>1, DigitsAre
    <3> HIDE DEF w
    <3> QED BY <3>2, <3>3
  <2> HIDE DEF s, w
  <2>3. Looks([s EXCEPT !.mem = w], pc, index, arch.v, w, stack.mem, stack.sp, arch.fb)
    BY <1>4, <1>6, LooksMem
  <2> QED BY <1>2, <1>3, <2>1, <2>2, <2>3 DEF s
<1> QED BY <1>5, <1>7, ReachesFromWork

LEMMA LoadStep ==
  ASSUME AtWork, SequencersInStep, LoadCommit
  PROVE  /\ V' = Loaded(arch.i, arch.v, arch.mem, burst.idx + 1)
         /\ ArchMem' = arch.mem /\ fb = arch.fb /\ fb' = fb
<1>1. /\ state = "MEM_READ" /\ Op(opcode) = "LOAD_REGS" /\ Active /\ enable /\ TypeOK /\ Display
      /\ V' = [V EXCEPT ![burst.idx] = rdata[1]] /\ Loading /\ ~Storing /\ ~Drawing
  BY DEF LoadCommit, AtWork, Active, Clock, SetV, Loading, Storing, Drawing
<1>2. /\ V = Loaded(arch.i, arch.v, arch.mem, burst.idx)
      /\ rdata[1] = arch.mem[Wrap(arch.i + burst.idx)]
      /\ ArchMem = arch.mem /\ fb = arch.fb
  BY <1>1 DEF AtWork, InStep, InLoad, Followed
<1>3. ArchMem' = ArchMem /\ fb' = fb
  BY <1>1, NoWriteStep, ScreenKept DEF AtWork
<1>4. burst.idx \in Reg
  BY <1>1 DEF TypeOK
<1>5. /\ arch.v \in [Reg -> Byte] /\ arch.mem \in [Addr -> Byte] /\ arch.i \in Addr
  BY WorkFrame
<1>6. [Loaded(arch.i, arch.v, arch.mem, burst.idx) EXCEPT ![burst.idx]
          = arch.mem[Wrap(arch.i + burst.idx)]] = Loaded(arch.i, arch.v, arch.mem, burst.idx + 1)
  BY <1>4, <1>5, LoadedNext, ZenonT(40)
<1> HIDE DEF Loaded, Wrap
<1>7. V' = Loaded(arch.i, arch.v, arch.mem, burst.idx + 1)
  BY <1>1, <1>2, <1>6
<1> QED BY <1>2, <1>3, <1>7

(* The byte a load reads is the one the program sees there. *)
LEMMA LoadReads ==
  ASSUME AtWork, LoadRead
  PROVE  /\ rdata'[1] = arch.mem[Wrap(arch.i + burst.idx)]
         /\ V = Loaded(arch.i, arch.v, arch.mem, burst.idx)
         /\ ArchMem' = arch.mem /\ fb' = arch.fb
<1>1. /\ state = "LOAD" /\ Active /\ enable /\ TypeOK /\ Display /\ Memory
      /\ Loading /\ ~Storing /\ ~Drawing
  BY DEF LoadRead, AtWork, Active, Clock, Loading, Storing, Drawing
<1>2. /\ V = Loaded(arch.i, arch.v, arch.mem, burst.idx)
      /\ ArchMem = arch.mem /\ fb = arch.fb /\ arch.i = index /\ ~write.we
  BY <1>1 DEF AtWork, InStep, InLoad, Followed, Quiet
<1>3. ArchMem' = ArchMem /\ fb' = fb
  BY <1>1, NoWriteStep, ScreenKept DEF AtWork
<1>4. ReadAddr[1] = Wrap(index + burst.idx)
  BY <1>1 DEF ReadAddr
<1>5. rdata'[1] = Mem[ReadAddr[1]]
  BY <1>1 DEF Memory
<1> QED BY <1>2, <1>3, <1>4, <1>5, Settled

LEMMA LoadCompletes ==
  ASSUME AtWork, SequencersInStep, enable', LoadCommit, state' = "FETCH" PROVE Completed
<1> DEFINE s == After(arch)
           w == Loaded(arch.i, arch.v, arch.mem, X + 1)
<1>1. /\ state = "MEM_READ" /\ burst.idx = burst.x /\ burst.x = X /\ Op(opcode) = "LOAD_REGS"
  BY DEF LoadCommit, BurstNext, Goto, SequencersInStep
<1>2. /\ pc' = pc /\ index' = index /\ stack' = stack
  BY DEF LoadCommit, BurstNext, Goto
<1>3. V' = w /\ ArchMem' = arch.mem /\ fb' = arch.fb
  BY <1>1, LoadStep
<1>4. /\ Looks(s, pc, index, arch.v, arch.mem, stack.mem, stack.sp, arch.fb)
      /\ opcode \in Opcode /\ X \in Reg /\ arch.i = index /\ index \in Addr
      /\ arch.v \in [Reg -> Byte] /\ arch.mem \in [Addr -> Byte]
  BY WorkFrame
<1>5. Class(opcode) = 15 /\ Imm(opcode) = 101
  BY <1>1, <1>4, MiscClass, MiscIs DEF MiscOps
<1>6. w \in [Reg -> Byte]
  <2>1. X + 1 \in Int
    BY <1>4, SMT DEF Reg
  <2> QED BY <1>4, <2>1, BurstTypes
<1>7. ASSUME NEW keys
      PROVE  Looks(Oracle!ExecOp(After(arch), opcode, 0, keys),
                   pc', index', V', ArchMem', stack'.mem, stack'.sp, fb')
  <2>1. Oracle!ExecOp(s, opcode, 0, keys) = Oracle!ExecMisc(s, 101, X, keys)
    BY <1>4, <1>5, OracleMisc DEF X
  <2>2. Oracle!ExecMisc(s, 101, X, keys) = [s EXCEPT !.v = w]
    <3>1. s.i = arch.i /\ s.v = arch.v /\ s.mem = arch.mem
      BY <1>4 DEF Looks
    <3> HIDE DEF s
    <3>2. Oracle!ExecMisc(s, 101, X, keys)
            = [s EXCEPT !.v = [r \in Reg |-> IF r <= X THEN s.mem[Wrap(s.i + r)] ELSE s.v[r]]]
      BY SMT DEF Oracle!ExecMisc, Oracle!Wrap, Wrap, Oracle!Reg, Reg
    <3>3. \A r \in Reg : r <= X <=> r < X + 1
      BY <1>4, SMT DEF Reg
    <3>4. [r \in Reg |-> IF r <= X THEN s.mem[Wrap(s.i + r)] ELSE s.v[r]] = w
      BY <3>1, <3>3 DEF Loaded
    <3> QED BY <3>2, <3>4
  <2> HIDE DEF s, w
  <2>3. Looks([s EXCEPT !.v = w], pc, index, w, arch.mem, stack.mem, stack.sp, arch.fb)
    BY <1>4, <1>6, LooksRegs
  <2> QED BY <1>2, <1>3, <2>1, <2>2, <2>3 DEF s
<1> QED BY <1>5, <1>7, ReachesFromWork

-----------------------------------------------------------------------------
(* Sprites, pixel by pixel. *)

LEMMA ModInjective ==
  ASSUME NEW n \in Nat, n > 0, NEW a \in Int, NEW j \in 0..(n - 1), NEW k \in 0..(n - 1),
         (a + j) % n = (a + k) % n
  PROVE  j = k
<1>1. /\ a + j \in Int /\ a + k \in Int /\ 0 - a \in Int
      /\ (a + j) + (0 - a) = j /\ (a + k) + (0 - a) = k
  BY SMT
<1>2. (((a + j) % n) + (0 - a)) % n = j % n /\ (((a + k) % n) + (0 - a)) % n = k % n
  BY <1>1, ModShift, ZenonT(40)
<1>3. j % n = j /\ k % n = k
  BY SMT
<1> QED BY <1>2, <1>3

LEMMA SpotShift ==
  ASSUME NEW x \in Int, NEW y \in Int, NEW bit \in Int, NEW row \in Int
  PROVE  SpritePixel(x % Width, y % Height, bit, row) = SpritePixel(x, y, bit, row)
<1>1. Width > 0 /\ Height > 0 /\ Width \in Nat /\ Height \in Nat
  BY DisplayAssumption, SMT
<1>2. ((x % Width) + bit) % Width = (x + bit) % Width
      /\ ((y % Height) + row) % Height = (y + row) % Height
  BY <1>1, ModShift
<1> QED BY <1>2 DEF SpritePixel

LEMMA DrawnNone ==
  ASSUME NEW i, NEW mem, NEW x, NEW y PROVE Drawn(i, mem, x, y, 0, 0) = {}
<1>1. ASSUME NEW q \in (0..15) \X (0..7) PROVE ~Before(q, 0, 0)
  BY SMT DEF Before
<1> HIDE DEF Before
<1> QED BY <1>1 DEF Drawn

LEMMA DrawnRow ==
  ASSUME NEW i, NEW mem, NEW x, NEW y, NEW row \in 0..15
  PROVE  Drawn(i, mem, x, y, row, 8) = Drawn(i, mem, x, y, row + 1, 0)
<1>1. ASSUME NEW q \in (0..15) \X (0..7) PROVE Before(q, row, 8) <=> Before(q, row + 1, 0)
  BY SMT DEF Before
<1> HIDE DEF Before
<1>2. {q \in (0..15) \X (0..7) : Before(q, row, 8) /\ Lit(i, mem, q)}
        = {q \in (0..15) \X (0..7) : Before(q, row + 1, 0) /\ Lit(i, mem, q)}
  BY <1>1
<1> QED BY <1>2 DEF Drawn

LEMMA DrawnNext ==
  ASSUME NEW i, NEW mem, NEW x, NEW y, NEW row \in 0..15, NEW bit \in 0..7
  PROVE  Drawn(i, mem, x, y, row, bit + 1)
           = IF Lit(i, mem, <<row, bit>>)
               THEN Drawn(i, mem, x, y, row, bit) \cup {SpritePixel(x, y, bit, row)}
               ELSE Drawn(i, mem, x, y, row, bit)
<1> DEFINE P == (0..15) \X (0..7)
           p == <<row, bit>>
<1>1. ASSUME NEW q \in P PROVE Before(q, row, bit + 1) <=> Before(q, row, bit) \/ q = p
  <2>1. q[1] \in Int /\ q[2] \in Int /\ q = <<q[1], q[2]>>
    BY SMT
  <2>2. q[2] < bit + 1 <=> q[2] < bit \/ q[2] = bit
    BY <2>1, SMT
  <2>3. q = p <=> q[1] = row /\ q[2] = bit
    BY <2>1
  <2> HIDE DEF p
  <2> QED BY <2>2, <2>3 DEF Before
<1>2. p \in P /\ p[1] = row /\ p[2] = bit
  OBVIOUS
<1> HIDE DEF Before, Lit, P, p, SpritePixel
<1>3. CASE Lit(i, mem, p)
  <2>1. {q \in P : Before(q, row, bit + 1) /\ Lit(i, mem, q)}
          = {q \in P : Before(q, row, bit) /\ Lit(i, mem, q)} \cup {p}
    BY <1>1, <1>2, <1>3
  <2> QED BY <1>2, <1>3, <2>1 DEF Drawn, P, p
<1>4. CASE ~Lit(i, mem, p)
  <2>1. {q \in P : Before(q, row, bit + 1) /\ Lit(i, mem, q)}
          = {q \in P : Before(q, row, bit) /\ Lit(i, mem, q)}
    BY <1>1, <1>4
  <2> QED BY <1>4, <2>1 DEF Drawn, P, p
<1> QED BY <1>3, <1>4 DEF p

LEMMA SpotFresh ==
  ASSUME NEW i, NEW mem, NEW x \in Int, NEW y \in Int, NEW row \in 0..15, NEW bit \in 0..7
  PROVE  SpritePixel(x, y, bit, row) \notin Drawn(i, mem, x, y, row, bit)
<1>1. Width > 0 /\ Height > 0 /\ Width \in Nat /\ Height \in Nat
      /\ 0..7 \subseteq 0..(Width - 1) /\ 0..15 \subseteq 0..(Height - 1)
  BY DisplayAssumption, SMT
<1>2. ASSUME NEW c \in 0..7, NEW t \in 0..15,
             SpritePixel(x, y, bit, row) = SpritePixel(x, y, c, t)
      PROVE  bit = c /\ row = t
  <2>1. (x + bit) % Width = (x + c) % Width /\ (y + row) % Height = (y + t) % Height
    BY <1>2 DEF SpritePixel
  <2> QED BY <1>1, <2>1, ModInjective
<1>3. ASSUME NEW q \in (0..15) \X (0..7), Before(q, row, bit),
             SpritePixel(x, y, bit, row) = SpritePixel(x, y, q[2], q[1])
      PROVE  FALSE
  <2>1. q[1] \in 0..15 /\ q[2] \in 0..7
    OBVIOUS
  <2>2. q[1] = row /\ q[2] = bit
    BY <1>2, <1>3, <2>1
  <2>3. ~(row < row) /\ ~(bit < bit)
    BY SMT
  <2> QED BY <1>3, <2>2, <2>3 DEF Before
<1> HIDE DEF SpritePixel, Before
<1> QED BY <1>3 DEF Drawn

LEMMA ToggleSpot ==
  ASSUME NEW screen, NEW s, NEW p, p \notin s
  PROVE  /\ (Toggled(screen, s) \ {p}) \cup ({p} \ Toggled(screen, s)) = Toggled(screen, s \cup {p})
         /\ p \in Toggled(screen, s) <=> p \in screen
         /\ (s \cup {p}) \cap screen # {} <=> s \cap screen # {} \/ p \in screen
<1>1. p \in Toggled(screen, s) <=> p \in screen
  BY DEF Toggled
<1>2. (Toggled(screen, s) \ {p}) \cup ({p} \ Toggled(screen, s)) = Toggled(screen, s \cup {p})
  BY DEF Toggled
<1>3. (s \cup {p}) \cap screen # {} <=> s \cap screen # {} \/ p \in screen
  OBVIOUS
<1> QED BY <1>1, <1>2, <1>3

(* The sprite of the oracle, up to row n. *)
LEMMA DrawnAll ==
  ASSUME NEW i, NEW mem, NEW x, NEW y, NEW n \in 0..15
  PROVE  Drawn(i, mem, x, y, n, 0)
           = {SpritePixel(x, y, p[2], p[1]) : p \in {q \in (0..(n - 1)) \X (0..7) : Lit(i, mem, q)}}
<1>1. ASSUME NEW q \in (0..15) \X (0..7) PROVE Before(q, n, 0) <=> q \in (0..(n - 1)) \X (0..7)
  <2>1. q[1] \in 0..15 /\ q[2] \in 0..7 /\ q = <<q[1], q[2]>>
    OBVIOUS
  <2>2. Before(q, n, 0) <=> q[1] \in 0..(n - 1)
    BY <2>1, SMT DEF Before
  <2> QED BY <2>1, <2>2
<1>2. ASSUME NEW q \in (0..(n - 1)) \X (0..7) PROVE q \in (0..15) \X (0..7)
  <2>1. 0..(n - 1) \subseteq 0..15
    BY SMT
  <2> QED BY <2>1
<1> HIDE DEF Before, Lit
<1>3. {q \in (0..15) \X (0..7) : Before(q, n, 0) /\ Lit(i, mem, q)}
        = {q \in (0..(n - 1)) \X (0..7) : Lit(i, mem, q)}
  BY <1>1, <1>2
<1> QED BY <1>3 DEF Drawn

LEMMA TypeScreen == TypeOK => fb \in SUBSET Pixel
BY DEF TypeOK

LEMMA DrawFrame ==
  ASSUME AtWork, SequencersInStep, Drawing
  PROVE  /\ Op(opcode) = "DRAW" /\ draw.n = Nib(opcode) /\ draw.row < draw.n
         /\ draw.row \in 0..14 /\ draw.bit \in 0..7 /\ draw.n \in 1..15
         /\ arch.v[X] \in Byte /\ arch.v[Y] \in Byte /\ arch.v[X] \in Int /\ arch.v[Y] \in Int
         /\ ArchMem = arch.mem /\ ArchMem' = arch.mem /\ V = arch.v /\ ~write.we
         /\ enable /\ TypeOK /\ Display /\ Memory
<1>1. /\ enable /\ TypeOK /\ Display /\ Memory /\ state \in {"MEM_READ", "DRAW"}
      /\ Op(opcode) = "DRAW"
  BY DEF AtWork, Active, Clock, Drawing, SequencersInStep
<1>2. ~Storing /\ ~Loading
  BY <1>1 DEF Storing, Loading
<1>3. ArchMem = arch.mem /\ V = arch.v /\ ~write.we
  BY <1>1, <1>2 DEF AtWork, InStep, Followed, Quiet
<1>4. ArchMem' = ArchMem
  BY <1>1, <1>2, NoWriteStep DEF AtWork
<1>5. draw.n = Nib(opcode) /\ draw.row < draw.n
  BY <1>1 DEF SequencersInStep
<1>6. draw.row \in 0..15 /\ draw.bit \in 0..7 /\ draw.n \in 0..15
  BY <1>1 DEF TypeOK, DrawState
<1>7. draw.row \in 0..14 /\ draw.n \in 1..15
  BY <1>5, <1>6, SMT
<1>8. arch.v[X] \in Byte /\ arch.v[Y] \in Byte
  BY WorkFrame
<1>9. Byte \subseteq Int
  BY SMT DEF Byte
<1> QED BY <1>1, <1>3, <1>4, <1>5, <1>6, <1>7, <1>8, <1>9

LEMMA DrawStep ==
  ASSUME AtWork, SequencersInStep, state = "DRAW", draw.valid, NEW next,
         next = Drawn(arch.i, arch.mem, arch.v[X], arch.v[Y], draw.row, draw.bit + 1)
  PROVE  fb' = Toggled(arch.fb, next) /\ (Collide <=> next \cap arch.fb # {})
<1> DEFINE now == Drawn(arch.i, arch.mem, arch.v[X], arch.v[Y], draw.row, draw.bit)
           p   == SpritePixel(arch.v[X], arch.v[Y], draw.bit, draw.row)
<1>1. Drawing /\ draw.row \in 0..15 /\ draw.row \in Int /\ draw.bit \in 0..7 /\ draw.bit \in Int
  <2>1. Drawing
    BY DEF Drawing
  <2> QED BY <2>1, DrawFrame, SMT
<1>2. /\ fb = Toggled(arch.fb, now) /\ (draw.coll <=> now \cap arch.fb # {})
      /\ draw.x = arch.v[X] % Width /\ draw.y = arch.v[Y] % Height
      /\ draw.byte = arch.mem[Wrap(arch.i + draw.row)]
  BY <1>1 DEF AtWork, InStep, InDraw, Active
<1>3. Spot = p
  BY <1>1, <1>2, DrawFrame, SpotShift DEF Spot
<1>4. PixelOn <=> Lit(arch.i, arch.mem, <<draw.row, draw.bit>>)
  BY <1>2 DEF PixelOn, Lit, AtWork
<1>5. p \notin now
  BY <1>1, DrawFrame, SpotFresh
<1>6. next = IF PixelOn THEN now \cup {p} ELSE now
  BY <1>1, <1>4, DrawnNext, ZenonT(40)
<1>7. fb' = IF PixelOn THEN (fb \ {p}) \cup ({p} \ fb) ELSE fb
  BY <1>1, <1>3, DrawFrame DEF Display, Executing, Drawing
<1>8. Collide <=> draw.coll \/ (PixelOn /\ p \in fb)
  BY <1>3 DEF Collide
<1> HIDE DEF now, p
<1>9. CASE PixelOn
  BY <1>2, <1>5, <1>6, <1>7, <1>8, <1>9, ToggleSpot
<1>10. CASE ~PixelOn
  BY <1>2, <1>6, <1>7, <1>8, <1>10
<1> QED BY <1>9, <1>10

(* The sprite the oracle draws, and the flag it sets. *)
LEMMA OracleSprite ==
  ASSUME NEW s, NEW x, NEW y, NEW n \in 0..15, NEW sprite,
         sprite = Drawn(s.i, s.mem, s.v[x], s.v[y], n, 0)
  PROVE  Oracle!Draw(s, x, y, n)
           = Oracle!SetReg([s EXCEPT !.fb = Toggled(s.fb, sprite)], VF,
                           Pick(sprite \cap s.fb # {}, 1))
<1>1. \A q, b : Oracle!SpriteBit(q, b) = SpriteBit(q, b)
  BY DEF Oracle!SpriteBit, SpriteBit, Oracle!HasBit, HasBit
<1>2. \A a, b, c, d : Oracle!SpritePixel(a, b, c, d) = SpritePixel(a, b, c, d)
  BY DEF Oracle!SpritePixel, SpritePixel
<1>3. \A a : Oracle!Wrap(a) = Wrap(a)
  BY OracleFields
<1>4. \A c, w : Oracle!Pick(c, w) = Pick(c, w)
  BY DEF Oracle!Pick, Pick
<1> DEFINE set == {q \in (0..(n - 1)) \X (0..7) : Oracle!SpriteBit(s.mem[Oracle!Wrap(s.i + q[1])], q[2])}
           all == {Oracle!SpritePixel(s.v[x], s.v[y], p[2], p[1]) : p \in set}
<1>5. set = {q \in (0..(n - 1)) \X (0..7) : Lit(s.i, s.mem, q)}
  BY <1>1, <1>3 DEF Lit
<1>6. all = sprite
  <2> HIDE DEF set
  <2>1. all = {SpritePixel(s.v[x], s.v[y], p[2], p[1]) : p \in set}
    BY <1>2
  <2> HIDE DEF all
  <2> QED BY <1>5, <2>1, DrawnAll
<1>7. Oracle!Draw(s, x, y, n)
        = Oracle!SetFlag([s EXCEPT !.fb = (s.fb \ all) \cup (all \ s.fb)], Oracle!Collision(all, s.fb))
  BY DEF Oracle!Draw
<1>8. Oracle!Collision(all, s.fb) = Pick(sprite \cap s.fb # {}, 1)
  <2> HIDE DEF all
  <2> QED BY <1>6 DEF Oracle!Collision, Oracle!Pick, Pick
<1> HIDE DEF all
<1> QED BY <1>6, <1>7, <1>8, OracleFlag DEF Toggled

LEMMA DrawCompletes ==
  ASSUME AtWork, SequencersInStep, enable', DrawEnd PROVE Completed
<1> DEFINE s == After(arch)
           sprite == Drawn(arch.i, arch.mem, arch.v[X], arch.v[Y], draw.n, 0)
           lit == Toggled(arch.fb, sprite)
           f == Pick(sprite \cap arch.fb # {}, 1)
<1>1. /\ state = "DRAW" /\ draw.valid /\ draw.bit = 7 /\ LastRow /\ Drawing
  BY DEF DrawEnd, Drawing
<1>2. /\ pc' = pc /\ index' = index /\ stack' = stack /\ V' = [V EXCEPT ![VF] = Pick(Collide, 1)]
  BY DEF DrawEnd, Goto, SetV
<1>3. fb' = lit /\ (Collide <=> sprite \cap arch.fb # {})
  <2>1. draw.row \in 0..15 /\ 7 + 1 = 8 /\ draw.n # 0 /\ draw.row + 1 = draw.n
    BY <1>1, DrawFrame, SMT DEF LastRow
  <2>2. sprite = Drawn(arch.i, arch.mem, arch.v[X], arch.v[Y], draw.row, 8)
    BY <2>1, DrawnRow
  <2>3. sprite = Drawn(arch.i, arch.mem, arch.v[X], arch.v[Y], draw.row, draw.bit + 1)
    BY <1>1, <2>1, <2>2
  <2> HIDE DEF sprite
  <2> QED BY <1>1, <2>3, DrawStep
<1>4. /\ Looks(s, pc, index, arch.v, arch.mem, stack.mem, stack.sp, arch.fb)
      /\ opcode \in Opcode /\ X \in Reg /\ arch.i = index /\ VF \in Reg
      /\ arch.v \in [Reg -> Byte]
  <2>1. VF \in Reg
    BY SMT DEF VF, Reg
  <2> QED BY <2>1, WorkFrame
<1>5. Class(opcode) = 13 /\ draw.n = Nib(opcode) /\ draw.n \in 0..15
  BY <1>1, <1>4, DrawFrame, ClassIs, SMT
<1>6. V' = [arch.v EXCEPT ![VF] = f] /\ ArchMem' = arch.mem
  <2>1. Pick(Collide, 1) = f
    <3> HIDE DEF sprite
    <3> QED BY <1>3 DEF Pick
  <2> HIDE DEF f
  <2> QED BY <1>1, <1>2, <2>1, DrawFrame
<1>7. f \in Byte /\ lit \in SUBSET Pixel
  <2>1. 0 \in Byte /\ 1 \in Byte
    BY SMT DEF Byte
  <2>2. (TypeOK => fb \in SUBSET Pixel)'
    BY PTL, TypeScreen
  <2>3. TypeOK'
    BY NextTypeOK DEF Next, Tick, Continue, AtWork
  <2> HIDE DEF sprite
  <2> QED BY <1>3, <2>1, <2>2, <2>3 DEF Pick
<1>8. ASSUME NEW keys
      PROVE  Looks(Oracle!ExecOp(After(arch), opcode, 0, keys),
                   pc', index', V', ArchMem', stack'.mem, stack'.sp, fb')
  <2>1. Oracle!ExecOp(s, opcode, 0, keys) = Oracle!Draw(s, X, Y, draw.n)
    BY <1>4, <1>5, OracleDraw DEF X, Y
  <2>2. s.i = arch.i /\ s.v = arch.v /\ s.mem = arch.mem /\ s.fb = arch.fb
    BY <1>4 DEF Looks
  <2>3. Oracle!Draw(s, X, Y, draw.n) = Oracle!SetReg([s EXCEPT !.fb = lit], VF, f)
    <3>1. sprite = Drawn(s.i, s.mem, s.v[X], s.v[Y], draw.n, 0)
      BY <2>2
    <3> HIDE DEF sprite, s
    <3>2. Oracle!Draw(s, X, Y, draw.n)
            = Oracle!SetReg([s EXCEPT !.fb = Toggled(s.fb, sprite)], VF,
                            Pick(sprite \cap s.fb # {}, 1))
      BY <1>5, <3>1, OracleSprite
    <3> QED BY <2>2, <3>2
  <2> HIDE DEF s, f, lit
  <2>4. Looks([s EXCEPT !.fb = lit], pc, index, arch.v, arch.mem, stack.mem, stack.sp, lit)
    BY <1>4, <1>7, LooksScreen
  <2>5. Looks(Oracle!SetReg([s EXCEPT !.fb = lit], VF, f), pc, index, [arch.v EXCEPT ![VF] = f],
              arch.mem, stack.mem, stack.sp, lit)
    BY <1>4, <1>7, <2>4, LooksReg
  <2> QED BY <1>2, <1>3, <1>6, <2>1, <2>3, <2>5 DEF s
<1> QED BY <1>5, <1>8, ReachesFromWork

-----------------------------------------------------------------------------
(* The steps of the core, seen from the oracle: where an instruction ends.  *)

(* What was read ahead is what the program sees when it is used. *)
LEMMA ReadAheadFresh ==
  ASSUME TypeOK, Tick, enable, ~LoadsRunning, Quiet, Fill'
  PROVE  (Fetched = OpcodeAt(pc))' /\ ~write'.we
<1>1. Eligible /\ state = "EXEC" /\ Op(opcode) # "DRAW"
  BY FillSource, SequentialOps DEF Eligible, Executing, Active
<1>2. pc' = Next2 /\ Memory
  BY <1>1, EligibleRetires, TickClocks DEF Clock
<1>3. ~write.we /\ write' = NoWrite
  BY <1>1, <1>2 DEF Quiet, LoadsRunning, Memory, ArbWrite, CpuWrite
<1>4. ArchMem' = Mem
  BY <1>2, <1>3 DEF ArchMem, Mem, Memory, NoWrite
<1>5. ReadAddr = <<Wrap(pc + 2 + 0), Wrap(pc + 2 + 1)>>
  BY <1>1 DEF ReadAddr, FetchAddr
<1>6. pc + 2 + 0 = pc + 2
  BY OffsetTypes, SMT
<1>7. rdata' = <<Mem[Next2], Mem[Wrap(Next2 + 1)]>>
  BY <1>2, <1>5, <1>6, WrapTwice DEF Memory, TypeOK, Next2
<1>8. (Fetched = OpcodeAt(pc))'
  BY <1>2, <1>4, <1>7 DEF Fetched, OpcodeAt
<1> QED BY <1>3, <1>8 DEF NoWrite

(* Back in FETCH with the state of the core reported, the two agree. *)
LEMMA AgreeInFetch ==
  TypeOK /\ arch = Snapshot /\ state = "FETCH" /\ (Fill => Fetched = OpcodeAt(pc) /\ ~write.we)
    => InStep
<1> SUFFICES ASSUME TypeOK, arch = Snapshot, state = "FETCH",
                    Fill => Fetched = OpcodeAt(pc) /\ ~write.we
             PROVE  InStep
  OBVIOUS
<1>1. arch \in ArchState /\ arch.run = enable
  BY SnapshotType, SnapshotFields
<1>2. Followed
  <2>1. /\ arch.delay = timers.delay /\ arch.sound = timers.sound
        /\ arch.i = index /\ arch.stack = stack.mem /\ arch.sp = stack.sp
        /\ arch.pc = pc /\ arch.mem = ArchMem /\ arch.fb = fb /\ arch.v = V
    BY SnapshotFields
  <2>2. Current = OpcodeAt(pc)
    BY <2>1 DEF Current, OpcodeIn, OpcodeAt
  <2>3. Between
    BY DEF Between
  <2> QED BY <2>1, <2>2, <2>3 DEF Followed
<1>3. InAlu /\ InLoad /\ InStore /\ InDraw
  BY DEF InAlu, InLoad, InStore, InDraw, Loading, Storing, Drawing
<1>4. Quiet
  BY DEF Quiet, Fill, TypeOK
<1> QED BY <1>1, <1>2, <1>3, <1>4 DEF InStep

LEMMA InStepAtFetch ==
  (TypeOK /\ arch = Snapshot /\ state = "FETCH" /\ (Fill => Fetched = OpcodeAt(pc) /\ ~write.we)
     => InStep)'
BY AgreeInFetch, PTL

(* Reset and the restart after enable was low. *)
LEMMA ResetStep ==
  ASSUME TypeOK', arch' = Snapshot', Reset PROVE InStep' /\ Oracle!PowerOn(arch')
<1>1. InStep'
  BY InStepAtFetch DEF Reset, Fill
<1>2. /\ arch'.pc = RomBase /\ arch'.i = 0 /\ arch'.v = [r \in Reg |-> 0]
      /\ arch'.sp = 0 /\ arch'.stack = [k \in 0..(StackDepth - 1) |-> 0]
      /\ arch'.delay = 0 /\ arch'.sound = 0 /\ arch'.fb = {}
  BY DEF Reset, Snapshot, EmptyStack, NoTime
<1>3. Oracle!PowerOn(arch')
  BY <1>2 DEF Oracle!PowerOn, Oracle!Reg, Reg
<1> QED BY <1>1, <1>3

LEMMA StoppedStep ==
  ASSUME TypeOK, TypeOK', InStep, arch' = Snapshot', Tick, ~enable \/ ~enable'
  PROVE  InStep' /\ Oracle!Restart
<1>1. arch'.run = enable' /\ arch'.pc = pc' /\ arch'.i = index' /\ arch.run = enable
  BY DEF Snapshot, InStep
<1>2. CASE ~enable'
  <2>1. Snapshot' \in ArchState
    BY SnapshotTypeNext
  <2>2. InStep'
    BY <1>1, <1>2, <2>1 DEF InStep
  <2>3. (arch.run /\ arch'.run) = FALSE /\ ~arch'.run
    BY <1>1, <1>2
  <2> QED BY <2>2, <2>3 DEF Oracle!Restart
<1>3. CASE ~enable
  <2>1. Held
    BY <1>3 DEF Tick, FetchHit, FetchMiss, Decode, Execute, ExecCls, ExecCall, ExecRet,
       ExecJump, ExecSkip, ExecKeySkip, ExecReg, ExecAlu, ExecAluFlag, ExecIndex, ExecTimer,
       ExecDraw, ExecBurst, ExecWaitKey, ExecIllegal, Continue, AluFlagWrite, WaitKey, Bcd, Store,
       LoadRead, LoadCommit, DrawRead, DrawLatch, DrawPixel, DrawRowEnd, DrawEnd, Halted,
       Exec, Executing, Active
  <2>2. state' = "FETCH" /\ ~fetchValid' /\ pc' = RomBase /\ index' = 0
    BY <2>1 DEF Held
  <2>3. InStep'
    BY <2>2, InStepAtFetch DEF Fill
  <2>4. (arch.run /\ arch'.run) = FALSE
    BY <1>1, <1>3
  <2> QED BY <1>1, <2>2, <2>3, <2>4 DEF Oracle!Restart
<1> QED BY <1>2, <1>3

(* A cycle in the middle of an instruction: arch only follows the timers. *)
Carried == arch' = [arch EXCEPT !.delay = timers'.delay, !.sound = timers'.sound]

LEMMA CarriedFields ==
  ASSUME TypeOK', arch \in ArchState, Carried
  PROVE  /\ arch' \in ArchState /\ SameButTimers(arch', arch)
         /\ arch'.delay = timers'.delay /\ arch'.sound = timers'.sound
<1>1. timers'.delay \in Byte /\ timers'.sound \in Byte
  BY DEF TypeOK
<1> QED BY <1>1 DEF Carried, ArchState, SameButTimers

LEMMA TimersRun ==
  ASSUME TypeOK, Timers, Tick, ~ExecTimer PROVE TimersFollow
<1>1. ~Exec({"TIMER_DELAY_WRITE"}) /\ ~Exec({"TIMER_SOUND_WRITE"})
  BY DEF Tick, FetchHit, FetchMiss, Decode, Execute, ExecCls, ExecCall, ExecRet,
     ExecJump, ExecSkip, ExecKeySkip, ExecReg, ExecAlu, ExecAluFlag, ExecIndex,
     ExecDraw, ExecBurst, ExecWaitKey, ExecIllegal, Continue, AluFlagWrite, WaitKey, Bcd, Store,
     LoadRead, LoadCommit, DrawRead, DrawLatch, DrawPixel, DrawRowEnd, DrawEnd, Halted, Held,
     Exec, Executing, Active
<1> QED BY <1>1, TimerStep DEF TimersFollow

LEMMA ElapseStep ==
  ASSUME TypeOK', arch \in ArchState, arch.delay = timers.delay, arch.sound = timers.sound,
         arch' \in ArchState, SameButTimers(arch', arch),
         arch'.delay = timers'.delay, arch'.sound = timers'.sound, TimersFollow
  PROVE  Oracle!Elapse \/ arch' = arch
<1>1. CASE timers.tick
  <2>1. arch'.delay = Pass(arch).delay /\ arch'.sound = Pass(arch).sound
    BY <1>1, PassFields DEF TimersFollow
  <2>2. SameButTimers(arch', Pass(arch))
    BY PassFields DEF SameButTimers
  <2>3. arch' = Pass(arch)
    BY <2>1, <2>2, PassFields, SameState
  <2> QED BY <2>3 DEF Oracle!Elapse, Pass
<1>2. CASE ~timers.tick
  <2>1. arch'.delay = arch.delay /\ arch'.sound = arch.sound
    BY <1>2 DEF TimersFollow
  <2> QED BY <2>1, SameState
<1> QED BY <1>1, <1>2

Midway ==
  /\ TypeOK /\ TypeOK' /\ InStep /\ enable /\ ~LoadsRunning /\ Clock /\ enable'
  /\ arch' \in ArchState /\ SameButTimers(arch', arch)
  /\ arch'.delay = timers'.delay /\ arch'.sound = timers'.sound

LEMMA MidwayFrame ==
  ASSUME Midway
  PROVE  /\ enable /\ Followed /\ Quiet /\ InAlu /\ InLoad /\ InStore /\ InDraw /\ Memory /\ Display
         /\ arch' \in ArchState /\ arch'.run = enable' /\ Current' = Current
         /\ arch'.pc = arch.pc /\ arch'.i = arch.i /\ arch'.v = arch.v /\ arch'.mem = arch.mem
         /\ arch'.stack = arch.stack /\ arch'.sp = arch.sp /\ arch'.fb = arch.fb
         /\ arch'.delay = timers'.delay /\ arch'.sound = timers'.sound
         /\ arch.v \in [Reg -> Byte] /\ arch.mem \in [Addr -> Byte] /\ arch.i \in Addr
         /\ arch.i = index /\ arch.stack = stack.mem /\ arch.sp = stack.sp
<1>1. /\ enable /\ Followed /\ Quiet /\ InAlu /\ InLoad /\ InStore /\ InDraw /\ Memory /\ Display
      /\ arch \in ArchState /\ arch.run = enable
  BY DEF Midway, InStep, Clock
<1>2. /\ arch'.pc = arch.pc /\ arch'.i = arch.i /\ arch'.v = arch.v /\ arch'.mem = arch.mem
      /\ arch'.stack = arch.stack /\ arch'.sp = arch.sp /\ arch'.fb = arch.fb /\ arch'.run = arch.run
  BY DEF Midway, SameButTimers
<1>3. Current' = Current
  BY <1>2 DEF Current
<1>4. arch'.run = enable'
  <2>1. arch'.run \in BOOLEAN /\ arch.run \in BOOLEAN /\ enable' \in BOOLEAN
    BY <1>1 DEF Midway, ArchState, TypeOK
  <2> QED BY <1>1, <1>2, <2>1 DEF Midway
<1>5. arch.v \in [Reg -> Byte] /\ arch.mem \in [Addr -> Byte] /\ arch.i \in Addr
  BY <1>1 DEF ArchState
<1>6. arch.i = index /\ arch.stack = stack.mem /\ arch.sp = stack.sp
  BY <1>1 DEF Followed
<1> QED BY <1>1, <1>2, <1>3, <1>4, <1>5, <1>6 DEF Midway

(* The registers that the instruction under way has not changed. *)
LEMMA FollowedNext ==
  ASSUME Midway, index' = index, stack' = stack,
         pc' = IF Between' THEN arch.pc ELSE Wrap(arch.pc + 2),
         ~Storing' => ArchMem' = arch.mem,
         ~Drawing' => fb' = arch.fb,
         ~Loading' /\ state' # "ALU_FLAG" => V' = arch.v,
         state' \notin {"FETCH", "DECODE", "TRAP"} => opcode' = Current,
         state' = "DECODE" \/ Fill' => Fetched' = Current,
         state' = "WAIT_KEY" => Op(opcode') = "WAIT_KEY"
  PROVE  Followed'
BY MidwayFrame DEF Followed

LEMMA MidwayInStep ==
  ASSUME Midway, Followed', InAlu', InLoad', InStore', InDraw', Quiet' PROVE InStep'
BY MidwayFrame DEF InStep

(* A cycle that ends outside the sequencers. *)
LEMMA PlainInStep ==
  ASSUME Midway, Followed', ~write'.we, ~Loading', ~Storing', ~Drawing', state' # "ALU_FLAG"
  PROVE  InStep'
BY MidwayInStep DEF InAlu, InLoad, InStore, InDraw, Quiet

LEMMA FetchInStep ==
  ASSUME Midway, StoredEntryUnused, ~FetchesStale, FetchHit \/ FetchMiss \/ Decode
  PROVE  InStep'
<1>1. /\ state \in {"FETCH", "DECODE"} /\ state' \in {"DECODE", "EXEC"}
      /\ pc' = pc /\ index' = index /\ stack' = stack /\ V' = V /\ ~Storing /\ ~Loading /\ ~Drawing
      /\ Between /\ Between' /\ ~Storing' /\ ~Loading' /\ ~Drawing' /\ ~Fill'
  BY DEF FetchHit, FetchMiss, Decode, Goto, regs, Between, Storing, Loading, Drawing, Fill
<1>2. ArchMem' = ArchMem /\ ~write'.we /\ fb' = fb
  BY <1>1, MidwayFrame, NoWriteStep, ScreenKept DEF Midway
<1>3. ArchMem = arch.mem /\ fb = arch.fb /\ V = arch.v /\ pc = arch.pc
      /\ (state = "DECODE" \/ Fill => Fetched = Current)
  BY <1>1, MidwayFrame DEF Followed
<1>4. state' = "EXEC" => opcode' = Current
  <2>1. CASE FetchHit
    <3>1. Fill
      BY <2>1 DEF FetchHit, Hit, StoredEntryUnused, Fill
    <3> QED BY <1>3, <2>1, <3>1 DEF FetchHit, HitOpcode
  <2>2. CASE Decode
    BY <1>3, <2>2 DEF Decode
  <2>3. CASE FetchMiss
    BY <2>3 DEF FetchMiss, Goto
  <2> QED BY <2>1, <2>2, <2>3
<1>5. state' = "DECODE" => Fetched' = Current
  <2> SUFFICES ASSUME FetchMiss PROVE Fetched' = Current
    BY DEF FetchHit, Decode, Goto
  <2>1. 256 * Mem[ReadAddr[1]] + Mem[ReadAddr[2]] = OpcodeAt(pc)
    BY DEF FetchMiss, FetchesStale
  <2>2. Fetched' = 256 * Mem[ReadAddr[1]] + Mem[ReadAddr[2]]
    BY MidwayFrame DEF Fetched, Memory
  <2>3. OpcodeAt(pc) = Current
    BY <1>3 DEF OpcodeAt, Current, OpcodeIn
  <2> QED BY <2>1, <2>2, <2>3
<1>6. Followed'
  BY <1>1, <1>2, <1>3, <1>4, <1>5, FollowedNext
<1> QED BY <1>1, <1>2, <1>6, PlainInStep

(* What EXEC starts. *)
LEMMA ExecFrame ==
  ASSUME Midway, state = "EXEC", ~SysCls(opcode)
  PROVE  /\ ArchMem = arch.mem /\ ArchMem' = arch.mem /\ ~write'.we
         /\ fb = arch.fb /\ fb' = arch.fb /\ V = arch.v /\ pc = arch.pc /\ opcode = Current
         /\ Next2 = Wrap(arch.pc + 2)
<1>1. Between /\ ~Storing /\ ~Loading /\ ~Drawing
  BY DEF Between, Storing, Loading, Drawing
<1>2. ArchMem' = ArchMem /\ ~write'.we /\ fb' = fb
  BY <1>1, MidwayFrame, NoWriteStep, ScreenKept DEF Midway
<1>3. ArchMem = arch.mem /\ fb = arch.fb /\ V = arch.v /\ pc = arch.pc /\ opcode = Current
  BY <1>1, MidwayFrame DEF Followed
<1> QED BY <1>2, <1>3 DEF Next2

LEMMA NotCls ==
  ASSUME TypeOK, Op(opcode) # "SYS" PROVE ~SysCls(opcode)
BY SysClass, ClassIs DEF TypeOK

LEMMA AluFlagInStep ==
  ASSUME Midway, ~ShiftsFlag, ExecAluFlag PROVE InStep'
<1>1. /\ state = "EXEC" /\ Op(opcode) = "ALU" /\ AluFlag(opcode) /\ Exec({"ALU"}) /\ TypeOK
      /\ state' = "ALU_FLAG" /\ pc' = Next2 /\ opcode' = opcode /\ index' = index /\ stack' = stack
      /\ V' = [V EXCEPT ![X] = AluResult(Nib(opcode), V[X], V[Y])]
      /\ flag' = AluFlagBit(Nib(opcode), V[X], V[Y])
  BY DEF ExecAluFlag, Exec, Executing, SetV, Midway
<1>2. /\ ArchMem' = arch.mem /\ ~write'.we /\ fb' = arch.fb /\ V = arch.v /\ opcode = Current
      /\ Next2 = Wrap(arch.pc + 2)
  BY <1>1, NotCls, ExecFrame
<1>3. ~Between' /\ ~Storing' /\ ~Loading' /\ ~Drawing' /\ ~Fill'
  BY <1>1 DEF Between, Storing, Loading, Drawing, Fill
<1>4. Followed'
  BY <1>1, <1>2, <1>3, FollowedNext
<1>5. InAlu'
  <2>1. X' = X /\ Y' = Y /\ arch'.v = arch.v
    BY <1>1, MidwayFrame DEF X, Y
  <2>2. X = VF /\ Nib(opcode) \in {6, 14} => flag' = 0
    BY <1>1 DEF ShiftsFlag
  <2> QED BY <1>1, <1>2, <2>1, <2>2 DEF InAlu
<1>6. (InLoad /\ InStore /\ InDraw /\ Quiet)'
  BY <1>2, <1>3 DEF InLoad, InStore, InDraw, Quiet
<1> QED BY <1>4, <1>5, <1>6, MidwayInStep

LEMMA WaitKeyInStep ==
  ASSUME Midway, ExecWaitKey \/ (WaitKey /\ state' # "FETCH") PROVE InStep'
<1>1. /\ state \in {"EXEC", "WAIT_KEY"} /\ Op(opcode) = "WAIT_KEY" /\ opcode = Current
      /\ state' = "WAIT_KEY" /\ pc' = pc /\ opcode' = opcode /\ index' = index /\ stack' = stack
      /\ V' = V
  BY MidwayFrame DEF ExecWaitKey, WaitKey, Exec, Executing, Goto, regs, Followed
<1>2. /\ Between /\ ~Storing /\ ~Loading /\ ~Drawing
      /\ Between' /\ ~Storing' /\ ~Loading' /\ ~Drawing' /\ ~Fill'
  BY <1>1 DEF Between, Storing, Loading, Drawing, Fill
<1>3. ArchMem' = ArchMem /\ ~write'.we /\ fb' = fb
  BY <1>1, <1>2, NotCls, MidwayFrame, NoWriteStep, ScreenKept DEF Midway
<1>4. ArchMem = arch.mem /\ fb = arch.fb /\ V = arch.v /\ pc = arch.pc
  BY <1>1, <1>2, MidwayFrame DEF Followed
<1>5. Followed'
  BY <1>1, <1>2, <1>3, <1>4, FollowedNext
<1> QED BY <1>1, <1>2, <1>3, <1>5, PlainInStep

LEMMA TrapInStep ==
  ASSUME Midway, ExecIllegal, IllegalPolicy = "TRAP" PROVE InStep'
<1>1. /\ state = "EXEC" /\ ~Legal(opcode) /\ state' = "TRAP" /\ pc' = pc /\ index' = index
      /\ stack' = stack /\ V' = V
  BY DEF ExecIllegal, Executing, regs
<1>a. ~SysCls(opcode)
  BY <1>1, SysClass, ClassIs DEF Legal, Midway, TypeOK
<1>2. /\ ArchMem' = arch.mem /\ ~write'.we /\ fb' = arch.fb /\ V = arch.v /\ pc = arch.pc
  BY <1>1, <1>a, ExecFrame
<1>3. Between' /\ ~Storing' /\ ~Loading' /\ ~Drawing' /\ ~Fill'
  BY <1>1 DEF Between, Storing, Loading, Drawing, Fill
<1>4. Followed'
  BY <1>1, <1>2, <1>3, FollowedNext
<1> QED BY <1>1, <1>2, <1>3, <1>4, PlainInStep

LEMMA HaltedInStep ==
  ASSUME Midway, HaltRecorded, Halted PROVE InStep'
<1>1. /\ state \in {"FETCH", "TRAP"} /\ state' = state /\ pc' = pc /\ index' = index
      /\ stack' = stack /\ V' = V /\ ~fetchValid'
  BY DEF HaltRecorded, Halted, regs
<1>2. /\ Between /\ ~Storing /\ ~Loading /\ ~Drawing
      /\ Between' /\ ~Storing' /\ ~Loading' /\ ~Drawing' /\ ~Fill'
  BY <1>1 DEF Between, Storing, Loading, Drawing, Fill
<1>3. ArchMem' = ArchMem /\ ~write'.we /\ fb' = fb
  BY <1>1, <1>2, MidwayFrame, NoWriteStep, ScreenKept DEF Midway
<1>4. ArchMem = arch.mem /\ fb = arch.fb /\ V = arch.v /\ pc = arch.pc
  BY <1>1, <1>2, MidwayFrame DEF Followed
<1>5. Followed'
  BY <1>1, <1>2, <1>3, <1>4, FollowedNext
<1> QED BY <1>1, <1>2, <1>3, <1>5, PlainInStep

LEMMA BurstInStep ==
  ASSUME Midway, ExecBurst PROVE InStep'
<1>1. /\ state = "EXEC" /\ Op(opcode) \in {"BCD", "STORE_REGS", "LOAD_REGS"} /\ Exec({"BCD", "STORE_REGS", "LOAD_REGS"})
      /\ pc' = Next2 /\ opcode' = opcode /\ index' = index /\ stack' = stack /\ V' = V
      /\ state' \in {"BCD0", "STORE", "LOAD"} /\ (state' # "BCD0" => burst'.idx = 0)
      /\ state' = "LOAD" => Op(opcode) = "LOAD_REGS"
  BY DEF ExecBurst, Exec, Executing, regs
<1>2. /\ ArchMem' = arch.mem /\ ~write'.we /\ fb' = arch.fb /\ V = arch.v /\ opcode = Current
      /\ Next2 = Wrap(arch.pc + 2)
  BY <1>1, NotCls, ExecFrame DEF Midway
<1>3. ~Between' /\ ~Drawing' /\ ~Fill' /\ state' \notin {"FETCH", "DECODE", "TRAP", "WAIT_KEY", "MEM_READ"}
  BY <1>1 DEF Between, Drawing, Fill
<1>4. Followed'
  BY <1>1, <1>2, <1>3, FollowedNext
<1>5. InLoad'
  <2>1. V' = Loaded(arch.i, arch.v, arch.mem, 0)
    BY <1>1, <1>2, MidwayFrame, LoadedNone
  <2> QED BY <1>1, <1>3, <2>1, MidwayFrame DEF InLoad, Loading
<1>6. InStore'
  BY <1>1, <1>2, <1>3, MidwayFrame, StoredNone DEF InStore, Storing
<1>7. (InAlu /\ InDraw /\ Quiet)'
  BY <1>1, <1>2, <1>3 DEF InAlu, InDraw, Quiet
<1> QED BY <1>4, <1>5, <1>6, <1>7, MidwayInStep

LEMMA DrawStarts ==
  ASSUME Midway, ExecDraw, Nib(opcode) # 0 PROVE InStep'
<1>1. /\ state = "EXEC" /\ Op(opcode) = "DRAW" /\ pc' = Next2 /\ opcode' = opcode
      /\ index' = index /\ stack' = stack /\ V' = V /\ state' = "MEM_READ"
      /\ draw' = [NoDraw EXCEPT !.x = V[X] % Width, !.y = V[Y] % Height, !.n = Nib(opcode)]
  BY DEF ExecDraw, Exec, Executing, regs
<1>2. /\ ArchMem' = arch.mem /\ ~write'.we /\ fb' = arch.fb /\ V = arch.v /\ opcode = Current
      /\ Next2 = Wrap(arch.pc + 2)
  BY <1>1, NotCls, ExecFrame DEF Midway
<1>3. ~Between' /\ ~Fill' /\ ~Loading' /\ ~Storing'
  BY <1>1 DEF Between, Fill, Loading, Storing
<1>4. Followed'
  BY <1>1, <1>2, <1>3, FollowedNext
<1>5. InDraw'
  <2>1. /\ draw'.x = V[X] % Width /\ draw'.y = V[Y] % Height /\ draw'.row = 0 /\ draw'.bit = 0
        /\ ~draw'.valid /\ ~draw'.coll
    BY <1>1 DEF NoDraw
  <2>2. X' = X /\ Y' = Y /\ arch'.v = arch.v /\ arch'.fb = arch.fb
    BY <1>1, MidwayFrame DEF X, Y
  <2>3. Drawn(arch'.i, arch'.mem, arch'.v[X'], arch'.v[Y'], draw'.row, draw'.bit) = {}
    BY <2>1, DrawnNone
  <2>4. fb' = Toggled(arch'.fb, {})
    BY <1>2, <2>2 DEF Toggled
  <2> QED BY <1>1, <1>2, <2>1, <2>2, <2>3, <2>4 DEF InDraw
<1>6. (InAlu /\ InLoad /\ InStore /\ Quiet)'
  BY <1>1, <1>2, <1>3 DEF InAlu, InLoad, InStore, Quiet
<1> QED BY <1>4, <1>5, <1>6, MidwayInStep

(* What the sequencers go on with. *)
WorkUnderWay == Midway /\ Active /\ ~Between /\ SequencersInStep

LEMMA WorkNext ==
  ASSUME WorkUnderWay, state' \notin {"FETCH", "DECODE", "EXEC", "WAIT_KEY", "TRAP"},
         pc' = pc, opcode' = opcode, index' = index, stack' = stack,
         ~Storing' => ArchMem' = arch.mem, ~Drawing' => fb' = arch.fb,
         ~Loading' /\ state' # "ALU_FLAG" => V' = arch.v
  PROVE  /\ Followed' /\ X' = X /\ Y' = Y
         /\ arch'.i = arch.i /\ arch'.v = arch.v /\ arch'.mem = arch.mem /\ arch'.fb = arch.fb
<1>1. pc = Wrap(arch.pc + 2) /\ opcode = Current
  BY MidwayFrame DEF WorkUnderWay, Followed, Between
<1>2. ~Between' /\ ~Fill'
  BY DEF Between, Fill
<1>3. Followed'
  BY <1>1, <1>2, FollowedNext DEF WorkUnderWay
<1>4. X' = X /\ Y' = Y
  BY DEF X, Y
<1> QED BY <1>3, <1>4, MidwayFrame DEF WorkUnderWay

LEMMA AtWorkIs == WorkUnderWay => AtWork /\ Midway /\ SequencersInStep /\ Active
BY DEF WorkUnderWay, AtWork, Midway

LEMMA BurstIndexNext ==
  ASSUME TypeOK, NEW again, BurstNext(again), burst.idx <= burst.x, state' # "FETCH"
  PROVE  state' = again /\ burst'.idx = burst.idx + 1 /\ pc' = pc /\ ~fetchValid'
<1>1. burst.idx \in Reg /\ burst.x \in Reg /\ burst \in [idx : Reg, x : Reg]
  BY DEF TypeOK
<1>2. burst.idx # burst.x /\ state' = again /\ pc' = pc /\ ~fetchValid'
      /\ burst' = [burst EXCEPT !.idx = (@ + 1) % 16]
  BY DEF BurstNext, Goto
<1>3. (burst.idx + 1) % 16 = burst.idx + 1
  BY <1>1, <1>2, SMT DEF Reg
<1> QED BY <1>1, <1>2, <1>3

LEMMA BcdInStep ==
  ASSUME WorkUnderWay, ~WritesFont, Bcd, state' # "FETCH" PROVE InStep'
<1>1. /\ state \in {"BCD0", "BCD1"} /\ pc' = pc /\ opcode' = opcode /\ index' = index /\ stack' = stack
      /\ V' = V /\ state' = IF state = "BCD0" THEN "BCD1" ELSE "BCD2"
  BY DEF Bcd, Goto, regs
<1> DEFINE k == IF state = "BCD0" THEN 0 ELSE 1
<1>2. /\ ArchMem' = Digits(arch.i, arch.v[X], arch.mem, k + 1)
      /\ V = arch.v /\ fb = arch.fb /\ fb' = fb
  <2>1. k \in 0..2 /\ k = IF state = "BCD0" THEN 0 ELSE IF state = "BCD1" THEN 1 ELSE 2
    BY <1>1
  <2> QED BY <2>1, BcdStep, AtWorkIs
<1>3. Storing' /\ ~Loading' /\ ~Drawing'
  BY <1>1 DEF Storing, Loading, Drawing
<1>4. /\ Followed' /\ X' = X /\ Y' = Y
      /\ arch'.i = arch.i /\ arch'.v = arch.v /\ arch'.mem = arch.mem /\ arch'.fb = arch.fb
  BY <1>1, <1>2, <1>3, WorkNext
<1>5. InStore'
  <2>1. CASE state = "BCD0"
    <3>1. k + 1 = 1 /\ state' = "BCD1"
      BY <1>1, <2>1, SMT
    <3> QED BY <1>2, <1>4, <3>1 DEF InStore
  <2>2. CASE state = "BCD1"
    <3>1. k + 1 = 2 /\ state' = "BCD2"
      BY <1>1, <2>2, SMT
    <3> QED BY <1>2, <1>4, <3>1 DEF InStore
  <2> QED BY <1>1, <2>1, <2>2
<1>6. (InAlu /\ InLoad /\ InDraw /\ Quiet)'
  BY <1>1, <1>3 DEF InAlu, InLoad, InDraw, Quiet
<1> QED BY <1>4, <1>5, <1>6, MidwayInStep, AtWorkIs

LEMMA StoreInStep ==
  ASSUME WorkUnderWay, ~WritesFont, Store, state' # "FETCH" PROVE InStep'
<1>1. /\ state' = "STORE" /\ burst'.idx = burst.idx + 1 /\ pc' = pc /\ opcode' = opcode
      /\ index' = index /\ stack' = stack /\ V' = V
  <2>1. burst.idx <= burst.x /\ TypeOK
    BY AtWorkIs DEF Store, SequencersInStep, Midway
  <2> QED BY <2>1, BurstIndexNext DEF Store, regs
<1>2. /\ ArchMem' = Stored(arch.i, arch.v, arch.mem, burst.idx + 1)
      /\ V = arch.v /\ fb = arch.fb /\ fb' = fb
  BY StoreStep, AtWorkIs
<1>3. Storing' /\ ~Loading' /\ ~Drawing'
  BY <1>1 DEF Storing, Loading, Drawing
<1>4. /\ Followed' /\ X' = X /\ Y' = Y
      /\ arch'.i = arch.i /\ arch'.v = arch.v /\ arch'.mem = arch.mem /\ arch'.fb = arch.fb
  BY <1>1, <1>2, <1>3, WorkNext
<1>5. InStore'
  BY <1>1, <1>2, <1>4 DEF InStore
<1>6. (InAlu /\ InLoad /\ InDraw /\ Quiet)'
  BY <1>1, <1>3 DEF InAlu, InLoad, InDraw, Quiet
<1> QED BY <1>4, <1>5, <1>6, MidwayInStep, AtWorkIs

LEMMA LoadInStep ==
  ASSUME WorkUnderWay, LoadRead \/ (LoadCommit /\ state' # "FETCH") PROVE InStep'
<1>1. /\ Op(opcode) = "LOAD_REGS" /\ opcode' = opcode /\ pc' = pc /\ index' = index /\ stack' = stack
      /\ state \in {"LOAD", "MEM_READ"} /\ state' \in {"LOAD", "MEM_READ"} /\ Loading'
      /\ ~Storing' /\ ~Drawing' /\ ~Storing
  <2>1. CASE LoadRead
    BY <2>1, AtWorkIs DEF LoadRead, Goto, SequencersInStep, Loading, Storing, Drawing, regs
  <2>2. CASE LoadCommit /\ state' # "FETCH"
    BY <2>2 DEF LoadCommit, BurstNext, Goto, Loading, Storing, Drawing
  <2> QED BY <2>1, <2>2
<1>2. ArchMem' = arch.mem /\ fb' = arch.fb /\ ~write'.we
  <2>1. ~write'.we
    BY <1>1, NoWriteStep, AtWorkIs DEF Midway
  <2> QED BY <2>1, LoadStep, LoadReads, AtWorkIs
<1>3. /\ Followed' /\ arch'.i = arch.i /\ arch'.v = arch.v /\ arch'.mem = arch.mem
  BY <1>1, <1>2, WorkNext
<1>4. InLoad'
  <2>1. CASE LoadRead
    BY <1>3, <2>1, LoadReads, AtWorkIs DEF InLoad, LoadRead, seqs, regs
  <2>2. CASE LoadCommit /\ state' # "FETCH"
    <3>1. burst.idx <= burst.x /\ TypeOK
      BY <2>2, AtWorkIs DEF LoadCommit, SequencersInStep, Midway
    <3>2. state' = "LOAD" /\ burst'.idx = burst.idx + 1
      BY <2>2, <3>1, BurstIndexNext DEF LoadCommit
    <3> QED BY <1>3, <2>2, <3>2, LoadStep, AtWorkIs DEF InLoad
  <2> QED BY <2>1, <2>2
<1>5. (InAlu /\ InStore /\ InDraw /\ Quiet)'
  BY <1>1, <1>2 DEF InAlu, InStore, InDraw, Quiet
<1> QED BY <1>3, <1>4, <1>5, MidwayInStep, AtWorkIs

LEMMA DrawNextFrame ==
  ASSUME WorkUnderWay, Drawing, state' \in {"MEM_READ", "DRAW"}, opcode' = opcode, pc' = pc,
         index' = index, stack' = stack, V' = V
  PROVE  /\ Followed' /\ Drawing' /\ X' = X /\ Y' = Y /\ (InAlu /\ InLoad /\ InStore /\ Quiet)'
         /\ arch'.i = arch.i /\ arch'.v = arch.v /\ arch'.mem = arch.mem /\ arch'.fb = arch.fb
<1>1. Op(opcode) = "DRAW" /\ ArchMem' = arch.mem /\ V = arch.v /\ TypeOK /\ enable
  BY DrawFrame, AtWorkIs
<1>2. Drawing' /\ ~Storing' /\ ~Loading' /\ state' # "ALU_FLAG" /\ ~Storing
  BY <1>1 DEF Drawing, Storing, Loading
<1>3. ~write'.we
  BY <1>1, <1>2, NoWriteStep, AtWorkIs DEF Midway
<1>4. /\ Followed' /\ X' = X /\ Y' = Y
      /\ arch'.i = arch.i /\ arch'.v = arch.v /\ arch'.mem = arch.mem /\ arch'.fb = arch.fb
  BY <1>1, <1>2, WorkNext
<1>5. (InAlu /\ InLoad /\ InStore /\ Quiet)'
  BY <1>2, <1>3 DEF InAlu, InLoad, InStore, Quiet
<1> QED BY <1>2, <1>4, <1>5

LEMMA DrawReads ==
  ASSUME WorkUnderWay, DrawRead \/ DrawLatch PROVE InStep'
<1>1. /\ Drawing /\ state \in {"MEM_READ", "DRAW"} /\ ~draw.valid /\ TypeOK /\ SequencersInStep
  BY AtWorkIs DEF DrawRead, DrawLatch, SequencersInStep, Drawing, Midway
<1>2. /\ state' = "DRAW" /\ opcode' = opcode /\ pc' = pc /\ index' = index /\ stack' = stack /\ V' = V
  BY DEF DrawRead, DrawLatch, Goto, regs
<1>3. /\ Followed' /\ Drawing' /\ X' = X /\ Y' = Y /\ (InAlu /\ InLoad /\ InStore /\ Quiet)'
      /\ arch'.i = arch.i /\ arch'.v = arch.v /\ arch'.mem = arch.mem /\ arch'.fb = arch.fb
  BY <1>1, <1>2, DrawNextFrame
<1>4. /\ InDraw /\ Display /\ Memory /\ ArchMem = arch.mem /\ ~write.we /\ index = arch.i
  BY <1>1, DrawFrame, MidwayFrame, AtWorkIs
<1>5. fb' = fb
  BY <1>1, <1>4 DEF Display, PixelOn, Executing
<1>6. /\ draw'.x = draw.x /\ draw'.y = draw.y /\ draw'.row = draw.row /\ draw'.bit = draw.bit
      /\ draw'.coll = draw.coll
  BY <1>1 DEF DrawRead, DrawLatch, seqs, TypeOK, DrawState
<1>7. CASE DrawRead
  <2>1. ~draw'.valid
    BY <1>1, <1>7 DEF DrawRead, seqs
  <2>2. rdata'[2] = arch.mem[Wrap(arch.i + draw.row)]
    <3>1. ReadAddr[2] = Wrap(index + draw.row)
      BY <1>7 DEF DrawRead, ReadAddr
    <3> QED BY <1>4, <3>1, Settled DEF Memory
  <2>3. InDraw'
    BY <1>1, <1>3, <1>4, <1>5, <1>6, <2>1, <2>2 DEF InDraw
  <2> QED BY <1>3, <2>3, MidwayInStep, AtWorkIs
<1>8. CASE DrawLatch
  <2>1. draw'.valid /\ draw'.byte = rdata[2]
    BY <1>1, <1>8 DEF DrawLatch, TypeOK, DrawState
  <2>2. rdata[2] = arch.mem[Wrap(arch.i + draw.row)]
    BY <1>1, <1>4, <1>8 DEF DrawLatch, InDraw
  <2>3. InDraw'
    BY <1>1, <1>3, <1>4, <1>5, <1>6, <2>1, <2>2 DEF InDraw
  <2> QED BY <1>3, <2>3, MidwayInStep, AtWorkIs
<1> QED BY <1>7, <1>8

LEMMA DrawGoesOn ==
  ASSUME WorkUnderWay, DrawPixel \/ DrawRowEnd PROVE InStep'
<1> DEFINE now(row, bit) == Drawn(arch.i, arch.mem, arch.v[X], arch.v[Y], row, bit)
<1>1. /\ Drawing /\ state = "DRAW" /\ draw.valid /\ TypeOK /\ SequencersInStep /\ AtWork
  BY AtWorkIs DEF DrawPixel, DrawRowEnd, Drawing, Midway
<1>2. /\ state' \in {"MEM_READ", "DRAW"} /\ opcode' = opcode /\ pc' = pc /\ index' = index
      /\ stack' = stack /\ V' = V
  BY DEF DrawPixel, DrawRowEnd, Goto, regs
<1>3. /\ Followed' /\ Drawing' /\ X' = X /\ Y' = Y /\ (InAlu /\ InLoad /\ InStore /\ Quiet)'
      /\ arch'.i = arch.i /\ arch'.v = arch.v /\ arch'.mem = arch.mem /\ arch'.fb = arch.fb
  BY <1>1, <1>2, DrawNextFrame
<1>4. /\ draw.x = arch.v[X] % Width /\ draw.y = arch.v[Y] % Height
      /\ draw.byte = arch.mem[Wrap(arch.i + draw.row)]
  BY <1>1, MidwayFrame, AtWorkIs DEF InDraw
<1>5. /\ fb' = Toggled(arch.fb, now(draw.row, draw.bit + 1))
      /\ Collide <=> now(draw.row, draw.bit + 1) \cap arch.fb # {}
  BY <1>1, DrawStep
<1>6. /\ draw'.x = draw.x /\ draw'.y = draw.y /\ draw'.coll = Collide
  BY <1>1, ZenonT(40) DEF DrawPixel, DrawRowEnd, TypeOK, DrawState
<1>7. CASE DrawPixel
  <2>1. /\ state' = "DRAW" /\ draw'.valid /\ draw'.byte = draw.byte /\ draw'.row = draw.row
        /\ draw'.bit = draw.bit + 1
    BY <1>1, <1>7 DEF DrawPixel, Goto, TypeOK, DrawState
  <2>2. InDraw'
    BY <1>3, <1>4, <1>5, <1>6, <2>1 DEF InDraw
  <2> QED BY <1>3, <2>2, MidwayInStep, AtWorkIs
<1>8. CASE DrawRowEnd
  <2>1. draw.row \in 0..14 /\ draw.bit = 7
    BY <1>1, <1>8, DrawFrame DEF DrawRowEnd
  <2>2. (draw.row + 1) % 16 = draw.row + 1 /\ draw.bit + 1 = 8 /\ draw.row \in 0..15
    BY <2>1, SMT
  <2>3. /\ state' = "MEM_READ" /\ ~draw'.valid /\ draw'.bit = 0 /\ draw'.row = draw.row + 1
    BY <1>1, <1>8, <2>2 DEF DrawRowEnd, Goto, TypeOK, DrawState
  <2>4. now(draw.row, draw.bit + 1) = now(draw.row + 1, 0)
    BY <2>2, DrawnRow
  <2>5. InDraw'
    BY <1>3, <1>4, <1>5, <1>6, <2>3, <2>4 DEF InDraw
  <2> QED BY <1>3, <2>5, MidwayInStep, AtWorkIs
<1> QED BY <1>7, <1>8

(* What the relation between the two machines rests on. *)
StepInv == /\ TypeOK /\ StackShape /\ SequencersInStep /\ HaltRecorded /\ StoredEntryUnused
           /\ InStep
Completing == state' = "FETCH" /\ state \notin {"FETCH", "DECODE"}

LEMMA ExecCompletes ==
  ASSUME StepInv, TypeOK', Agreed, Execute, Clock, enable', state' = "FETCH", arch' = Snapshot'
  PROVE  Completed \/ Oracle!Instruction \/ SameButTimers(arch', arch)
<1>1. state = "EXEC" /\ Active /\ AtRest
  BY DEF Execute, ExecCls, ExecCall, ExecRet, ExecJump, ExecSkip, ExecKeySkip, ExecReg, ExecAlu,
     ExecAluFlag, ExecIndex, ExecTimer, ExecDraw, ExecBurst, ExecWaitKey, ExecIllegal,
     Exec, Executing, StepInv, Agreed, AtRest
<1>2. /\ ~DrawsNoRow /\ ~Overflows /\ ~ReturnsAtTop /\ ~SkipsPastEnd /\ StackShape
  BY DEF Agreed, StepInv
<1>3. CASE ExecCls \/ ExecCall \/ ExecRet \/ ExecJump \/ ExecSkip \/ ExecKeySkip
  BY <1>1, <1>2, <1>3, ClsCompletes, CallCompletes, RetCompletes, JumpCompletes, SkipCompletes,
     KeySkipCompletes
<1>4. CASE ExecReg \/ ExecAlu \/ ExecIndex
  BY <1>1, <1>4, RegCompletes, AluCompletes, IndexCompletes
<1>5. CASE ExecTimer
  BY <1>1, <1>5, TimerCompletes
<1>6. CASE ExecDraw
  <2>1. Nib(opcode) = 0
    BY <1>6 DEF ExecDraw
  <2> QED BY <1>1, <1>2, <1>6, <2>1, NoRowCompletes
<1>7. CASE ExecIllegal
  <2>1. CASE IllegalPolicy = "NOP"
    BY <1>1, <1>7, <2>1, IllegalCompletes
  <2>2. CASE IllegalPolicy # "NOP"
    <3>1. /\ pc' = pc /\ index' = index /\ stack' = stack /\ V' = V /\ opcode \in Opcode
          /\ ~Legal(opcode)
      BY <1>1, <1>7, <2>2, RestFrame DEF ExecIllegal, regs
    <3>2. ~SysCls(opcode)
      BY <3>1, SysClass, ClassIs DEF Legal
    <3>3. ArchMem' = ArchMem /\ fb' = fb
      BY <1>1, <3>2, RestFrame, ScreenKept DEF AtRest, Clock
    <3>4. /\ arch.pc = pc /\ arch.i = index /\ arch.v = V /\ arch.mem = ArchMem
          /\ arch.stack = stack.mem /\ arch.sp = stack.sp /\ arch.fb = fb /\ arch.run = enable
          /\ enable
      BY <1>1, RestFrame DEF AtRest, InStep, Followed, Active, Loading, Drawing
    <3>5. enable' = enable
      BY <1>1, <3>4 DEF StepInv, TypeOK
    <3> QED BY <3>1, <3>3, <3>4, <3>5 DEF SameButTimers, Snapshot
  <2> QED BY <2>1, <2>2
<1>8. CASE ExecAluFlag \/ ExecBurst \/ ExecWaitKey
  BY <1>8 DEF ExecAluFlag, ExecBurst, ExecWaitKey, Goto, Exec
<1> QED BY <1>3, <1>4, <1>5, <1>6, <1>7, <1>8 DEF Execute

LEMMA ContinueCompletes ==
  ASSUME StepInv, Agreed, Continue, Clock, enable', state' = "FETCH"
  PROVE  Completed
<1>1. /\ TypeOK /\ InStep /\ SequencersInStep /\ ~LoadsRunning /\ ~WritesFont
  BY DEF StepInv, Agreed
<1>2. CASE WaitKey
  <2>1. AtRest
    BY <1>1, <1>2 DEF WaitKey, AtRest
  <2> QED BY <1>2, <2>1, KeyCompletes
<1>3. CASE ~WaitKey
  <2>1. AtWork
    BY <1>1, <1>3 DEF Continue, AluFlagWrite, Bcd, Store, LoadRead, LoadCommit, DrawRead,
       DrawLatch, DrawPixel, DrawRowEnd, DrawEnd, AtWork, Between
  <2>2. AluFlagWrite \/ Bcd \/ Store \/ LoadCommit \/ DrawEnd
    BY <1>3 DEF Continue, LoadRead, DrawRead, DrawLatch, DrawPixel, DrawRowEnd, Goto
  <2> QED BY <1>1, <2>1, <2>2, AluFlagCompletes, BcdCompletes, StoreCompletes, LoadCompletes,
             DrawCompletes
<1> QED BY <1>2, <1>3

LEMMA CompletingStep ==
  ASSUME StepInv, TypeOK', Agreed, Tick, enable, enable', Completing, arch' = Snapshot'
  PROVE  InStep' /\ (Oracle!Instruction \/ Oracle!Elapse \/ arch' = arch)
<1>1. Clock /\ Timers
  BY TickClocks DEF Clock
<1>2. Execute \/ Continue
  BY DEF Completing, Tick, FetchHit, FetchMiss, Decode, Halted, Held
<1>3. /\ arch \in ArchState /\ arch.delay = timers.delay /\ arch.sound = timers.sound
      /\ TypeOK /\ ~LoadsRunning /\ Quiet
  BY DEF StepInv, InStep, Followed, Agreed
<1>4. InStep'
  BY <1>3, ReadAheadFresh, InStepAtFetch DEF Completing
<1>5. Completed \/ Oracle!Instruction \/ SameButTimers(arch', arch)
  BY <1>1, <1>2, ExecCompletes, ContinueCompletes DEF Completing
<1>6. CASE ExecTimer
  <2>1. AtRest
    BY <1>1, <1>3, <1>6 DEF ExecTimer, Exec, Executing, AtRest, StepInv
  <2> QED BY <1>4, <1>6, <2>1, TimerCompletes
<1>7. CASE ~ExecTimer
  <2>1. TimersFollow
    BY <1>1, <1>3, <1>7, TimersRun
  <2>2. /\ arch' \in ArchState /\ arch'.delay = timers'.delay /\ arch'.sound = timers'.sound
    <3>1. Snapshot' \in ArchState
      BY SnapshotTypeNext
    <3> QED BY <3>1 DEF Snapshot
  <2>3. Completed => Oracle!Instruction
    BY <1>3, <2>1, CompletedStep
  <2>4. SameButTimers(arch', arch) => Oracle!Elapse \/ arch' = arch
    BY <1>3, <2>1, <2>2, ElapseStep
  <2> QED BY <1>4, <1>5, <2>3, <2>4
<1> QED BY <1>6, <1>7

LEMMA RunningStep ==
  ASSUME StepInv, TypeOK', Agreed, Tick, enable, enable', ~Completing, Carried
  PROVE  InStep' /\ (Oracle!Elapse \/ arch' = arch)
<1>1. Clock /\ Timers
  BY TickClocks DEF Clock
<1>2. /\ arch \in ArchState /\ arch.delay = timers.delay /\ arch.sound = timers.sound
      /\ TypeOK /\ InStep /\ ~LoadsRunning /\ SequencersInStep /\ HaltRecorded /\ StoredEntryUnused
      /\ ~ShiftsFlag /\ ~WritesFont /\ ~FetchesStale
  BY DEF StepInv, InStep, Followed, Agreed
<1>3. Midway
  BY <1>1, <1>2, CarriedFields DEF Midway
<1>4. ~ExecTimer
  BY DEF ExecTimer, Retire, Advance, Exec, Executing, Completing
<1>5. Oracle!Elapse \/ arch' = arch
  BY <1>1, <1>2, <1>3, <1>4, TimersRun, ElapseStep DEF Midway
<1>6. CASE FetchHit \/ FetchMiss \/ Decode \/ Halted
  BY <1>2, <1>3, <1>5, <1>6, FetchInStep, HaltedInStep
<1>7. CASE Execute
  <2>1. ExecAluFlag \/ ExecBurst \/ ExecWaitKey \/ ExecDraw \/ ExecIllegal
    BY <1>7 DEF Execute, ExecCls, ExecCall, ExecRet, ExecJump, ExecSkip, ExecKeySkip, ExecReg,
       ExecAlu, ExecIndex, ExecTimer, Retire, Advance, Exec, Executing, Completing
  <2>2. ExecDraw => Nib(opcode) # 0
    BY DEF ExecDraw, Exec, Executing, Completing
  <2>3. ExecIllegal => IllegalPolicy = "TRAP"
    BY DEF ExecIllegal, Executing, Completing
  <2> QED BY <1>2, <1>3, <1>5, <2>1, <2>2, <2>3, AluFlagInStep, BurstInStep, WaitKeyInStep, DrawStarts,
             TrapInStep
<1>8. CASE WaitKey
  <2>1. state' # "FETCH"
    BY <1>8 DEF WaitKey, Completing
  <2> QED BY <1>3, <1>5, <1>8, <2>1, WaitKeyInStep
<1>9. CASE Continue /\ ~WaitKey
  <2>1. WorkUnderWay /\ state \notin {"FETCH", "DECODE"}
    BY <1>2, <1>3, <1>9 DEF Continue, AluFlagWrite, Bcd, Store, LoadRead, LoadCommit, DrawRead,
       DrawLatch, DrawPixel, DrawRowEnd, DrawEnd, WorkUnderWay, Between
  <2>2. state' # "FETCH"
    BY <2>1 DEF Completing
  <2>3. ~AluFlagWrite /\ ~DrawEnd
    BY <2>2 DEF AluFlagWrite, DrawEnd, Goto
  <2> QED BY <1>2, <1>5, <1>9, <2>1, <2>2, <2>3, BcdInStep, StoreInStep, LoadInStep, DrawReads,
             DrawGoesOn DEF Continue
<1>10. CASE Held
  BY <1>10 DEF Held
<1> QED BY <1>5, <1>6, <1>7, <1>8, <1>9, <1>10 DEF Tick

LEMMA LockstepStep ==
  ASSUME StepInv, TypeOK', Agreed, [LNext]_<<vars, arch>>
  PROVE  InStep' /\ [Oracle!Next]_arch
<1>1. CASE Reset /\ Monitor
  <2>1. arch' = Snapshot'
    BY <1>1 DEF Monitor, Committed
  <2> QED BY <1>1, <2>1, ResetStep DEF Oracle!Next
<1>2. CASE Tick /\ Monitor /\ (~enable \/ ~enable')
  <2>1. arch' = Snapshot'
    BY <1>2 DEF Monitor, Committed
  <2> QED BY <1>2, <2>1, StoppedStep DEF Oracle!Next, StepInv
<1>3. CASE Tick /\ Monitor /\ ~Reset /\ enable /\ enable'
  <2>1. CASE Completing
    <3>1. arch' = Snapshot'
      BY <1>3, <2>1 DEF Monitor, Committed, Completing
    <3> QED BY <1>3, <2>1, <3>1, CompletingStep DEF Oracle!Next
  <2>2. CASE ~Completing
    <3>1. Carried
      BY <1>3, <2>2 DEF Monitor, Committed, Completing, Carried
    <3> QED BY <1>3, <2>2, <3>1, RunningStep DEF Oracle!Next
  <2> QED BY <2>1, <2>2
<1>4. CASE UNCHANGED <<vars, arch>>
  <2>1. /\ arch' = arch /\ enable' = enable /\ state' = state /\ pc' = pc /\ opcode' = opcode
        /\ fetchValid' = fetchValid /\ index' = index /\ V' = V /\ stack' = stack /\ draw' = draw
        /\ burst' = burst /\ flag' = flag /\ ram' = ram /\ write' = write /\ rdata' = rdata
        /\ timers' = timers /\ fb' = fb
    BY <1>4 DEF vars, fsm, regs, seqs
  <2>2. /\ ArchMem' = ArchMem /\ Current' = Current /\ Fetched' = Fetched /\ X' = X /\ Y' = Y
        /\ (Fill' <=> Fill) /\ (Between' <=> Between) /\ (Storing' <=> Storing)
        /\ (Loading' <=> Loading) /\ (Drawing' <=> Drawing)
    BY <2>1 DEF ArchMem, Current, Fetched, X, Y, Fill, Between, Storing, Loading, Drawing
  <2>3. InStep
    BY DEF StepInv
  <2>4. (Followed => Followed') /\ (Quiet => Quiet')
    BY <2>1, <2>2 DEF Followed, Quiet
  <2>5. (InAlu => InAlu') /\ (InLoad => InLoad')
    BY <2>1, <2>2 DEF InAlu, InLoad
  <2>6. InStore => InStore'
    BY <2>1, <2>2 DEF InStore
  <2>7. InDraw => InDraw'
    BY <2>1, <2>2 DEF InDraw
  <2>8. InStep'
    BY <2>1, <2>3, <2>4, <2>5, <2>6, <2>7 DEF InStep
  <2> QED BY <2>1, <2>8
<1> QED BY <1>1, <1>2, <1>3, <1>4 DEF LNext, Next

(* The core implements the instruction set of the Rust model: every         *)
(* instruction it completes, whatever the cycles it took, is one call of    *)
(* Chip8::step, and nothing a program can see changes in between.  This     *)
(* holds for every program, memory size and display, as long as the program *)
(* avoids what the two are known to do differently.                         *)
THEOREM CoreImplementsModel == LSpec /\ []Agreed => Lockstep
<1>1. LInit => Init /\ Oracle!Init /\ InStep
  <2> SUFFICES ASSUME LInit PROVE Init /\ Oracle!Init /\ InStep
    OBVIOUS
  <2>1. Init /\ arch = Snapshot /\ TypeOK
    BY InitTypes DEF LInit
  <2>2. InStep
    BY <2>1, AgreeInFetch DEF Init, Fill
  <2>3. Oracle!Init
    BY <2>1, SnapshotFields DEF Init, EmptyStack, NoTime, Oracle!Init, Oracle!PowerOn, Oracle!Reg, Reg
  <2> QED BY <2>1, <2>2, <2>3
<1>2. [LNext]_<<vars, arch>> => [Next]_vars
  BY DEF LNext, vars
<1>3. LSpec => Spec
  BY <1>1, <1>2, PTL DEF LSpec, Spec
<1>4. Spec => [](TypeOK /\ StackShape /\ SequencersInStep /\ HaltRecorded /\ StoredEntryUnused)
  BY TypeCorrect, StackConsistent, SequencersStayInStep, HaltIsRecorded, StoredEntryNeverUsed, PTL
<1>5. (TypeOK /\ StackShape /\ SequencersInStep /\ HaltRecorded /\ StoredEntryUnused) /\ InStep
        /\ TypeOK' /\ Agreed /\ [LNext]_<<vars, arch>>
          => InStep' /\ [Oracle!Next]_arch
  <2> SUFFICES ASSUME StepInv, TypeOK', Agreed, [LNext]_<<vars, arch>>
               PROVE  InStep' /\ [Oracle!Next]_arch
    BY DEF StepInv
  <2> QED BY LockstepStep
<1> QED BY <1>1, <1>3, <1>4, <1>5, PTL DEF LSpec, Lockstep, Oracle!Spec
=============================================================================
