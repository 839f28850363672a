----------------------------- MODULE Chip8Core -----------------------------
(***************************************************************************)
(* The CHIP-8 core, one step of the specification per rising clock edge.    *)
(* Each action is what one FSM state (for EXEC: one group of operations)    *)
(* does in a cycle, and ends with Clock, what the registers around the FSM  *)
(* (memory, ROM loader, prefetch entry, timers, display, fault record) do   *)
(* in every cycle.  The wire cpu_enable_i is the variable enable; keys and  *)
(* loader bytes are chosen at the edge that samples them.                   *)
(***************************************************************************)
EXTENDS Chip8Ops

CONSTANTS RomBase,            \* reset value of pc, 0x200 in the hardware
          FontRom,            \* bytes of the font ROM, which hides RAM below it
          StackDepth,         \* 16 in the hardware
          TicksPerPulse,      \* clock cycles in one 60 Hz period
          IllegalPolicy,      \* "NOP", "TRAP" or "HALT"
          Images,             \* RAM contents the core may be powered up with
          KeySets,            \* pressed-key sets the keypad may present
          Loads,              \* bytes the ROM load port may present
          LoadsWhileRunning   \* may the port be used while the core runs?

NoWrite  == [we |-> FALSE, addr |-> 0, data |-> 0]
Write    == [we : BOOLEAN, addr : Addr, data : Byte]
NoDraw   == [x |-> 0, y |-> 0, n |-> 0, bit |-> 0, row |-> 0,
             byte |-> 0, valid |-> FALSE, coll |-> FALSE]
NoBurst  == [idx |-> 0, x |-> 0]
NoEntry  == [valid |-> FALSE, pc |-> 0, opcode |-> 0]
Seed     == 165

ASSUME CoreAssumption ==
  /\ RomBase \in Addr
  /\ \E last \in Addr : FontRom \in [0..last -> Byte]
  /\ StackDepth \in Nat /\ StackDepth > 0
  /\ TicksPerPulse \in Nat /\ TicksPerPulse > 0
  /\ IllegalPolicy \in {"NOP", "TRAP", "HALT"}
  /\ Images \subseteq [Addr -> Byte] /\ Images # {}
  /\ KeySets \subseteq SUBSET Reg /\ KeySets # {}
  /\ Loads \subseteq {w \in Write : w.we}
  /\ LoadsWhileRunning \in BOOLEAN

VARIABLES
  enable,                                   \* input wire of this cycle
  state, pc, opcode, halted, fetchValid,    \* control FSM
  index, V, stack, rng,                     \* registers, call stack, LFSR
  draw, burst, flag,                        \* multi-cycle sequencers
  ram, write, rdata,                        \* RAM, write skid, read registers
  loadSkid, loadWrite,                      \* ROM loader pipeline
  pfq,                                      \* the prefetch entry
  timers, fb, fault                         \* timers, lit pixels, fault record

fsm  == <<state, pc, opcode, halted, fetchValid>>
regs == <<index, V, stack>>
seqs == <<draw, burst, flag>>
vars == <<enable, fsm, regs, rng, seqs, ram, write, rdata, loadSkid, loadWrite,
          pfq, timers, fb, fault>>

-----------------------------------------------------------------------------
(* Combinational signals of the current cycle. *)
Active      == enable /\ ~halted
Executing   == Active /\ state = "EXEC"
Exec(ops)   == Executing /\ Legal(opcode) /\ Op(opcode) \in ops
X           == XReg(opcode)
Y           == YReg(opcode)
Next2       == Wrap(pc + 2)
Next4       == Wrap(pc + 4)
Fetched     == 256 * rdata[1] + rdata[2]

(* What a read of address a returns: the font ROM hides the RAM under it. *)
Mem == [a \in Addr |-> IF a \in DOMAIN FontRom THEN FontRom[a] ELSE ram[a]]

Eligible == Executing /\ Legal(opcode) /\ Sequential(opcode)
FetchAddr(k) == IF Eligible THEN Wrap(pc + 2 + k) ELSE Wrap(pc + k)
ReadAddr == << IF state = "LOAD" THEN Wrap(index + burst.idx) ELSE FetchAddr(0),
               IF state = "MEM_READ" /\ Op(opcode) = "DRAW"
                 THEN Wrap(index + draw.row) ELSE FetchAddr(1) >>

CpuWrite ==
  LET Put(k, d) == [we |-> TRUE, addr |-> Wrap(index + k), data |-> d]
  IN CASE Active /\ state = "STORE" -> Put(burst.idx, V[burst.idx])
       [] Active /\ state = "BCD0"  -> Put(0, BcdDigit(0, V[X]))
       [] Active /\ state = "BCD1"  -> Put(1, BcdDigit(1, V[X]))
       [] Active /\ state = "BCD2"  -> Put(2, BcdDigit(2, V[X]))
       [] OTHER -> NoWrite
ArbWrite == IF loadWrite.we THEN loadWrite ELSE CpuWrite

Fill       == state = "FETCH" /\ fetchValid
Hit        == Fill \/ (pfq.valid /\ pfq.pc = pc)
HitOpcode  == IF Fill THEN Fetched ELSE pfq.opcode
FlushMutant == ~enable \/ ArbWrite.we         \* EXEC does not flush
Flush      == ~enable \/ ArbWrite.we \/ (state = "EXEC" /\ ~Eligible)

Spot     == SpritePixel(draw.x, draw.y, draw.bit, draw.row)
PixelOn  == Active /\ state = "DRAW" /\ draw.valid /\ SpriteBit(draw.byte, draw.bit)
Collide  == draw.coll \/ (PixelOn /\ Spot \in fb)
LastRowMutant == draw.n = 0 \/ draw.row = draw.n
LastRow  == draw.n = 0 \/ draw.row = draw.n - 1

-----------------------------------------------------------------------------
(* The registers that are clocked in every cycle. *)
Memory ==
  /\ ram'   = IF write.we THEN [ram EXCEPT ![write.addr] = write.data] ELSE ram
  /\ rdata' = <<Mem[ReadAddr[1]], Mem[ReadAddr[2]]>>
  /\ write' = ArbWrite

Loader ==
  /\ loadSkid' \in Loads \cup {NoWrite}
  /\ enable /\ ~LoadsWhileRunning => loadSkid' = NoWrite
  /\ loadWrite' = IF loadSkid.we
                    THEN [loadSkid EXCEPT !.addr = Wrap(RomBase + loadSkid.addr)]
                    ELSE NoWrite

Prefetch ==
  pfq' = CASE Flush -> [pfq EXCEPT !.valid = FALSE]
           [] ~Flush /\ Fill -> [valid |-> TRUE, pc |-> pc, opcode |-> Fetched]
           [] OTHER -> pfq

DownMutant(t) == IF timers.tick THEN t - 1 ELSE t
Down(t) == IF timers.tick /\ t # 0 THEN t - 1 ELSE t
Timers ==
  LET last == timers.count = TicksPerPulse - 1
  IN timers' = [delay |-> IF Exec({"TIMER_DELAY_WRITE"}) THEN V[X] ELSE Down(timers.delay),
                sound |-> IF Exec({"TIMER_SOUND_WRITE"}) THEN V[X] ELSE Down(timers.sound),
                count |-> IF last THEN 0 ELSE timers.count + 1,
                tick  |-> last]

Display ==
  fb' = CASE Executing /\ SysCls(opcode) -> {}
          [] PixelOn -> (fb \ {Spot}) \cup ({Spot} \ fb)
          [] OTHER -> fb

Random == rng' = IF Exec({"RANDOM"}) THEN LfsrNext(rng) ELSE rng

FaultsMutant == fault' = (fault \/ (state = "TRAP" /\ halted))
Faults ==
  fault' = \/ fault
           \/ state = "EXEC" /\ ~halted /\ IllegalPolicy # "NOP" /\ ~Legal(opcode)
           \/ state = "TRAP" /\ halted /\ ~Legal(opcode)

(* The environment: enable may fall at any time.  Unless the load port may  *)
(* be used while the core runs, it rises only when the last byte is in RAM. *)
Enable ==
  /\ enable' \in BOOLEAN
  /\ ~LoadsWhileRunning /\ ~enable /\ enable' =>
       ~write.we /\ ~loadSkid.we /\ ~loadWrite.we /\ ~loadSkid'.we

Clock == Memory /\ Loader /\ Prefetch /\ Timers /\ Display /\ Random /\ Faults /\ Enable

-----------------------------------------------------------------------------
(* FETCH, DECODE. *)
Goto(s) == state' = s /\ fetchValid' = FALSE /\ UNCHANGED <<pc, halted>>
Advance(next) ==
  /\ state' = "FETCH" /\ pc' = next
  /\ fetchValid' = Eligible
  /\ UNCHANGED <<opcode, halted, draw, burst>>
  /\ Clock
Retire(next) == Advance(next) /\ UNCHANGED flag
SetV(r, b) == V' = [V EXCEPT ![r] = b]

FetchHit ==
  /\ Active /\ state = "FETCH" /\ Hit
  /\ opcode' = HitOpcode /\ Goto("EXEC")
  /\ UNCHANGED <<regs, seqs>> /\ Clock

FetchMiss ==
  /\ Active /\ state = "FETCH" /\ ~Hit
  /\ Goto("DECODE")
  /\ UNCHANGED <<opcode, regs, seqs>> /\ Clock

Decode ==
  /\ Active /\ state = "DECODE"
  /\ opcode' = Fetched /\ Goto("EXEC")
  /\ UNCHANGED <<regs, seqs>> /\ Clock

(* EXEC. *)
ExecCls == Exec({"SYS"}) /\ SysCls(opcode) /\ Retire(Next2) /\ UNCHANGED regs

(* A push on a full stack is dropped, the jump is still taken. *)
Pushed == IF stack.depth = StackDepth THEN stack
          ELSE [mem   |-> [stack.mem EXCEPT ![stack.sp] = Next2],
                sp    |-> (stack.sp + 1) % StackDepth,
                depth |-> stack.depth + 1]
ExecCall ==
  /\ Exec({"CALL"})
  /\ stack' = Pushed
  /\ Retire(Wrap(NNN(opcode))) /\ UNCHANGED <<index, V>>

(* A pop of an empty stack leaves it empty and jumps to the slot below sp. *)
Below == (stack.sp - 1) % StackDepth
PoppedMutant == [stack EXCEPT !.sp = Below, !.depth = IF @ = 0 THEN 0 ELSE @ - 1]
Popped == IF stack.depth = 0 THEN stack ELSE [stack EXCEPT !.sp = Below, !.depth = @ - 1]
ExecRet ==
  /\ Exec({"SYS"}) /\ SysRet(opcode)
  /\ stack' = Popped
  /\ Retire(stack.mem[Below]) /\ UNCHANGED <<index, V>>

ExecJump ==
  /\ Exec({"JUMP", "JUMP_V0"})
  /\ Retire(Wrap(NNN(opcode) + IF Op(opcode) = "JUMP_V0" THEN V[0] ELSE 0))
  /\ UNCHANGED regs

ExecSkip ==
  /\ Exec({"SKIP_EQ_IMM", "SKIP_NE_IMM", "SKIP_EQ_REG", "SKIP_NE_REG"})
  /\ Retire(IF SkipTaken(opcode, V[X], V[Y]) THEN Next4 ELSE Next2)
  /\ UNCHANGED regs

ExecKeySkip ==
  /\ Exec({"KEY_SKIP"})
  /\ \E keys \in KeySets :
       Retire(IF KeySkipTaken(opcode, V[X], keys) THEN Next4 ELSE Next2)
  /\ UNCHANGED regs

ExecReg ==
  /\ Exec({"LOAD_IMM", "ADD_IMM", "RANDOM", "TIMER_READ"})
  /\ SetV(X, CASE Op(opcode) = "LOAD_IMM"   -> Imm(opcode)
               [] Op(opcode) = "ADD_IMM"    -> (V[X] + Imm(opcode)) % 256
               [] Op(opcode) = "RANDOM"     -> BitAnd(LfsrNext(rng), Imm(opcode))
               [] Op(opcode) = "TIMER_READ" -> timers.delay)
  /\ Retire(Next2) /\ UNCHANGED <<index, stack>>

ExecAlu ==
  /\ Exec({"ALU"}) /\ AluSimple(opcode)
  /\ SetV(X, AluResult(Nib(opcode), V[X], V[Y]))
  /\ flag' = AluFlagBit(Nib(opcode), V[X], V[Y])
  /\ Advance(Next2) /\ UNCHANGED <<index, stack>>

ExecAluFlag ==
  /\ Exec({"ALU"}) /\ AluFlag(opcode)
  /\ SetV(X, AluResult(Nib(opcode), V[X], V[Y]))
  /\ flag' = AluFlagBit(Nib(opcode), V[X], V[Y])
  /\ pc' = Next2 /\ state' = "ALU_FLAG" /\ fetchValid' = FALSE
  /\ UNCHANGED <<opcode, halted, index, stack, draw, burst>> /\ Clock

ExecIndex ==
  /\ Exec({"LOAD_I", "ADD_I", "FONT_ADDR"})
  /\ index' = CASE Op(opcode) = "LOAD_I"    -> Wrap(NNN(opcode))
                [] Op(opcode) = "ADD_I"     -> Wrap(index + V[X])
                [] Op(opcode) = "FONT_ADDR" -> FontAddr(V[X])
  /\ Retire(Next2) /\ UNCHANGED <<V, stack>>

ExecTimer ==
  /\ Exec({"TIMER_DELAY_WRITE", "TIMER_SOUND_WRITE"})
  /\ Retire(Next2) /\ UNCHANGED regs

(* The start of the operations that take further cycles. *)
ExecDraw ==
  /\ Exec({"DRAW"})
  /\ draw' = [NoDraw EXCEPT !.x = V[X] % Width, !.y = V[Y] % Height, !.n = Nib(opcode)]
  /\ pc' = Next2 /\ fetchValid' = FALSE
  /\ state' = IF Nib(opcode) = 0 THEN "FETCH" ELSE "MEM_READ"
  /\ UNCHANGED <<opcode, halted, regs, burst, flag>> /\ Clock

ExecBurst ==
  /\ Exec({"BCD", "STORE_REGS", "LOAD_REGS"})
  /\ burst' = IF Op(opcode) = "BCD" THEN burst ELSE [idx |-> 0, x |-> X]
  /\ pc' = Next2 /\ fetchValid' = FALSE
  /\ state' = CASE Op(opcode) = "BCD"        -> "BCD0"
                [] Op(opcode) = "STORE_REGS" -> "STORE"
                [] Op(opcode) = "LOAD_REGS"  -> "LOAD"
  /\ UNCHANGED <<opcode, halted, regs, draw, flag>> /\ Clock

ExecWaitKey ==
  /\ Exec({"WAIT_KEY"}) /\ Goto("WAIT_KEY")
  /\ UNCHANGED <<opcode, regs, seqs>> /\ Clock

ExecIllegal ==
  /\ Executing /\ ~Legal(opcode)
  /\ IF IllegalPolicy = "NOP" THEN pc' = Next2 /\ halted' = halted
                              ELSE pc' = pc /\ halted' = TRUE
  /\ state' = IF IllegalPolicy = "TRAP" THEN "TRAP" ELSE "FETCH"
  /\ fetchValid' = FALSE
  /\ UNCHANGED <<opcode, regs, seqs>> /\ Clock

(* The cycles that follow EXEC. *)
AluFlagWrite ==
  /\ Active /\ state = "ALU_FLAG"
  /\ SetV(VF, flag) /\ Goto("FETCH")
  /\ UNCHANGED <<opcode, index, stack, seqs>> /\ Clock

WaitKey ==
  /\ Active /\ state = "WAIT_KEY"
  /\ \E keys \in KeySets :
       IF keys = {} THEN Goto("WAIT_KEY") /\ UNCHANGED V
       ELSE /\ SetV(X, FirstPressed(keys))
            /\ pc' = Next2 /\ state' = "FETCH" /\ fetchValid' = FALSE
            /\ UNCHANGED halted
  /\ UNCHANGED <<opcode, index, stack, seqs>> /\ Clock

Bcd ==
  /\ Active /\ state \in {"BCD0", "BCD1", "BCD2"}
  /\ Goto(CASE state = "BCD0" -> "BCD1" [] state = "BCD1" -> "BCD2" [] OTHER -> "FETCH")
  /\ UNCHANGED <<opcode, regs, seqs>> /\ Clock

BurstNextMutant(again) ==                      \* the index does not advance
  Goto(IF burst.idx = burst.x THEN "FETCH" ELSE again) /\ UNCHANGED burst
BurstNext(again) ==
  /\ Goto(IF burst.idx = burst.x THEN "FETCH" ELSE again)
  /\ burst' = IF burst.idx = burst.x THEN burst ELSE [burst EXCEPT !.idx = (@ + 1) % 16]

Store ==
  /\ Active /\ state = "STORE" /\ BurstNext("STORE")
  /\ UNCHANGED <<opcode, regs, draw, flag>> /\ Clock

LoadRead ==
  /\ Active /\ state = "LOAD" /\ Goto("MEM_READ")
  /\ UNCHANGED <<opcode, regs, seqs>> /\ Clock

LoadCommit ==
  /\ Active /\ state = "MEM_READ" /\ Op(opcode) = "LOAD_REGS"
  /\ SetV(burst.idx, rdata[1]) /\ BurstNext("LOAD")
  /\ UNCHANGED <<opcode, index, stack, draw, flag>> /\ Clock

DrawRead ==
  /\ Active /\ state = "MEM_READ" /\ Op(opcode) = "DRAW" /\ Goto("DRAW")
  /\ UNCHANGED <<opcode, regs, seqs>> /\ Clock

DrawLatch ==
  /\ Active /\ state = "DRAW" /\ ~draw.valid /\ Goto("DRAW")
  /\ draw' = [draw EXCEPT !.byte = rdata[2], !.valid = TRUE]
  /\ UNCHANGED <<opcode, regs, burst, flag>> /\ Clock

DrawPixel ==
  /\ Active /\ state = "DRAW" /\ draw.valid /\ draw.bit < 7 /\ Goto("DRAW")
  /\ draw' = [draw EXCEPT !.bit = @ + 1, !.coll = Collide]
  /\ UNCHANGED <<opcode, regs, burst, flag>> /\ Clock

DrawRowEnd ==
  /\ Active /\ state = "DRAW" /\ draw.valid /\ draw.bit = 7 /\ ~LastRow
  /\ Goto("MEM_READ")
  /\ draw' = [draw EXCEPT !.bit = 0, !.row = (@ + 1) % 16, !.valid = FALSE, !.coll = Collide]
  /\ UNCHANGED <<opcode, regs, burst, flag>> /\ Clock

DrawEnd ==
  /\ Active /\ state = "DRAW" /\ draw.valid /\ draw.bit = 7 /\ LastRow
  /\ Goto("FETCH") /\ SetV(VF, Pick(Collide, 1))
  /\ draw' = [draw EXCEPT !.bit = 0, !.valid = FALSE, !.coll = Collide]
  /\ UNCHANGED <<opcode, index, stack, burst, flag>> /\ Clock

(* A halted core only clocks what is around it. *)
Halted ==
  /\ enable /\ halted
  /\ fetchValid' = FALSE
  /\ UNCHANGED <<state, pc, opcode, halted, regs, seqs>> /\ Clock

(* cpu_enable_i low restarts the FSM and keeps registers, stack and screen. *)
Held ==
  /\ ~enable
  /\ state' = "FETCH" /\ pc' = RomBase /\ opcode' = 0 /\ index' = 0
  /\ halted' = FALSE /\ fetchValid' = FALSE
  /\ draw' = NoDraw /\ burst' = NoBurst /\ flag' = 0
  /\ UNCHANGED <<V, stack>> /\ Clock

(* The reset line clears every register but the RAM cells and read registers.*)
EmptyStack == [mem |-> [s \in 0..(StackDepth - 1) |-> 0], sp |-> 0, depth |-> 0]
NoTime     == [delay |-> 0, sound |-> 0, count |-> 0, tick |-> FALSE]

Init ==
  /\ enable \in BOOLEAN
  /\ state = "FETCH" /\ pc = RomBase /\ opcode = 0 /\ halted = FALSE /\ fetchValid = FALSE
  /\ index = 0 /\ V = [r \in Reg |-> 0] /\ stack = EmptyStack /\ rng = Seed
  /\ draw = NoDraw /\ burst = NoBurst /\ flag = 0
  /\ ram \in Images /\ rdata = <<0, 0>> /\ write = NoWrite
  /\ loadSkid = NoWrite /\ loadWrite = NoWrite /\ pfq = NoEntry
  /\ timers = NoTime /\ fb = {} /\ fault = FALSE

Reset ==
  /\ enable' \in BOOLEAN
  /\ state' = "FETCH" /\ pc' = RomBase /\ opcode' = 0 /\ halted' = FALSE
  /\ fetchValid' = FALSE
  /\ index' = 0 /\ V' = [r \in Reg |-> 0] /\ stack' = EmptyStack /\ rng' = Seed
  /\ draw' = NoDraw /\ burst' = NoBurst /\ flag' = 0
  /\ write' = NoWrite /\ loadSkid' = NoWrite /\ loadWrite' = NoWrite /\ pfq' = NoEntry
  /\ timers' = NoTime /\ fb' = {} /\ fault' = FALSE
  /\ UNCHANGED <<ram, rdata>>

Execute ==
  \/ ExecCls \/ ExecCall \/ ExecRet \/ ExecJump \/ ExecSkip \/ ExecKeySkip
  \/ ExecReg \/ ExecAlu \/ ExecAluFlag \/ ExecIndex \/ ExecTimer \/ ExecDraw
  \/ ExecBurst \/ ExecWaitKey \/ ExecIllegal
Continue ==
  \/ AluFlagWrite \/ WaitKey \/ Bcd \/ Store \/ LoadRead \/ LoadCommit
  \/ DrawRead \/ DrawLatch \/ DrawPixel \/ DrawRowEnd \/ DrawEnd
Tick == FetchHit \/ FetchMiss \/ Decode \/ Execute \/ Continue \/ Halted \/ Held
Next == Tick \/ Reset

Spec == Init /\ [][Next]_vars

(* The clock keeps running: while reset is not asserted there are edges. *)
FairSpec == Spec /\ WF_vars(Tick)

-----------------------------------------------------------------------------
(***************************************************************************)
(* Properties.                                                              *)
(***************************************************************************)
States == {"FETCH", "DECODE", "EXEC", "MEM_READ", "DRAW", "WAIT_KEY", "TRAP", "BCD0",
           "BCD1", "BCD2", "STORE", "LOAD", "ALU_FLAG"}
DrawState == [x : 0..(Width - 1), y : 0..(Height - 1), n : 0..15, bit : 0..7, row : 0..15,
              byte : Byte, valid : BOOLEAN, coll : BOOLEAN]

(* Every register keeps a value of its width.                               *)
TypeOK ==
  /\ enable \in BOOLEAN /\ halted \in BOOLEAN /\ fetchValid \in BOOLEAN /\ fault \in BOOLEAN
  /\ state \in States /\ pc \in Addr /\ opcode \in Opcode
  /\ index \in Addr /\ V \in [Reg -> Byte] /\ rng \in Byte
  /\ stack \in [mem : [0..(StackDepth - 1) -> Addr], sp : 0..(StackDepth - 1),
                depth : 0..StackDepth]
  /\ draw \in DrawState /\ burst \in [idx : Reg, x : Reg] /\ flag \in 0..1
  /\ ram \in [Addr -> Byte] /\ rdata \in Byte \X Byte
  /\ write \in Write /\ loadSkid \in Write /\ loadWrite \in Write
  /\ pfq \in [valid : BOOLEAN, pc : Addr, opcode : Opcode]
  /\ timers \in [delay : Byte, sound : Byte, count : 0..(TicksPerPulse - 1), tick : BOOLEAN]
  /\ fb \subseteq Pixel

(* Memory as a program sees it: the write in flight is already done.        *)
ArchMem ==
  [a \in Addr |-> IF a \in DOMAIN FontRom THEN FontRom[a]
                  ELSE IF write.we /\ write.addr = a THEN write.data ELSE ram[a]]
OpcodeAt(a) == 256 * ArchMem[a] + ArchMem[Wrap(a + 1)]

(* An opcode that was read ahead, during the EXEC of the instruction before *)
(* it, is the opcode memory holds when it is used: nothing the core writes  *)
(* can come between the two reads and the use.                              *)
PrefetchCoherent == Fill => Fetched = OpcodeAt(pc)

(* The entry kept by the prefetch queue never supplies an opcode: whenever  *)
(* no fill arrives in FETCH, the flushes of EXEC have emptied it.           *)
StoredEntryUnused == state = "FETCH" /\ ~fetchValid => ~pfq.valid

(* The sequencers of the multi-cycle operations run for the operation that  *)
(* started them and stop at its last register and at its last sprite row.   *)
SequencersInStep ==
  /\ state = "STORE" => Op(opcode) = "STORE_REGS"
  /\ state = "LOAD"  => Op(opcode) = "LOAD_REGS"
  /\ state \in {"BCD0", "BCD1", "BCD2"} => Op(opcode) = "BCD"
  /\ state = "DRAW"  => Op(opcode) = "DRAW"
  /\ state = "MEM_READ" => Op(opcode) \in {"DRAW", "LOAD_REGS"}
  /\ state \in {"STORE", "LOAD", "MEM_READ"} /\ Op(opcode) # "DRAW" =>
       burst.x = X /\ burst.idx <= burst.x
  /\ state \in {"MEM_READ", "DRAW"} /\ Op(opcode) = "DRAW" =>
       draw.n = Nib(opcode) /\ draw.row < draw.n
  /\ draw.valid => state = "DRAW"

(* The stack pointer and the depth counter tell the same story, also after  *)
(* pushes on a full stack and pops of an empty one.                         *)
StackShape == stack.sp = stack.depth % StackDepth

(* The shift register never reaches the state it cannot leave.              *)
RngNeverZero == rng # 0

(* A core that halted on an illegal opcode has recorded the fault, sits on  *)
(* that opcode, and has nothing left in its pipeline to write.              *)
HaltRecorded == halted => fault /\ ~Legal(opcode) /\ state \in {"FETCH", "TRAP"}

(* Every instruction ends: the core gets back to FETCH, waits for a key or  *)
(* stops on an illegal opcode, whatever enable and the loader do.           *)
InstructionEnds == state = "EXEC" ~> state \in {"FETCH", "WAIT_KEY", "TRAP"}
=============================================================================
