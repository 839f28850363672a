--------------------------- MODULE Chip8Lockstep ---------------------------
(***************************************************************************)
(* The core next to the Rust model.  arch is what a retire monitor reports: *)
(* the architectural state after each completed instruction (the timers run *)
(* on their own, so they are reported in every cycle).  The instruction set *)
(* of Chip8Oracle, with arch for its state, is what the core has to         *)
(* implement.                                                               *)
(***************************************************************************)
EXTENDS Chip8Core

(* A register burst does not wrap onto itself. *)
ASSUME LockstepAssumption == AddrSpace >= 16

VARIABLE arch

Snapshot ==
  [pc |-> pc, i |-> index, v |-> V, mem |-> ArchMem, stack |-> stack.mem, sp |-> stack.sp,
   delay |-> timers.delay, sound |-> timers.sound, fb |-> fb, run |-> enable]

(* The cycle completes an instruction, or the core is not running one. *)
Committed ==
  \/ state' = "FETCH" /\ state \notin {"FETCH", "DECODE"}
  \/ ~enable \/ ~enable' \/ Reset

LInit == Init /\ arch = Snapshot
Monitor ==
  arch' = IF Committed THEN Snapshot'
          ELSE [arch EXCEPT !.delay = timers'.delay, !.sound = timers'.sound]
LNext == Next /\ Monitor
LSpec == LInit /\ [][LNext]_<<vars, arch>>

Oracle == INSTANCE Chip8Oracle WITH m <- arch
Lockstep == Oracle!Spec

-----------------------------------------------------------------------------
(* Where core and Rust model part, each at the cycle in which it shows.     *)

(* 8xy6 or 8xyE with x = F shifts out a bit that VF does not keep.          *)
ShiftsFlag ==
  /\ Exec({"ALU"}) /\ Nib(opcode) \in {6, 14} /\ X = VF
  /\ AluFlagBit(Nib(opcode), V[X], V[Y]) # 0

(* A sprite of no rows leaves VF as it is.                                  *)
DrawsNoRow == Exec({"DRAW"}) /\ Nib(opcode) = 0 /\ V[VF] # 0

(* A call on a full stack; a return with the pointer at the first entry,    *)
(* the stack empty or full.                                                 *)
Overflows    == Exec({"CALL"}) /\ stack.depth = StackDepth
ReturnsAtTop == Exec({"SYS"}) /\ SysRet(opcode) /\ stack.sp = 0

(* A skip whose target lies beyond the end of memory.                       *)
SkipsPastEnd ==
  /\ Exec({"SKIP_EQ_IMM", "SKIP_NE_IMM", "SKIP_EQ_REG", "SKIP_NE_REG", "KEY_SKIP"})
  /\ Next4 # Next2 + 2

(* A store changes a byte that the font ROM answers for.                    *)
WritesFont ==
  CpuWrite.we /\ CpuWrite.addr \in DOMAIN FontRom /\ CpuWrite.data # FontRom[CpuWrite.addr]

(* The demand fetch reads RAM before the store ahead of it has arrived.     *)
FetchesStale ==
  Active /\ state = "FETCH" /\ 256 * Mem[ReadAddr[1]] + Mem[ReadAddr[2]] # OpcodeAt(pc)

(* A byte is loaded into memory under the running program.                  *)
LoadsRunning == enable /\ loadWrite.we

(* None of these now.                                                       *)
Agreed ==
  /\ ~ShiftsFlag /\ ~DrawsNoRow /\ ~Overflows /\ ~ReturnsAtTop
  /\ ~SkipsPastEnd /\ ~WritesFont /\ ~FetchesStale /\ ~LoadsRunning
=============================================================================
