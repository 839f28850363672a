---------------------------- MODULE Chip8Oracle ----------------------------
(***************************************************************************)
(* The abstract specification of the core: one step of m is one call of     *)
(* Chip8::step.  Two things the Rust model fixes are left open: the byte its *)
(* generator returns, and how many timer periods pass between two           *)
(* instructions (Rust counts one period per instruction).  m.run is FALSE   *)
(* while something outside the program stops it: nothing is promised then,  *)
(* except that execution restarts at RomBase.                               *)
(***************************************************************************)
EXTENDS Chip8Model

CONSTANT KeySets

VARIABLE m   \* [pc, i, v, mem, stack, sp, delay, sound, fb, run]

PowerOn(s) ==
  /\ s.pc = RomBase /\ s.i = 0 /\ s.v = [r \in Reg |-> 0]
  /\ s.sp = 0 /\ s.stack = [k \in 0..(StackDepth - 1) |-> 0]
  /\ s.delay = 0 /\ s.sound = 0 /\ s.fb = {}

(* One instruction; a timer period may end just before or just after it.    *)
Instruction ==
  \E keys \in KeySets :
  \E rnd \in IF Class(FetchOpcode(m)) = 12 THEN Byte ELSE {0} :
    m' \in {Step(m, rnd, keys), Step(DecrementTimers(m), rnd, keys),
            DecrementTimers(Step(m, rnd, keys))}

Elapse  == m' = DecrementTimers(m)
Restart == (m.run /\ m'.run) = FALSE /\ (m'.run => m'.pc = RomBase /\ m'.i = 0)

Init == PowerOn(m)
Next == Elapse \/ Restart \/ PowerOn(m') \/ Instruction
Spec == Init /\ [][Next]_m
=============================================================================
