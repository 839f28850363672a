----------------------------- MODULE Chip8Model -----------------------------
(***************************************************************************)
(* The instruction set as struct Chip8 of the Rust model executes it: s is   *)
(* the architectural state, every operator one of its methods.  Operators    *)
(* only; Chip8Oracle is the machine they make, Chip8Validation the test      *)
(* suite that runs on them.                                                  *)
(***************************************************************************)
EXTENDS Chip8Ops, FiniteSets

CONSTANTS RomBase, StackDepth

FetchOpcode(s) == 256 * s.mem[Wrap(s.pc)] + s.mem[Wrap(s.pc + 1)]

DecrementTimers(s) ==
  [s EXCEPT !.delay = IF @ = 0 THEN 0 ELSE @ - 1, !.sound = IF @ = 0 THEN 0 ELSE @ - 1]

SkipIf(s, c)     == IF c THEN [s EXCEPT !.pc = @ + 2] ELSE s
SetReg(s, x, b)  == [s EXCEPT !.v[x] = b]
SetFlag(s, b)    == [s EXCEPT !.v[VF] = b]

(* 00E0, 00EE, 2nnn. *)
Cls(s)  == [s EXCEPT !.fb = {}]
Ret(s)  == LET sp == IF s.sp = 0 THEN 0 ELSE s.sp - 1
           IN [s EXCEPT !.sp = sp, !.pc = s.stack[sp]]
Call(s, nnn) ==
  [s EXCEPT !.stack[s.sp % StackDepth] = s.pc, !.sp = (@ + 1) % StackDepth, !.pc = nnn]

(* 3xkk, 4xkk, 5xy0, 9xy0: past the next opcode if the registers say so. *)
ExecSkip(s, oc) ==
  LET a == s.v[XReg(oc)]
      b == s.v[YReg(oc)]
  IN SkipIf(s, \/ Class(oc) = 3 /\ a = Imm(oc)
               \/ Class(oc) = 4 /\ a # Imm(oc)
               \/ Class(oc) = 5 /\ Nib(oc) = 0 /\ a = b
               \/ Class(oc) = 9 /\ Nib(oc) = 0 /\ a # b)

(* 8xyN: the shifts write the flag before the result, the others after it.  *)
ExecAlu(s, n, x, y) ==
  LET a == s.v[x]
      b == s.v[y]
  IN CASE n = 0  -> SetReg(s, x, b)
       [] n = 1  -> SetReg(s, x, BitOr(a, b))
       [] n = 2  -> SetReg(s, x, BitAnd(a, b))
       [] n = 3  -> SetReg(s, x, BitXor(a, b))
       [] n = 4  -> SetFlag(SetReg(s, x, (a + b) % 256), (a + b) \div 256)
       [] n = 5  -> SetFlag(SetReg(s, x, (a - b) % 256), Pick(a >= b, 1))
       [] n = 7  -> SetFlag(SetReg(s, x, (b - a) % 256), Pick(b >= a, 1))
       [] n = 6  -> LET f == SetFlag(s, a % 2) IN SetReg(f, x, f.v[x] \div 2)
       [] n = 14 -> LET f == SetFlag(s, a \div 128) IN SetReg(f, x, (2 * f.v[x]) % 256)
       [] OTHER  -> s

ExecKeypad(s, kk, x, keys) ==
  SkipIf(s, \/ kk = 158 /\ s.v[x] % 16 \in keys
            \/ kk = 161 /\ s.v[x] % 16 \notin keys)

ExecMisc(s, kk, x, keys) ==
  LET vx   == s.v[x]
      at(k) == Wrap(s.i + k)
  IN CASE kk =   7 -> SetReg(s, x, s.delay)
       [] kk =  10 -> IF keys = {} THEN [s EXCEPT !.pc = (@ - 2) % 65536]
                      ELSE SetReg(s, x, FirstPressed(keys))
       [] kk =  21 -> [s EXCEPT !.delay = vx]
       [] kk =  24 -> [s EXCEPT !.sound = vx]
       [] kk =  30 -> [s EXCEPT !.i = Wrap(@ + vx)]
       [] kk =  41 -> [s EXCEPT !.i = Wrap((vx % 16) * 5)]
       [] kk =  51 -> [s EXCEPT !.mem = [@ EXCEPT ![at(0)] = vx \div 100,
                                                  ![at(1)] = (vx \div 10) % 10,
                                                  ![at(2)] = vx % 10]]
       [] kk =  85 -> LET offset(a) == (a - s.i) % AddrSpace
                      IN [s EXCEPT !.mem = [a \in Addr |->
                            IF offset(a) <= x THEN s.v[offset(a)] ELSE @[a]]]
       [] kk = 101 -> [s EXCEPT !.v = [r \in Reg |->
                            IF r <= x THEN s.mem[at(r)] ELSE @[r]]]
       [] OTHER    -> s

(* The flag of a sprite.  The mutant sets it for every sprite that draws.   *)
CollisionMutant(sprite, fb) == Pick(sprite # {}, 1)
Collision(sprite, fb)       == Pick(sprite \cap fb # {}, 1)

Draw(s, x, y, n) ==
  LET set    == {p \in (0..(n - 1)) \X (0..7) : SpriteBit(s.mem[Wrap(s.i + p[1])], p[2])}
      sprite == {SpritePixel(s.v[x], s.v[y], p[2], p[1]) : p \in set}
  IN SetFlag([s EXCEPT !.fb = (@ \ sprite) \cup (sprite \ @)],
             Collision(sprite, s.fb))

(* Chip8::exec, after pc has moved past the opcode. *)
ExecOp(s, oc, rnd, keys) ==
  LET x  == XReg(oc)
      y  == YReg(oc)
      n  == Nib(oc)
      kk == Imm(oc)
      c  == Class(oc)
  IN CASE oc = 224 -> Cls(s)
       [] oc = 238 -> Ret(s)
       [] c = 1  -> [s EXCEPT !.pc = Wrap(NNN(oc))]
       [] c = 2  -> Call(s, Wrap(NNN(oc)))
       [] c \in {3, 4, 5, 9} -> ExecSkip(s, oc)
       [] c = 6  -> SetReg(s, x, kk)
       [] c = 7  -> SetReg(s, x, (s.v[x] + kk) % 256)
       [] c = 8  -> ExecAlu(s, n, x, y)
       [] c = 10 -> [s EXCEPT !.i = Wrap(NNN(oc))]
       [] c = 11 -> [s EXCEPT !.pc = Wrap(NNN(oc) + s.v[0])]
       [] c = 12 -> SetReg(s, x, BitAnd(rnd, kk))
       [] c = 13 -> Draw(s, x, y, n)
       [] c = 14 -> ExecKeypad(s, kk, x, keys)
       [] c = 15 -> ExecMisc(s, kk, x, keys)
       [] OTHER  -> s

Step(s, rnd, keys) == ExecOp([s EXCEPT !.pc = Wrap(@ + 2)], FetchOpcode(s), rnd, keys)
=============================================================================
