-------------------------- MODULE Chip8Validation --------------------------
(***************************************************************************)
(* The validation suite of the Rust crate: each pass is the sequence of the *)
(* outcomes of its checks, in the order of the code.  The code draws two     *)
(* bytes per iteration from a generator; here they are parameters, so that  *)
(* a pass can be run for every pair.  Passes that read files are left out.  *)
(***************************************************************************)
EXTENDS Chip8Reference

(* A report counts checks and failures (its checksum is left out). *)
NoReport == [cases |-> 0, failures |-> 0]
Record(report, passed) ==
  [cases |-> report.cases + 1, failures |-> report.failures + (IF passed THEN 0 ELSE 1)]
Merge(r, s) == [cases |-> r.cases + s.cases, failures |-> r.failures + s.failures]
ReportOf(checks) == FoldLeft(Record, NoReport, checks)

(* Chip8::default, load_rom, run, and exec with a set of pressed keys. *)
Default ==
  [mem |-> [k \in Addr |-> IF k < Len(Font) THEN Font[k + 1] ELSE 0],
   v |-> [r \in Reg |-> 0], i |-> 0, pc |-> RomBase, sp |-> 0,
   stack |-> [k \in 0..(StackDepth - 1) |-> 0], delay |-> 0, sound |-> 0, fb |-> {}]
LoadRom(s, rom) ==
  LET end == RomBase + (IF Len(rom) < AddrSpace - RomBase THEN Len(rom) ELSE AddrSpace - RomBase)
  IN [s EXCEPT !.mem = [k \in Addr |-> IF k \in RomBase..(end - 1) THEN rom[k - RomBase + 1]
                                       ELSE @[k]]]
Exec(s, oc) == ExecOp(s, oc, 0, {})
ExecKeys(s, oc, keys) == ExecOp(s, oc, 0, keys)
StepOnce(s) == Step(DecrementTimers(s), 0, {})
Run(s, steps) ==
  LET r[k \in 0..steps] ==
        IF k = 0 THEN [chip |-> s, draws |-> 0]
        ELSE LET p == r[k - 1]
             IN [chip  |-> StepOnce(p.chip),
                 draws |-> p.draws + (IF Class(FetchOpcode(p.chip)) = 13 THEN 1 ELSE 0)]
  IN r[steps]
LitPixels(s) == Cardinality(s.fb)
At(s, pc) == [s EXCEPT !.pc = pc]
Bcd(s, base) == <<s.mem[base], s.mem[base + 1], s.mem[base + 2]>>

SmokePass ==
  LET done  == Run(LoadRom(Default, SmokeRom), 16)
      image == SdBootImage(SmokeRom)
      boot  == Run(LoadRom(Default, SubSeq(image, 1, Len(SmokeRom))), 16)
  IN << done.draws = 2, LitPixels(done.chip) = 22, done.chip.pc = \h214,
        Len(image) = BlockSize, \A k \in (Len(SmokeRom) + 1)..Len(image) : image[k] = 0,
        LitPixels(boot.chip) = 22 >>

AluOps == <<0, 1, 2, 3, 4, 5, 6, 7, 14>>
AluPass(a, b) ==
  [k \in 1..9 |->
     LET s == Exec(SetReg(SetReg(Default, 1, a), 2, b), \h8120 + AluOps[k])
     IN <<s.v[1], s.v[VF]>> = AluRef(AluOps[k], a, b)]

(* Two checks of the opcode: eligible as the decoder of the core has it. *)
OpcodePass(oc) ==
  << PrefetchEligible(oc) <=> Sequential(oc),
     PrefetchFlushRequired(oc, FALSE) <=> ~Sequential(oc) >>

EdgePass ==
  LET c1  == Exec(SetReg(Default, 1, \hAA), \h31AA)
      c2  == Exec(c1, \h41AA)
      c3  == Exec(c2, \h51F0)
      c4  == Exec(c3, \h91F0)
      c5  == Exec(At(c4, \h222), \h2300)
      c6  == Exec(c5, \h00EE)
      c7  == ExecKeys(SetReg(c6, 4, 10), \hE49E, {10})
      c8  == Exec(c7, \hE4A1)
      c9  == Exec(At(c8, \h240), \hF40A)
      c10 == ExecKeys(c9, \hF40A, {3})
      c11 == Exec(Exec(SetReg(c10, 5, 12), \hF515), \hF518)
      c12 == Exec(c11, \hF507)
      c13 == Exec([SetReg(c12, 0, 255) EXCEPT !.i = \h300], \hF033)
      regs == [r \in Reg |-> BitXor(r, \h5A)]
      c14 == Exec([c13 EXCEPT !.v = regs, !.i = \h320], \hFF55)
      c15 == Exec([c14 EXCEPT !.v = [r \in Reg |-> 0]], \hFF65)
      c16 == Exec(SetReg(c15, 1, 15), \hF129)
      c17 == Exec([SetReg(SetReg(c16, 2, 63), 3, 31) EXCEPT !.i = \h350, !.mem[\h350] = \h81], \hD231)
      c18 == Exec(c17, \hD231)
  IN << c1.pc = \h202, c2.pc = \h202, c3.pc = \h202, c4.pc = \h204,
        c5.pc = \h300, c5.sp = 1, c6.pc = \h222, c6.sp = 0,
        c7.pc = \h224, c8.pc = \h226, c9.pc = \h23E, c10.v[4] = 3,
        c11.delay = 12, c11.sound = 12, c12.v[5] = 12, Bcd(c13, \h300) = <<2, 5, 5>>,
        c15.v = regs, c16.i = 75,
        c17.fb = {<<63, 31>>, <<6, 31>>}, c17.v[VF] = 0, c18.fb = {}, c18.v[VF] = 1,
        \A rnd \in Byte : ExecOp(SetReg(c18, 6, 0), \hC6F0, rnd, {}).v[6] % 16 = 0 >>

(* One iteration of chip8_architecture_stress with the bytes a and b. *)
StressPass(a, b) ==
  LET s1 == Exec(SetReg(SetReg(Default, 0, a), 1, b), \h3000 + a)
      s2 == Exec(s1, \h4000 + a)
      s3 == Exec(s2, \h5010)
      s4 == Exec(s3, \h9010)
      s5 == Exec(At(s4, \h260), \h2300)
      s6 == Exec(s5, \h00EE)
      s7 == ExecKeys(SetReg(s6, 3, a % 16), \hE39E, {a % 16})
      s8 == Exec(s7, \hE3A1)
      s9 == Exec(At(s8, \h280), \hF30A)
      s10 == ExecKeys(s9, \hF30A, {b % 16})
      s11 == Exec(Exec(SetReg(s10, 4, a), \hF415), \hF418)
      s12 == Step(DecrementTimers(s11), 0, {b % 16})
      s13 == Exec([s12 EXCEPT !.i = \h300], \hF433)
      regs == [r \in Reg |-> (a + r) % 256]
      s14 == Exec([s13 EXCEPT !.v = regs, !.i = \h340], \hFF55)
      s15 == Exec([s14 EXCEPT !.v = [r \in Reg |-> 0]], \hFF65)
      s16 == Exec([SetReg(SetReg(s15, 0, a % 64), 1, b % 32) EXCEPT !.i = \h380, !.mem[\h380] = \h81],
                  \hD011)
      s17 == Exec(s16, \hD011)
      dec == IF a = 0 THEN 0 ELSE a - 1
  IN AluPass(a, b) \o
     << s1.pc = \h202, s2.pc = \h202, s3.pc = (IF a = b THEN \h204 ELSE \h202), s4.pc = \h204,
        s5.pc = \h300 /\ s5.sp = 1 /\ s5.stack[0] = \h260, s6.pc = \h260 /\ s6.sp = 0,
        s7.pc = s6.pc + 2, s8.pc = s6.pc + 4, s9.pc = \h27E, s10.v[3] = b % 16,
        s11.delay = a /\ s11.sound = a, s12.delay = dec /\ s12.sound = dec,
        Bcd(s13, \h300) = <<a \div 100, (a \div 10) % 10, a % 10>>, s15.v = regs,
        LitPixels(s16) = 2, s16.v[VF] = 0, LitPixels(s17) = 0 /\ s17.v[VF] = 1 >>

(* The program of the fuzz pass: the second opcode sets register vy | 1.    *)
RotateLeft(byte) == ((2 * byte) % 256) + (byte \div 128)
FuzzPass(vx, vy, byte, addr) ==
  LET program == WordsToBytes(<<\h6000 + 256 * vx + byte,
                                \h6000 + 256 * BitOr(vy, 1) + RotateLeft(byte),
                                \hA000 + addr, \hF01E + 256 * vx, \hF029 + 256 * vy,
                                \hD015, \h120A>>)
      done == Run(LoadRom(Default, program), 7)
  IN << done.chip.pc < AddrSpace, done.chip.i < AddrSpace, done.chip.sp < StackDepth,
        LitPixels(done.chip) <= Width * Height, done.draws = 1 >>

MicroPass ==
  << \A oc \in {\h00E0, \h6001, \h7001, \h8123, \hA200, \hC1FF} :
        PrefetchEligible(oc) /\ ~PrefetchFlushRequired(oc, FALSE),
     \A oc \in {\h00EE, \h1200, \h2200, \h3101, \hD125, \hF10A} :
        ~PrefetchEligible(oc) /\ PrefetchFlushRequired(oc, FALSE),
     PrefetchFlushRequired(\h6001, TRUE),
     \A k \in 0..(Width * Height - 1) :
        LET place == FramebufferBank(k)
        IN place[1] < FramebufferBanks /\ place[2] < BankBits /\ BankBits * place[1] + place[2] = k,
     \A mask \in Byte :
        LET bits == [k \in 0..7 |-> HasBit(mask, <<1, 2, 4, 8, 16, 32, 64, 128>>[k + 1])]
        IN PrefixCount(bits) = FoldLeft(LAMBDA n, k : n + (IF bits[k] THEN 1 ELSE 0), 0,
                                        <<0, 1, 2, 3, 4, 5, 6, 7>>),
     ~ElasticWriteVisible(32, 32), ElasticWriteVisible(32, 33) >>
=============================================================================
