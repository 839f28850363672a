-------------------------- MODULE Chip8Dma2d_proofs --------------------------
(***************************************************************************)
(* An undisturbed operation of the 2D engine leaves the frame the Rust      *)
(* model computes, for frames, rectangles and register writes of any size.  *)
(* Pixels are decided one by one: below index the overlay frame is already  *)
(* the expected one, from index on it is still the frame started from.      *)
(***************************************************************************)
EXTENDS Chip8Dma2d, TLAPS

Config == [overlay : BOOLEAN, op : Dma2dOps \cup {"PASS"}, color : BOOLEAN,
           x : 0..(FbWidth - 1), y : 0..(FbHeight - 1),
           width : 0..(2 * FbWidth - 1), height : 0..(2 * FbHeight - 1)]
DmaTypeOK ==
  /\ state \in {"IDLE", "RUN", "DONE", "ERROR"} /\ index \in Pixels
  /\ cfg \in Config /\ ram \in SUBSET Pixels /\ live \in SUBSET Pixels
  /\ job \in [cfg : Config, from : SUBSET Pixels, clean : BOOLEAN]

(* What the operation under way has kept of its start.                      *)
StartKept ==
  state = "RUN" /\ job.clean =>
    /\ \E b \in BOOLEAN : cfg = [job.cfg EXCEPT !.overlay = b]
    /\ job.cfg.overlay => cfg.overlay
    /\ job.cfg.op = "SNAPSHOT" => job.from = live
    /\ job.cfg.overlay /\ job.cfg.op # "SNAPSHOT" =>
         \A k \in Pixels : k >= index => (k \in ram <=> k \in job.from)

Claimed == job.clean /\ Fits /\ (job.cfg.overlay \/ job.cfg.op \in {"SNAPSHOT", "CLEAR"})
WrittenSoFar ==
  state = "RUN" /\ Claimed =>
    \A k \in Pixels : k < index => (k \in ram <=> k \in Expected)

DmaInv == DmaTypeOK /\ StartKept /\ WrittenSoFar /\ ResultMatches

LEMMA ProductOrder ==
  ASSUME NEW w \in Nat, NEW d \in Nat, NEW h \in Nat, NEW k \in Nat,
         k >= w * d, k < w * h
  PROVE  d < h
  <1>1. SUFFICES ASSUME d >= h PROVE FALSE OBVIOUS
  <1>2. d - h \in Nat BY <1>1
  <1>3. w * d = w * h + w * (d - h) OBVIOUS
  <1>4. w * (d - h) \in Nat BY <1>2
  <1>5. w * h \in Nat /\ w * d \in Nat OBVIOUS
  <1>6. QED BY <1>3, <1>4, <1>5

LEMMA SmallMod == ASSUME NEW n \in Nat \ {0}, NEW a \in 0..(n - 1) PROVE a % n = a
  OBVIOUS

(* Pixel numbers and places of the frame correspond one to one.             *)
LEMMA Frame ==
  /\ FbSize \in Nat \ {0}
  /\ \A k \in Pixels : Place(k) \in FbPixel
  /\ \A j, k \in Pixels : Place(j) = Place(k) => j = k
  <1>0. FbWidth \in Nat \ {0} /\ FbHeight \in Nat \ {0} BY Dma2dAssumption
  <1>1. FbSize \in Nat \ {0} BY <1>0 DEF FbSize
  <1>2. ASSUME NEW k \in Pixels
        PROVE  /\ k \in Nat /\ k < FbWidth * FbHeight
               /\ k % FbWidth \in 0..(FbWidth - 1) /\ k \div FbWidth \in Nat
               /\ k = FbWidth * (k \div FbWidth) + (k % FbWidth)
    <2>1. k \in Nat /\ k < FbWidth * FbHeight BY <1>0, <1>1 DEF Pixels, FbSize
    <2>2. QED BY <1>0, <2>1
  <1>3. ASSUME NEW k \in Pixels PROVE Place(k) \in FbPixel
    <2>1. k \div FbWidth < FbHeight
      <3> DEFINE d == k \div FbWidth
      <3>1. d \in Nat /\ k >= FbWidth * d /\ k < FbWidth * FbHeight BY <1>0, <1>2
      <3> HIDE DEF d
      <3>2. d < FbHeight BY <1>0, <1>2, <3>1, ProductOrder
      <3>3. QED BY <3>2 DEF d
    <2>2. QED BY <1>0, <1>2, <2>1 DEF Place, FbPixel
  <1>4. ASSUME NEW j \in Pixels, NEW k \in Pixels, Place(j) = Place(k) PROVE j = k
    <2>1. j % FbWidth = k % FbWidth /\ j \div FbWidth = k \div FbWidth BY <1>4 DEF Place
    <2>2. QED BY <1>2, <2>1
  <1>5. QED BY <1>1, <1>3, <1>4

(* One pixel of the expected frame.                                         *)
LEMMA ExpectedPixel ==
  ASSUME DmaTypeOK, NEW k \in Pixels
  PROVE  k \in Expected <=>
           CASE job.cfg.op = "SNAPSHOT" -> k \in job.from
             [] job.cfg.op = "CLEAR"    -> job.cfg.color
             [] job.cfg.op = "FILL"     ->
                  IF InRect(job.cfg, Place(k)) THEN job.cfg.color ELSE k \in job.from
             [] job.cfg.op = "INVERT"   -> k \notin job.from
             [] OTHER                   -> k \in job.from
  <1> DEFINE c == [job.cfg EXCEPT !.overlay = FALSE]
             from == {Place(j) : j \in job.from}
             p == Place(k)
  <1>1. /\ job.cfg \in Config /\ job.from \subseteq Pixels
        /\ ~c.overlay /\ c.op = job.cfg.op /\ c.color = job.cfg.color
        /\ InRect(c, p) <=> InRect(job.cfg, p)
    BY DEF DmaTypeOK, Config, InRect
  <1>2. p \in FbPixel BY Frame
  <1>3. p \in from <=> k \in job.from BY <1>1, Frame
  <1>4. CASE job.cfg.op = "PASS"
    BY <1>1, <1>4 DEF Expected
  <1>5. CASE job.cfg.op # "PASS"
    <2>1. job.cfg.op \in {"SNAPSHOT", "CLEAR", "FILL", "INVERT"}
      BY <1>1, <1>5 DEF Config, Dma2dOps
    <2>2. k \in Expected <=> p \in Dma2dApply(from, c) BY <1>1, <1>5 DEF Expected
    <2>3. CASE job.cfg.op = "SNAPSHOT" BY <1>1, <1>3, <2>2, <2>3 DEF Dma2dApply
    <2>4. CASE job.cfg.op = "CLEAR" BY <1>1, <1>2, <2>2, <2>4 DEF Dma2dApply
    <2>5. CASE job.cfg.op = "FILL"
      <3>1. Dma2dApply(from, c) =
              (from \ {q \in FbPixel : InRect(c, q)})
              \cup ((IF c.color THEN FbPixel ELSE {}) \cap {q \in FbPixel : InRect(c, q)})
        BY <1>1, <2>5 DEF Dma2dApply
      <3>2. p \in Dma2dApply(from, c) <=>
              IF InRect(c, p) THEN c.color ELSE p \in from
        BY <1>2, <3>1
      <3>3. QED BY <1>1, <1>3, <2>2, <2>5, <3>2
    <2>6. CASE job.cfg.op = "INVERT" BY <1>1, <1>2, <1>3, <2>2, <2>6 DEF Dma2dApply
    <2>7. QED BY <2>1, <2>3, <2>4, <2>5, <2>6
  <1>6. QED BY <1>4, <1>5

(* The pixel written in a cycle is the expected one.                        *)
LEMMA NextIsExpected ==
  ASSUME DmaInv, state = "RUN", Claimed
  PROVE  NextPixel <=> index \in Expected
  <1>1. DmaTypeOK /\ index \in Pixels BY DEF DmaInv, DmaTypeOK
  <1>2. PICK b \in BOOLEAN : cfg = [job.cfg EXCEPT !.overlay = b]
    BY DEF DmaInv, StartKept, Claimed
  <1>3. /\ cfg.op = job.cfg.op /\ cfg.color = job.cfg.color
        /\ cfg.x = job.cfg.x /\ cfg.width = job.cfg.width
        /\ cfg.y = job.cfg.y /\ cfg.height = job.cfg.height
    BY <1>1, <1>2 DEF DmaTypeOK, Config
  <1>4. job.cfg.op = "SNAPSHOT" => (index \in live <=> index \in job.from)
    BY DEF DmaInv, StartKept, Claimed
  <1>5. ASSUME job.cfg.overlay, job.cfg.op # "SNAPSHOT"
        PROVE  index \in Shown <=> index \in job.from
    <2>1. cfg.overlay BY <1>5 DEF DmaInv, StartKept, Claimed
    <2>2. index >= index BY <1>1, Frame DEF Pixels
    <2>3. index \in ram <=> index \in job.from
      BY <1>1, <1>5, <2>2 DEF DmaInv, StartKept, Claimed
    <2>4. QED BY <2>1, <2>3 DEF Shown
  <1>6. Inside(Place(index)) <=> InRect(job.cfg, Place(index))
    <2>1. job.cfg \in Config BY <1>1 DEF DmaTypeOK
    <2>2. FbWidth \in Nat \ {0} /\ FbHeight \in Nat \ {0} BY Dma2dAssumption
    <2>3. /\ (job.cfg.x + job.cfg.width) % (2 * FbWidth) = job.cfg.x + job.cfg.width
          /\ (job.cfg.y + job.cfg.height) % (2 * FbHeight) = job.cfg.y + job.cfg.height
      <3>1. /\ job.cfg.x + job.cfg.width \in 0..(2 * FbWidth - 1)
            /\ job.cfg.y + job.cfg.height \in 0..(2 * FbHeight - 1)
        BY <2>1, <2>2 DEF Claimed, Fits, Config
      <3>2. 2 * FbWidth \in Nat \ {0} /\ 2 * FbHeight \in Nat \ {0} BY <2>2
      <3>3. (job.cfg.x + job.cfg.width) % (2 * FbWidth) = job.cfg.x + job.cfg.width
        BY <3>1, <3>2, SmallMod
      <3>4. (job.cfg.y + job.cfg.height) % (2 * FbHeight) = job.cfg.y + job.cfg.height
        BY <3>1, <3>2, SmallMod
      <3>5. QED BY <3>3, <3>4
    <2>4. QED BY <1>3, <2>3 DEF Inside, InRect
  <1>7. index \in Expected <=>
           CASE job.cfg.op = "SNAPSHOT" -> index \in job.from
             [] job.cfg.op = "CLEAR"    -> job.cfg.color
             [] job.cfg.op = "FILL"     ->
                  IF InRect(job.cfg, Place(index)) THEN job.cfg.color ELSE index \in job.from
             [] job.cfg.op = "INVERT"   -> index \notin job.from
             [] OTHER                   -> index \in job.from
    BY <1>1, ExpectedPixel
  <1>8. CASE job.cfg.op = "SNAPSHOT" BY <1>3, <1>4, <1>7, <1>8 DEF NextPixel
  <1>9. CASE job.cfg.op = "CLEAR" BY <1>3, <1>7, <1>9 DEF NextPixel
  <1>10. CASE job.cfg.op \notin {"SNAPSHOT", "CLEAR"}
    <2>1. job.cfg.overlay BY <1>10 DEF Claimed
    <2>2. index \in Shown <=> index \in job.from BY <1>5, <1>10, <2>1
    <2>3. QED BY <1>3, <1>6, <1>7, <1>10, <2>2 DEF NextPixel
  <1>11. QED BY <1>8, <1>9, <1>10
(* Registers after a write are registers.                                   *)
LEMMA WrittenConfig ==
  ASSUME cfg \in Config, NEW w \in Writes \cup {None}
  PROVE  Written(w) \in Config
  <1>1. CASE w = None BY <1>1 DEF None, Written
  <1>2. CASE w \in Writes
    <2>1. \/ w \in [reg : {"CTRL"}, op : Dma2dOps \cup {"PASS"}, start : BOOLEAN, clear : BOOLEAN]
          \/ w \in [reg : {"COLOR"}, val : BOOLEAN]
          \/ w \in [reg : {"ORIGIN"}, x : 0..(FbWidth - 1), y : 0..(FbHeight - 1)]
          \/ w \in [reg : {"SIZE"}, width : 0..(2 * FbWidth - 1), height : 0..(2 * FbHeight - 1)]
      BY <1>2, Dma2dAssumption
    <2>2. QED BY <2>1 DEF Written, Config
  <1>3. QED BY <1>1, <1>2

LEMMA DmaInitial == Init => DmaInv
  <1> SUFFICES ASSUME Init PROVE DmaInv OBVIOUS
  <1>1. Dma2dDefault \in Config
    <2>1. FbWidth \in Nat \ {0} /\ FbHeight \in Nat \ {0} BY Dma2dAssumption
    <2>2. QED BY <2>1 DEF Dma2dDefault, Config, Dma2dOps
  <1>2. 0 \in Pixels BY Frame DEF Pixels
  <1>3. QED BY <1>1, <1>2 DEF Init, DmaInv, DmaTypeOK, StartKept, WrittenSoFar, ResultMatches

(* Every cycle, with the write of software if any and with the frame of the *)
(* core as it is or one pixel changed.                                      *)
LEMMA CycleShape ==
  ASSUME DmaTypeOK, Next
  PROVE  \E w \in Writes \cup {None} :
           Step(w) /\ Note(w) /\ live' \in SUBSET Pixels
  <1>1. CASE Quiet BY <1>1 DEF Quiet, DmaTypeOK
  <1>2. CASE Access BY <1>2 DEF Access, DmaTypeOK
  <1>3. CASE Draw BY <1>3 DEF Draw, DmaTypeOK
  <1>4. QED BY <1>1, <1>2, <1>3 DEF Next

LEMMA TypeStep ==
  ASSUME DmaInv, NEW w \in Writes \cup {None}, Step(w), Note(w), live' \in SUBSET Pixels
  PROVE  DmaTypeOK'
  <1> USE DEF DmaInv, DmaTypeOK
  <1>1. Written(w) \in Config BY WrittenConfig
  <1>2. cfg' \in Config
    <2>1. [Written(w) EXCEPT !.overlay = TRUE] \in Config BY <1>1 DEF Config
    <2>2. QED BY <1>1, <2>1 DEF Step, Idle, Run, End
  <1>3. /\ state' \in {"IDLE", "RUN", "DONE", "ERROR"} /\ ram' \in SUBSET Pixels
    BY DEF Step, Idle, Run, End
  <1>4. index' \in Pixels
    <2>1. 0 \in Pixels /\ (index + 1) % FbSize \in Pixels
      <3>1. index + 1 \in Nat BY Frame DEF Pixels
      <3>2. QED BY Frame, <3>1 DEF Pixels
    <2>2. QED BY <2>1 DEF Step, Idle, Run, End
  <1>5. job' \in [cfg : Config, from : SUBSET Pixels, clean : BOOLEAN]
    <2>1. Source(cfg', cfg'.overlay, ram', live') \in SUBSET Pixels BY <1>3 DEF Source
    <2>2. CASE state' = "RUN" /\ state = "IDLE" BY <1>2, <2>1, <2>2 DEF Note
    <2>3. CASE state = "RUN"
      <3>1. job' = [job EXCEPT !.clean = @ /\ w = None /\ (cfg.op = "SNAPSHOT" => live' = live)]
        BY <2>3 DEF Note
      <3>2. QED BY <3>1
    <2>4. CASE state # "RUN" /\ ~(state' = "RUN" /\ state = "IDLE") BY <2>4 DEF Note
    <2>5. QED BY <2>2, <2>3, <2>4
  <1>6. QED BY <1>2, <1>3, <1>4, <1>5
(* What becomes of the pixel of a cycle and of the others.                  *)
LEMMA RunShape ==
  ASSUME DmaTypeOK, NEW w, Run(w)
  PROVE  /\ index \in ram' <=> NextPixel
         /\ \A k \in Pixels : k # index => (k \in ram' <=> k \in ram)
         /\ Last => state' = "DONE"
         /\ ~Last => state' = "RUN" /\ index' = index + 1 /\ index' \in Nat /\ index < index'
  <1>1. index \in Nat /\ index < FbSize /\ FbSize \in Nat BY Frame DEF DmaTypeOK, Pixels
  <1>2. ASSUME ~Last PROVE index' = index + 1
    <2>1. index + 1 \in 0..(FbSize - 1) BY <1>1, <1>2 DEF Last
    <2>2. (index + 1) % FbSize = index + 1 BY <2>1, Frame, SmallMod
    <2>3. QED BY <2>2 DEF Run
  <1>3. QED BY <1>1, <1>2 DEF Run

LEMMA ExpectedFixed ==
  ASSUME job'.cfg = job.cfg, job'.from = job.from PROVE Expected' = Expected
  BY DEF Expected

(* A cycle of a running operation.                                          *)
LEMMA RunStep ==
  ASSUME DmaInv, NEW w \in Writes \cup {None}, Run(w), Note(w)
  PROVE  StartKept' /\ WrittenSoFar' /\ ResultMatches'
  <1>1. /\ DmaTypeOK /\ state = "RUN" /\ state' \in {"RUN", "DONE"}
        /\ index \in Pixels /\ index \in Nat
    BY Frame DEF DmaInv, DmaTypeOK, Run, Pixels
  <1>2. job' = [job EXCEPT !.clean = @ /\ w = None /\ (cfg.op = "SNAPSHOT" => live' = live)]
    BY <1>1 DEF Note
  <1>3. /\ job'.cfg = job.cfg /\ job'.from = job.from
        /\ job'.clean => job.clean /\ w = None /\ (cfg.op = "SNAPSHOT" => live' = live)
    BY <1>1, <1>2 DEF DmaTypeOK
  <1>4. Expected' = Expected BY <1>3, ExpectedFixed
  <1>5. Claimed' => Claimed BY <1>3 DEF Claimed, Fits
  <1>6. /\ index \in ram' <=> NextPixel
        /\ \A k \in Pixels : k # index => (k \in ram' <=> k \in ram)
        /\ Last => state' = "DONE"
        /\ ~Last => state' = "RUN" /\ index' = index + 1 /\ index' \in Nat /\ index < index'
    BY <1>1, RunShape
  <1>7. StartKept'
    <2> SUFFICES ASSUME state' = "RUN", job'.clean PROVE StartKept' BY DEF StartKept
    <2>1. /\ job.clean /\ w = None BY <1>3
    <2>2. cfg' = [cfg EXCEPT !.overlay = TRUE] BY <2>1 DEF Run, Written, None
    <2>3. PICK b \in BOOLEAN : cfg = [job.cfg EXCEPT !.overlay = b]
      BY <1>1, <2>1 DEF DmaInv, StartKept
    <2>4. cfg' = [job.cfg EXCEPT !.overlay = TRUE] /\ cfg.op = job.cfg.op /\ cfg'.overlay
      BY <1>1, <2>2, <2>3 DEF DmaTypeOK, Config
    <2>5. job.cfg.op = "SNAPSHOT" => job.from = live'
      BY <1>1, <1>3, <2>1, <2>4 DEF DmaInv, StartKept
    <2>6. ~Last BY <1>6
    <2>7. ASSUME job.cfg.overlay, job.cfg.op # "SNAPSHOT",
                 NEW k \in Pixels, k >= index'
          PROVE  k \in ram' <=> k \in job.from
      <3>1. k # index /\ k >= index BY <1>1, <1>6, <2>6, <2>7 DEF Pixels
      <3>2. k \in ram <=> k \in job.from BY <1>1, <2>1, <2>7, <3>1 DEF DmaInv, StartKept
      <3>3. QED BY <1>6, <3>1, <3>2
    <2>8. \E bb \in BOOLEAN : cfg' = [job'.cfg EXCEPT !.overlay = bb] BY <1>3, <2>4
    <2>9. QED BY <1>3, <2>4, <2>5, <2>7, <2>8 DEF StartKept
  <1>8. ASSUME Claimed', NEW k \in Pixels, k <= index
        PROVE  k \in ram' <=> k \in Expected
    <2>1. Claimed BY <1>5, <1>8
    <2>2. CASE k = index
      <3>1. NextPixel <=> index \in Expected BY <1>1, <2>1, NextIsExpected
      <3>2. QED BY <1>6, <2>2, <3>1
    <2>3. CASE k < index
      <3>1. k \in ram <=> k \in Expected BY <1>1, <2>1, <2>3 DEF DmaInv, WrittenSoFar
      <3>2. k # index BY <1>1, <2>3 DEF Pixels
      <3>3. QED BY <1>6, <3>1, <3>2
    <2>4. QED BY <1>1, <1>8, <2>2, <2>3 DEF Pixels
  <1>9. WrittenSoFar'
    <2> SUFFICES ASSUME state' = "RUN", Claimed', NEW k \in Pixels, k < index'
                 PROVE  k \in ram' <=> k \in Expected'
      BY DEF WrittenSoFar, Pixels
    <2>1. k <= index BY <1>1, <1>6 DEF Pixels
    <2>2. QED BY <1>4, <1>8, <2>1
  <1>10. ResultMatches'
    <2> SUFFICES ASSUME state' = "DONE", job'.clean, Fits',
                        job'.cfg.overlay \/ job'.cfg.op \in {"SNAPSHOT", "CLEAR"}
                 PROVE  ram' = Expected'
      BY DEF ResultMatches
    <2>1. Claimed' BY DEF Claimed
    <2>2. Last BY <1>6
    <2>3. \A k \in Pixels : k \in ram' <=> k \in Expected
      <3>1. \A k \in Pixels : k <= index BY <1>1, <2>2, Frame DEF Last, Pixels
      <3>2. QED BY <1>8, <2>1, <3>1
    <2>4. ram' \subseteq Pixels BY <1>1 DEF Run, DmaTypeOK
    <2>5. Expected \subseteq Pixels BY <1>1 DEF Expected, DmaTypeOK
    <2>6. QED BY <1>4, <2>3, <2>4, <2>5
  <1>11. QED BY <1>7, <1>9, <1>10

(* A cycle of an engine at rest, which may start an operation.              *)
LEMMA RestStep ==
  ASSUME DmaInv, DmaTypeOK', NEW w \in Writes \cup {None}, Idle(w) \/ End(w), Note(w)
  PROVE  StartKept' /\ WrittenSoFar' /\ ResultMatches'
  <1>1. state # "RUN" /\ state' # "DONE" BY DEF Idle, End
  <1>2. CASE state' = "RUN"
    <2>1. state = "IDLE" /\ index' = 0 BY <1>2 DEF Idle, End
    <2>2. job' = [cfg |-> cfg', from |-> Source(cfg', cfg'.overlay, ram', live'), clean |-> TRUE]
      BY <1>2, <2>1 DEF Note
    <2>3. /\ job'.cfg = cfg' /\ cfg' \in Config
          /\ job'.from = Source(cfg', cfg'.overlay, ram', live')
      BY <2>2 DEF DmaTypeOK
    <2>4. \E b \in BOOLEAN : cfg' = [job'.cfg EXCEPT !.overlay = b]
      <3>1. cfg'.overlay \in BOOLEAN /\ cfg' = [job'.cfg EXCEPT !.overlay = cfg'.overlay]
        BY <2>3 DEF Config
      <3>2. QED BY <3>1
    <2>5. /\ job'.cfg.op = "SNAPSHOT" => job'.from = live'
          /\ job'.cfg.overlay /\ job'.cfg.op # "SNAPSHOT" => job'.from = ram'
      BY <2>3 DEF Source
    <2>6. StartKept' BY <2>3, <2>4, <2>5 DEF StartKept
    <2>7. WrittenSoFar' BY <2>1, Frame DEF WrittenSoFar, Pixels
    <2>8. QED BY <1>1, <2>6, <2>7 DEF ResultMatches
  <1>3. CASE state' # "RUN"
    BY <1>1, <1>3 DEF StartKept, WrittenSoFar, ResultMatches
  <1>4. QED BY <1>2, <1>3

LEMMA DmaStep == DmaInv /\ [Next]_vars => DmaInv'
  <1> SUFFICES ASSUME DmaInv, [Next]_vars PROVE DmaInv' OBVIOUS
  <1>1. CASE Next
    <2>1. PICK w \in Writes \cup {None} : Step(w) /\ Note(w) /\ live' \in SUBSET Pixels
      BY <1>1, CycleShape DEF DmaInv
    <2>2. DmaTypeOK' BY <2>1, TypeStep
    <2>3. StartKept' /\ WrittenSoFar' /\ ResultMatches'
      <3>1. CASE Run(w) BY <2>1, <3>1, RunStep
      <3>2. CASE Idle(w) \/ End(w) BY <2>1, <2>2, <3>2, RestStep
      <3>3. QED BY <2>1, <3>1, <3>2 DEF Step
    <2>4. QED BY <2>2, <2>3 DEF DmaInv
  <1>2. CASE UNCHANGED vars
    BY <1>2 DEF vars, DmaInv, DmaTypeOK, StartKept, WrittenSoFar, ResultMatches,
                Claimed, Fits, Expected
  <1>3. QED BY <1>1, <1>2

(* An undisturbed operation over the overlay, and any snapshot or clear,    *)
(* ends with the frame of the Rust model (dma2d_ff against dma2d_apply).    *)
THEOREM FrameIsExpected == Spec => []ResultMatches
  <1>1. DmaInv => ResultMatches BY DEF DmaInv
  <1>2. QED BY DmaInitial, DmaStep, <1>1, PTL DEF Spec
=============================================================================
