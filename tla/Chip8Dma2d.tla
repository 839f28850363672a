----------------------------- MODULE Chip8Dma2d -----------------------------
(***************************************************************************)
(* The 2D engine: software writes its registers and starts an operation,    *)
(* which writes the overlay frame pixel by pixel, one in each cycle, while  *)
(* the core goes on drawing into the live frame and software may go on      *)
(* writing.  A frame is the set of its lit pixels, numbered row by row.     *)
(***************************************************************************)
EXTENDS Chip8VideoModel

CONSTANTS Writes,             \* register writes software may make
          MaxEvents           \* bound on writes and on pixels the core draws

ASSUME Dma2dAssumption ==
  /\ FbWidth \in Nat \ {0} /\ FbHeight \in Nat \ {0} /\ MaxEvents \in Nat
  /\ Writes \subseteq
       [reg : {"CTRL"}, op : Dma2dOps \cup {"PASS"}, start : BOOLEAN, clear : BOOLEAN]
       \cup [reg : {"COLOR"}, val : BOOLEAN]
       \cup [reg : {"ORIGIN"}, x : 0..(FbWidth - 1), y : 0..(FbHeight - 1)]
       \cup [reg : {"SIZE"}, width : 0..(2 * FbWidth - 1), height : 0..(2 * FbHeight - 1)]

VARIABLES state, index,       \* state machine, pixel being written
          cfg,                \* registers, among them whether the overlay shows
          ram, live,          \* overlay frame, frame of the core
          job,                \* the operation under way, as it was started
          events

vars == <<state, index, cfg, ram, live, job, events>>

None   == [reg |-> "NONE"]
Pixels == 0..(FbSize - 1)
Init ==
  /\ state = "IDLE" /\ index = 0 /\ cfg = Dma2dDefault
  /\ ram = {} /\ live = {} /\ events = 0
  /\ job = [cfg |-> Dma2dDefault, from |-> {}, clean |-> FALSE]

-----------------------------------------------------------------------------
(* The registers take a write in any state. *)
Written(w) ==
  CASE w.reg = "CTRL"   -> [cfg EXCEPT !.op = w.op, !.overlay = @ /\ ~w.clear]
    [] w.reg = "COLOR"  -> [cfg EXCEPT !.color = w.val]
    [] w.reg = "ORIGIN" -> [cfg EXCEPT !.x = w.x, !.y = w.y]
    [] w.reg = "SIZE"   -> [cfg EXCEPT !.width = w.width, !.height = w.height]
    [] OTHER            -> cfg

StartWrite(w) == w.reg = "CTRL" /\ w.start
Refused(w)    == w.op = "FILL" /\ (cfg.width = 0 \/ cfg.height = 0)

Shown  == IF cfg.overlay THEN ram ELSE live

(* The far edges of the rectangle are cut to the width of their registers.  *)
InsideMutant(p) ==               \* the far edges belong to the rectangle
  /\ p[1] >= cfg.x /\ p[1] <= (cfg.x + cfg.width) % (2 * FbWidth)
  /\ p[2] >= cfg.y /\ p[2] <= (cfg.y + cfg.height) % (2 * FbHeight)
Inside(p) ==
  /\ p[1] >= cfg.x /\ p[1] < (cfg.x + cfg.width) % (2 * FbWidth)
  /\ p[2] >= cfg.y /\ p[2] < (cfg.y + cfg.height) % (2 * FbHeight)

NextPixel ==
  CASE cfg.op = "SNAPSHOT" -> index \in live
    [] cfg.op = "CLEAR"    -> cfg.color
    [] cfg.op = "FILL"     -> IF Inside(Place(index)) THEN cfg.color ELSE index \in Shown
    [] cfg.op = "INVERT"   -> index \notin Shown
    [] OTHER               -> index \in Shown

LastMutant == index = FbSize     \* the counter wraps before it gets there
Last       == index = FbSize - 1

(* One state of the machine in a cycle with the register write w.           *)
Idle(w) ==
  /\ state = "IDLE" /\ index' = 0 /\ cfg' = Written(w) /\ UNCHANGED ram
  /\ state' = IF ~StartWrite(w) THEN "IDLE" ELSE IF Refused(w) THEN "ERROR" ELSE "RUN"
Run(w) ==
  /\ state = "RUN" /\ cfg' = [Written(w) EXCEPT !.overlay = TRUE]
  /\ ram' = IF NextPixel THEN ram \cup {index} ELSE ram \ {index}
  /\ index' = (index + 1) % FbSize
  /\ state' = IF Last THEN "DONE" ELSE "RUN"
End(w) ==
  /\ state \in {"DONE", "ERROR"} /\ state' = "IDLE"
  /\ cfg' = Written(w) /\ UNCHANGED <<index, ram>>
Step(w) == Idle(w) \/ Run(w) \/ End(w)

(* History: the registers and the frame an operation starts from, and       *)
(* whether a write or the core has disturbed it.                            *)
Source(c, overlay, shown, core) == IF c.op = "SNAPSHOT" \/ ~overlay THEN core ELSE shown
Note(w) ==
  job' = CASE state' = "RUN" /\ state = "IDLE" ->
                [cfg |-> cfg', from |-> Source(cfg', cfg'.overlay, ram', live'), clean |-> TRUE]
           [] state = "RUN" ->
                [job EXCEPT !.clean = @ /\ w = None /\ (cfg.op = "SNAPSHOT" => live' = live)]
           [] OTHER -> job

Count  == events < MaxEvents /\ events' = events + 1
Quiet  == Step(None) /\ UNCHANGED <<live, events>> /\ Note(None)
Access == \E w \in Writes : Step(w) /\ UNCHANGED live /\ Count /\ Note(w)
Draw   == /\ Step(None) /\ Count
          /\ \E p \in Pixels : live' = IF p \in live THEN live \ {p} ELSE live \cup {p}
          /\ Note(None)
Next == Quiet \/ Access \/ Draw
Spec == Init /\ [][Next]_vars
FairSpec == Spec /\ WF_vars(Next)       \* the clock runs
-----------------------------------------------------------------------------
(* What the Rust model of the engine makes of the source frame; reserved    *)
(* operations copy it.                                                      *)
Expected ==
  LET c == [job.cfg EXCEPT !.overlay = FALSE]
  IN IF c.op = "PASS" THEN job.from
     ELSE {k \in Pixels : Place(k) \in Dma2dApply({Place(j) : j \in job.from}, c)}
Fits == /\ job.cfg.x + job.cfg.width < 2 * FbWidth
        /\ job.cfg.y + job.cfg.height < 2 * FbHeight

(* An operation that ends undisturbed leaves what the Rust model says, once *)
(* the overlay shows or when it does not read the frame it replaces.        *)
ResultMatches ==
  state = "DONE" /\ job.clean /\ Fits
  /\ (job.cfg.overlay \/ job.cfg.op \in {"SNAPSHOT", "CLEAR"}) => ram = Expected

(* The same of every operation, whatever shows at its start.                *)
FirstResultMatches == state = "DONE" /\ job.clean /\ Fits => ram = Expected

(* An operation ends, whatever software writes meanwhile.                   *)
RunEnds == state = "RUN" ~> state = "DONE"
=============================================================================
