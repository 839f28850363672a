---------------------------- MODULE Chip8Keypad ----------------------------
(***************************************************************************)
(* The remote keypad: one row of the matrix is sampled at each scan tick,   *)
(* the bitmap is debounced, every change of the debounced bitmap makes an   *)
(* event, and events wait in a ring for software.  The bitmap also goes to  *)
(* the core, through a second synchroniser and debounce stage.              *)
(***************************************************************************)
EXTENDS Integers, Sequences, FiniteSetsExt, SequencesExt

CONSTANTS Rows, Cols,         \* four of each in the hardware
          KeyAt,              \* key of a row and column: chip8_code_for
          Divisor,            \* clock cycles between two scan ticks
          RingDepth           \* events the ring holds, a power of two

Keys == {KeyAt[p] : p \in (0..(Rows - 1)) \X (0..(Cols - 1))}

ASSUME KeypadAssumption ==
  /\ Rows \in Nat /\ Rows > 0 /\ Cols \in Nat /\ Cols > 0
  /\ KeyAt \in [(0..(Rows - 1)) \X (0..(Cols - 1)) -> Nat]
  /\ \A p, q \in DOMAIN KeyAt : KeyAt[p] = KeyAt[q] => p = q
  /\ Divisor \in Nat /\ Divisor > 0
  /\ RingDepth \in Nat /\ RingDepth > 0

VARIABLES ctrl,               \* bits set in the control register
          matrix,             \* scan counter, row driven, raw bitmap
          filter,             \* debounce: sample before, debounced bitmap
          tracked,            \* bitmap that the events so far amount to
          ring,               \* events for software, sticky overflow, done pulse
          native              \* bitmaps on the way to the core

keypadVars == <<ctrl, matrix, filter, tracked, ring, native>>

ControlBits == {"ENABLE", "SCAN", "IRQ"}
MatrixCleared == [div |-> 0, row |-> 0, raw |-> {}]
FilterCleared == [prev |-> {}, keys |-> {}]
RingCleared   == [events |-> <<>>, overflow |-> FALSE, done |-> FALSE]
NativeCleared == [meta |-> {}, sync |-> {}, stable |-> FilterCleared]

KeypadInit ==
  /\ ctrl = ControlBits /\ matrix = MatrixCleared /\ filter = FilterCleared
  /\ tracked = {} /\ ring = RingCleared /\ native = NativeCleared

-----------------------------------------------------------------------------
Enabled  == "ENABLE" \in ctrl
Scanning == Enabled /\ "SCAN" \in ctrl
RowKeys(row) == {KeyAt[<<row, col>>] : col \in 0..(Cols - 1)}

(* The columns show the keys held down in the row that is driven.           *)
ScanMutant(held) ==              \* a released key keeps its bit
  matrix' =
    IF ~Scanning THEN MatrixCleared
    ELSE IF matrix.div < Divisor - 1 THEN [matrix EXCEPT !.div = @ + 1]
    ELSE [div |-> 0, row |-> (matrix.row + 1) % Rows,
          raw |-> matrix.raw \cup (held \cap RowKeys(matrix.row))]
Scan(held) ==
  matrix' =
    IF ~Scanning THEN MatrixCleared
    ELSE IF matrix.div < Divisor - 1 THEN [matrix EXCEPT !.div = @ + 1]
    ELSE [div |-> 0, row |-> (matrix.row + 1) % Rows,
          raw |-> (matrix.raw \ RowKeys(matrix.row)) \cup (held \cap RowKeys(matrix.row))]

(* Two samples in a row make a key pressed, one makes it released.          *)
Debounced(stage, sample) == [prev |-> sample, keys |-> stage.prev \cap sample]
Debounce == filter' = Debounced(filter, matrix.raw)
ToCore   == native' = [meta |-> filter.keys, sync |-> native.meta,
                       stable |-> Debounced(native.stable, native.sync)]

(* One event stands for all the keys that changed since the last one.       *)
Changed   == (filter.keys \ tracked) \cup (tracked \ filter.keys)
EventNow  == Enabled /\ Changed # {}
KeyCode   == IF Changed = {} THEN 0 ELSE Max(Changed)
Event     == [key |-> KeyCode, pressed |-> KeyCode \in filter.keys]
IrqEventMutant ==                \* presses only
  "IRQ" \in ctrl /\ EventNow /\ KeyCode \in filter.keys
IrqEvent  == "IRQ" \in ctrl /\ EventNow
Track     == tracked' = IF EventNow THEN filter.keys ELSE tracked

Full      == Len(ring.events) = RingDepth
Pop(w)    == Enabled /\ w.reg = "KEYPAD_FIFO" /\ ring.events # <<>>
RingStepMutant(w) ==             \* one port: a pop keeps a push out
  ring' =
    IF ~Enabled THEN RingCleared
    ELSE [events   |-> IF Pop(w) THEN Tail(ring.events)
                       ELSE IF EventNow /\ ~Full THEN Append(ring.events, Event)
                       ELSE ring.events,
          overflow |-> ring.overflow \/ (EventNow /\ Full),
          done     |-> EventNow /\ ~Full]
RingStep(w) ==
  LET left == IF Pop(w) THEN Tail(ring.events) ELSE ring.events
  IN ring' =
       IF ~Enabled THEN RingCleared
       ELSE [events   |-> IF EventNow /\ ~Full THEN Append(left, Event) ELSE left,
             overflow |-> ring.overflow \/ (EventNow /\ Full),
             done     |-> EventNow /\ ~Full]

ControlMutant(w) ==              \* bits can be set and not cleared
  ctrl' = IF w.reg = "KEYPAD_CTRL" THEN ctrl \cup w.bits ELSE ctrl
Control(w) == ctrl' = IF w.reg = "KEYPAD_CTRL" THEN w.bits ELSE ctrl

KeypadStep(w, held) ==
  Control(w) /\ Scan(held) /\ Debounce /\ Track /\ RingStep(w) /\ ToCore
=============================================================================
