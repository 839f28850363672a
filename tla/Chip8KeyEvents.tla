--------------------------- MODULE Chip8KeyEvents ---------------------------
(***************************************************************************)
(* Keypad, DMA page and interrupt controller with a driver: it sleeps until *)
(* the interrupt line rises, clears the pending bits, reads the ring until  *)
(* it is empty, and then the bitmap.  When events were lost it switches the *)
(* keypad off and on.  Keys are pressed and released at any cycle.          *)
(***************************************************************************)
EXTENDS Chip8Keypad, Chip8Irq

CONSTANTS MaxPresses,         \* bound on the presses and releases
          Pressed,            \* keys that are pressed and released
          Others              \* register writes other software may make

ASSUME KeyEventsAssumption ==
  /\ MaxPresses \in Nat /\ Pressed \subseteq Keys
  /\ \A w \in Others : w.reg = "DMA_CLEAR" \/ (w.reg = "IRQ_CLEAR" /\ "KEY_EVENT" \notin w.bits)

VARIABLES held,               \* keys held down
          presses,            \* presses and releases so far
          driver,             \* next access of the driver
          replay,             \* bitmap by the events the driver has read
          view,               \* bitmap the driver has read
          exact               \* every change so far has made an event of its own

vars == <<keypadVars, irqVars, held, presses, driver, replay, view, exact>>

Woken == {"KEY_EVENT", "DMA_ERROR"}        \* the driver's interrupts
None  == [reg |-> "NONE"]

Init ==
  /\ KeypadInit /\ IrqInit
  /\ held = {} /\ presses = 0 /\ driver = "IRQ_ON"
  /\ replay = {} /\ view = {} /\ exact = TRUE

-----------------------------------------------------------------------------
Applied(bits, e) == IF e.pressed THEN bits \cup {e.key} ELSE bits \ {e.key}

(* The driver's register access in each place, and where it goes then.      *)
Driver(w, next) ==
  \/ driver = "IRQ_ON"  /\ w = [reg |-> "IRQ_ENABLE", bits |-> Woken] /\ next = "DMA_ON"
  \/ driver = "DMA_ON"  /\ w = [reg |-> "DMA_ENABLE", bits |-> Errors] /\ next = "LOOK"
  \/ driver = "SLEEP"   /\ IrqLine /\ w = None /\ next = "CLEAR"
  \/ driver = "CLEAR"   /\ w = [reg |-> "IRQ_CLEAR", bits |-> Woken] /\ next = "CHECK"
  \/ driver = "CHECK"   /\ w = None
     /\ next = IF ring.overflow THEN "OFF" ELSE IF ring.events # <<>> THEN "READ" ELSE "LOOK"
  \/ driver = "READ"    /\ w = [reg |-> "KEYPAD_FIFO"] /\ next = "CHECK"
  \/ driver = "OFF"     /\ w = [reg |-> "KEYPAD_CTRL", bits |-> {}] /\ next = "DMA_CLEAR"
  \/ driver = "DMA_CLEAR" /\ w = [reg |-> "DMA_CLEAR", bits |-> Errors] /\ next = "ON"
  \/ driver = "ON"      /\ w = [reg |-> "KEYPAD_CTRL", bits |-> ControlBits] /\ next = "LOOK"
  \/ driver = "LOOK"    /\ w = None /\ next = "SLEEP"

Hardware(w) ==
  /\ KeypadStep(w, held)
  /\ DmaStep(w, (IF ring.done THEN {"KEY_DONE"} ELSE {})
                \cup (IF ring.overflow THEN {"KEY_OVERFLOW"} ELSE {}))
  /\ IrqStep(w, (IF IrqEvent THEN {"KEY_EVENT"} ELSE {})
                \cup (IF ring.overflow THEN {"KEY_OVERFLOW"} ELSE {})
                \cup (IF ring.done THEN {"KEY_DONE"} ELSE {}))
  /\ exact' = (exact /\ Cardinality(Changed) <= 1 /\ ~(EventNow /\ Full) /\ Enabled)
Quiet == UNCHANGED <<driver, replay, view>>

Idle  == Hardware(None) /\ Quiet /\ UNCHANGED <<held, presses>>
Other == \E w \in Others : Hardware(w) /\ Quiet /\ UNCHANGED <<held, presses>>
Serve ==
  \E w \in [reg : {"IRQ_ENABLE", "IRQ_CLEAR"}, bits : {Woken}]
           \cup [reg : {"DMA_ENABLE", "DMA_CLEAR"}, bits : {Errors}]
           \cup [reg : {"KEYPAD_CTRL"}, bits : {{}, ControlBits}]
           \cup {[reg |-> "KEYPAD_FIFO"], None} :
    /\ Driver(w, driver') /\ Hardware(w) /\ UNCHANGED <<held, presses>>
    /\ replay' = IF driver = "READ" THEN Applied(replay, Head(ring.events)) ELSE replay
    /\ view' = IF driver = "LOOK" THEN filter.keys ELSE view

(* A key goes down or up between two clock edges. *)
Press ==
  /\ presses < MaxPresses /\ presses' = presses + 1
  /\ \E k \in Pressed : held' = IF k \in held THEN held \ {k} ELSE held \cup {k}
  /\ UNCHANGED <<keypadVars, irqVars, driver, replay, view, exact>>

Tick == Idle \/ Other \/ Serve
Next == Tick \/ Press
Spec == Init /\ [][Next]_vars

(* The clock runs, and the driver, once it has something to do, does it.    *)
FairSpec == Spec /\ WF_vars(Tick) /\ WF_vars(Serve)
-----------------------------------------------------------------------------
(* What a bitmap is after some events: the last event of each key tells.    *)
Amount(bits, events) ==
  LET About(k) == {n \in DOMAIN events : events[n].key = k}
  IN {k \in Keys : \/ About(k) = {} /\ k \in bits
                   \/ \E n \in About(k) : events[n].pressed /\ \A m \in About(k) : m <= n}

(* Software that only reads events has the right bitmap in the end: the     *)
(* events read and those in the ring, in order, amount to the changes the   *)
(* hardware has seen, as long as it has not had to merge or drop any.       *)
EventsAmount == exact => Amount(replay, ring.events) = tracked

(* A driver that has gone to sleep knows the keys, or will be woken: no     *)
(* change and no loss of events slips between its clearing of the           *)
(* interrupt, its last look and its sleep.                                  *)
NoLostWakeup ==
  driver = "SLEEP" =>
    \/ IrqLine
    \/ view = tracked /\ ring.events = <<>> /\ ~ring.overflow

(* Events do not stay in the ring, an overflow does not stay for ever.      *)
Served == /\ ring.events # <<>> ~> ring.events = <<>>
          /\ ring.overflow ~> ~ring.overflow

(* Once the keys are left alone, the core and the driver see them as they   *)
(* are, even the changes that made no event of their own.                   *)
Settles == <>[](filter.keys = held /\ native.stable.keys = held /\ view = held)
=============================================================================
