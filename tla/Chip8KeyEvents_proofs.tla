------------------------ MODULE Chip8KeyEvents_proofs ------------------------
(***************************************************************************)
(* The driver of Chip8KeyEvents never sleeps on a change, for every matrix, *)
(* ring depth and scan rate: what the interrupt latches and what the driver *)
(* has seen are related at each place of its loop.  And the events it reads *)
(* amount to the bitmap, however pushes and reads of the ring fall together.*)
(***************************************************************************)
EXTENDS Chip8KeyEvents, FiniteSetTheorems, SequenceTheorems, TLAPS

USE DEF Enabled, ControlBits

(* Nothing waits in the ring, and nothing was dropped. *)
NothingLeft == ring.events = <<>> /\ ~ring.overflow
Signalled   == "KEY_EVENT" \in irq.pending

Places == {"IRQ_ON", "DMA_ON", "SLEEP", "CLEAR", "CHECK", "READ", "OFF", "DMA_CLEAR", "ON",
           "LOOK"}

(* Where the driver is, and what it may rely on there. *)
IInv ==
  /\ driver \in Places
  /\ driver \in {"DMA_CLEAR", "ON"} => ctrl = {}
  /\ driver \notin {"DMA_CLEAR", "ON"} => ctrl = ControlBits
  /\ driver = "ON" => ring = RingCleared
  /\ driver # "IRQ_ON" => irq.enable = Woken
  /\ driver \in {"IRQ_ON", "DMA_ON", "LOOK"} => Signalled \/ NothingLeft
  /\ driver = "SLEEP" => Signalled \/ (NothingLeft /\ view = tracked)

(* The event of a cycle and those before it stay signalled unless the       *)
(* driver clears them in that cycle.                                        *)
LEMMA Latch ==
  ASSUME NEW w, Hardware(w)
  PROVE  /\ (w.reg = "IRQ_CLEAR" => "KEY_EVENT" \notin w.bits) =>
               (Signalled \/ IrqEvent => Signalled')
         /\ irq'.enable = IF w.reg = "IRQ_ENABLE" THEN w.bits ELSE irq.enable
         /\ ctrl' = IF w.reg = "KEYPAD_CTRL" THEN w.bits ELSE ctrl
<1>1. irq'.pending = Latched(w, ((IF IrqEvent THEN {"KEY_EVENT"} ELSE {})
                \cup (IF ring.overflow THEN {"KEY_OVERFLOW"} ELSE {})
                \cup (IF ring.done THEN {"KEY_DONE"} ELSE {}))
                \cup (IF DmaError THEN {"DMA_ERROR"} ELSE {}))
  BY DEF Hardware, IrqStep
<1>2. irq'.enable = IF w.reg = "IRQ_ENABLE" THEN w.bits ELSE irq.enable
  BY DEF Hardware, IrqStep
<1>3. ctrl' = IF w.reg = "KEYPAD_CTRL" THEN w.bits ELSE ctrl
  BY DEF Hardware, KeypadStep, Control
<1>4. ASSUME w.reg = "IRQ_CLEAR" => "KEY_EVENT" \notin w.bits, Signalled \/ IrqEvent
      PROVE  Signalled'
  BY <1>1, <1>4 DEF Latched, Signalled
<1>. QED  BY <1>2, <1>3, <1>4

(* A cycle without an event leaves an empty ring empty, and the bitmap is   *)
(* the one the events amount to.                                            *)
LEMMA QuietCycle ==
  ASSUME NEW w, Hardware(w), ctrl = ControlBits, ~IrqEvent, NothingLeft
  PROVE  NothingLeft' /\ tracked' = tracked /\ filter.keys = tracked
<1>1. ~EventNow
  BY DEF IrqEvent
<1>2. filter.keys = tracked
  BY <1>1 DEF EventNow, Changed
<1>3. tracked' = tracked
  BY <1>1 DEF Hardware, KeypadStep, Track
<1>4. ring' = [events   |-> IF EventNow /\ ~Full
                            THEN Append(IF Pop(w) THEN Tail(ring.events) ELSE ring.events, Event)
                            ELSE IF Pop(w) THEN Tail(ring.events) ELSE ring.events,
               overflow |-> ring.overflow \/ (EventNow /\ Full),
               done     |-> EventNow /\ ~Full]
  BY DEF Hardware, KeypadStep, RingStep
<1>5. ~Pop(w)
  BY DEF Pop, NothingLeft
<1>6. ring'.events = <<>> /\ ~ring'.overflow
  BY <1>1, <1>4, <1>5 DEF NothingLeft
<1>. QED  BY <1>2, <1>3, <1>6 DEF NothingLeft

(* So the promise survives every cycle that does not clear it.              *)
LEMMA PromiseKept ==
  ASSUME NEW w, Hardware(w), ctrl = ControlBits, Signalled \/ NothingLeft,
         w.reg = "IRQ_CLEAR" => "KEY_EVENT" \notin w.bits
  PROVE  Signalled' \/ (NothingLeft' /\ tracked' = tracked /\ filter.keys = tracked)
BY Latch, QuietCycle

LEMMA InvInit == Init => IInv
BY DEF Init, IInv, KeypadInit, RingCleared, NothingLeft, Places

(* Cycles in which the driver does nothing. *)
LEMMA InvQuiet ==
  ASSUME IInv, NEW w, Hardware(w), Quiet,
         w.reg \notin {"KEYPAD_CTRL", "IRQ_ENABLE"},
         w.reg = "IRQ_CLEAR" => "KEY_EVENT" \notin w.bits
  PROVE  IInv'
<1>1. ctrl' = ctrl /\ irq'.enable = irq.enable /\ driver' = driver /\ view' = view
  BY Latch DEF Quiet
<1>2. driver \in {"IRQ_ON", "DMA_ON", "LOOK"} => Signalled' \/ NothingLeft'
  BY PromiseKept DEF IInv
<1>3. driver = "SLEEP" => Signalled' \/ (NothingLeft' /\ view' = tracked')
  <2>. SUFFICES ASSUME driver = "SLEEP"  PROVE  Signalled' \/ (NothingLeft' /\ view' = tracked')
    OBVIOUS
  <2>1. CASE Signalled
    BY <2>1, Latch
  <2>2. CASE NothingLeft /\ view = tracked
    BY <1>1, <2>2, PromiseKept DEF IInv
  <2>. QED  BY <2>1, <2>2 DEF IInv
<1>4. driver = "ON" => ring' = RingCleared
  BY DEF IInv, Hardware, KeypadStep, RingStep
<1>. QED  BY <1>1, <1>2, <1>3, <1>4 DEF IInv

(* An access of the driver: one case for each place it leaves.              *)
LEMMA InvServe == ASSUME IInv, Serve  PROVE IInv'
<1>. PICK w : Driver(w, driver') /\ Hardware(w) /\ (view' = IF driver = "LOOK" THEN filter.keys ELSE view)
  BY DEF Serve
<1>1. CASE driver = "IRQ_ON" /\ w = [reg |-> "IRQ_ENABLE", bits |-> Woken] /\ driver' = "DMA_ON"
  BY <1>1, Latch, PromiseKept DEF IInv, Places
<1>2. CASE driver = "DMA_ON" /\ w = [reg |-> "DMA_ENABLE", bits |-> Errors] /\ driver' = "LOOK"
  BY <1>2, Latch, PromiseKept DEF IInv, Places
<1>3. CASE driver = "SLEEP" /\ w = None /\ driver' = "CLEAR"
  BY <1>3, Latch DEF IInv, None, Places
<1>4. CASE driver = "CLEAR" /\ w = [reg |-> "IRQ_CLEAR", bits |-> Woken] /\ driver' = "CHECK"
  BY <1>4, Latch DEF IInv, Places
<1>5. CASE driver = "CHECK" /\ w = None
           /\ driver' = IF ring.overflow THEN "OFF" ELSE IF ring.events # <<>> THEN "READ" ELSE "LOOK"
  <2>1. ctrl' = ctrl /\ irq'.enable = irq.enable /\ ctrl = ControlBits
    BY <1>5, Latch DEF None, IInv
  <2>2. driver' = "LOOK" => Signalled' \/ NothingLeft'
    BY <1>5, <2>1, PromiseKept DEF None, NothingLeft
  <2>. QED  BY <1>5, <2>1, <2>2 DEF IInv, Places
<1>6. CASE driver = "READ" /\ w = [reg |-> "KEYPAD_FIFO"] /\ driver' = "CHECK"
  BY <1>6, Latch DEF IInv, Places
<1>7. CASE driver = "OFF" /\ w = [reg |-> "KEYPAD_CTRL", bits |-> {}] /\ driver' = "DMA_CLEAR"
  BY <1>7, Latch DEF IInv, Places
<1>8. CASE driver = "DMA_CLEAR" /\ w = [reg |-> "DMA_CLEAR", bits |-> Errors] /\ driver' = "ON"
  <2>1. ring' = RingCleared
    BY <1>8 DEF IInv, Hardware, KeypadStep, RingStep
  <2>. QED  BY <1>8, <2>1, Latch DEF IInv, Places
<1>9. CASE driver = "ON" /\ w = [reg |-> "KEYPAD_CTRL", bits |-> ControlBits] /\ driver' = "LOOK"
  <2>1. ring' = RingCleared
    BY <1>9 DEF IInv, Hardware, KeypadStep, RingStep
  <2>2. NothingLeft'
    BY <2>1 DEF RingCleared, NothingLeft
  <2>. QED  BY <1>9, <2>2, Latch DEF IInv, Places
<1>10. CASE driver = "LOOK" /\ w = None /\ driver' = "SLEEP"
  <2>1. ctrl' = ctrl /\ irq'.enable = irq.enable /\ view' = filter.keys
    BY <1>10, Latch DEF None
  <2>2. Signalled' \/ (NothingLeft' /\ tracked' = tracked /\ filter.keys = tracked)
    BY <1>10, PromiseKept DEF IInv, None
  <2>. QED  BY <1>10, <2>1, <2>2 DEF IInv, Places
<1>. QED
  BY <1>1, <1>2, <1>3, <1>4, <1>5, <1>6, <1>7, <1>8, <1>9, <1>10 DEF Driver

LEMMA InvStep == IInv /\ [Next]_vars => IInv'
<1>. SUFFICES ASSUME IInv, [Next]_vars  PROVE IInv'
  OBVIOUS
<1>1. CASE Idle
  BY <1>1, InvQuiet DEF Idle, None
<1>2. CASE Other
  <2>. PICK w \in Others : Hardware(w) /\ Quiet
    BY <1>2 DEF Other
  <2>. QED  BY InvQuiet, KeyEventsAssumption
<1>3. CASE Serve
  BY <1>3, InvServe
<1>4. CASE Press
  BY <1>4 DEF Press, keypadVars, irqVars, IInv, Signalled, NothingLeft, RingCleared
<1>5. CASE UNCHANGED vars
  BY <1>5 DEF vars, keypadVars, irqVars, IInv, Signalled, NothingLeft, RingCleared
<1>. QED  BY <1>1, <1>2, <1>3, <1>4, <1>5 DEF Next, Tick

(* A driver that sleeps knows the keys or will be woken, whatever the pace  *)
(* of the driver, the keys, the ring and the scan.                          *)
THEOREM Awake == Spec => []NoLostWakeup
<1>1. IInv => NoLostWakeup
  <2>. SUFFICES ASSUME IInv, driver = "SLEEP"
                PROVE  IrqLine \/ (view = tracked /\ ring.events = <<>> /\ ~ring.overflow)
    BY DEF NoLostWakeup
  <2>1. CASE Signalled
    BY <2>1 DEF IInv, Signalled, IrqLine, Woken
  <2>2. CASE NothingLeft /\ view = tracked
    BY <2>2 DEF NothingLeft
  <2>. QED  BY <2>1, <2>2 DEF IInv
<1>. QED  BY InvInit, InvStep, <1>1, PTL DEF Spec
-----------------------------------------------------------------------------
(* Events, and the bitmaps they amount to. *)
KeyEvent == [key : Keys, pressed : BOOLEAN]

LEMMA AmountNone ==
  ASSUME NEW bits \in SUBSET Keys
  PROVE  Amount(bits, <<>>) = bits
BY DEF Amount

(* Reading the first event leaves the amount.                               *)
LEMMA AmountHead ==
  ASSUME NEW bits \in SUBSET Keys, NEW events \in Seq(KeyEvent), events # <<>>
  PROVE  /\ Applied(bits, Head(events)) \in SUBSET Keys
         /\ Tail(events) \in Seq(KeyEvent)
         /\ Amount(Applied(bits, Head(events)), Tail(events)) = Amount(bits, events)
<1>. DEFINE e == events[1]
            rest == Tail(events)
            new == Applied(bits, e)
<1>1. /\ Head(events) = e /\ e \in KeyEvent /\ Len(events) \in Nat /\ Len(events) > 0
      /\ rest \in Seq(KeyEvent) /\ Len(rest) = Len(events) - 1
      /\ \A n \in 1..Len(rest) : rest[n] = events[n + 1]
      /\ DOMAIN events = 1..Len(events) /\ DOMAIN rest = 1..Len(rest)
  BY HeadTailProperties, LenProperties
<1>2. ASSUME NEW k \in Keys
      PROVE  k \in Amount(new, rest) <=> k \in Amount(bits, events)
  <2>. DEFINE About(ev) == {n \in DOMAIN ev : ev[n].key = k}
              Latest(ev, n) == n \in About(ev) /\ \A m \in About(ev) : m <= n
  <2>1. \A n \in 1..Len(rest) : n \in About(rest) <=> n + 1 \in About(events)
    BY <1>1
  <2>2. \A n \in About(events) : n = 1 \/ n - 1 \in About(rest)
    BY <1>1
  <2>3. CASE About(rest) = {}
    <3>1. About(events) = IF e.key = k THEN {1} ELSE {}
      BY <1>1, <2>2, <2>3
    <3>. QED  BY <1>1, <2>3, <3>1 DEF Amount, Applied, KeyEvent
  <2>4. CASE About(rest) # {}
    <3>1. About(events) # {}
      BY <1>1, <2>1, <2>4
    <3>2. ASSUME NEW n \in 1..Len(rest)  PROVE Latest(rest, n) <=> Latest(events, n + 1)
      <4>1. ASSUME \A m \in About(rest) : m <= n, NEW m \in About(events)
            PROVE  m <= n + 1
        <5>1. m \in 1..Len(events)
          BY <1>1, <4>1
        <5>2. m = 1 \/ m - 1 \in About(rest)
          BY <2>2, <4>1
        <5>3. m - 1 \in About(rest) => m - 1 <= n
          BY <4>1
        <5>. QED  BY <5>1, <5>2, <5>3
      <4>2. ASSUME \A m \in About(events) : m <= n + 1, NEW m \in About(rest)
            PROVE  m <= n
        <5>1. m \in 1..Len(rest) /\ m + 1 \in About(events)
          BY <1>1, <2>1
        <5>. QED  BY <4>2, <5>1
      <4>. QED  BY <2>1, <4>1, <4>2
    <3>3. ~ Latest(events, 1)
      BY <1>1, <2>1, <2>4
    <3>4. (\E n \in About(rest) : rest[n].pressed /\ Latest(rest, n))
          <=> (\E n \in About(events) : events[n].pressed /\ Latest(events, n))
      <4>1. ASSUME NEW n \in About(rest), rest[n].pressed, Latest(rest, n)
            PROVE  n + 1 \in About(events) /\ events[n + 1].pressed /\ Latest(events, n + 1)
        BY <1>1, <2>1, <3>2, <4>1
      <4>2. ASSUME NEW n \in About(events), events[n].pressed, Latest(events, n)
            PROVE  n - 1 \in About(rest) /\ rest[n - 1].pressed /\ Latest(rest, n - 1)
        <5>1. n \in 1..Len(events) /\ n # 1
          BY <1>1, <3>3, <4>2
        <5>2. n - 1 \in 1..Len(rest) /\ (n - 1) + 1 = n
          BY <1>1, <5>1
        <5>3. Latest(rest, n - 1) <=> Latest(events, (n - 1) + 1)
          BY <3>2, <5>2
        <5>. QED  BY <1>1, <2>2, <4>2, <5>1, <5>2, <5>3
      <4>. QED  BY <4>1, <4>2
    <3>. QED  BY <2>4, <3>1, <3>4 DEF Amount
  <2>. QED  BY <2>3, <2>4
<1>3. new \in SUBSET Keys
  BY <1>1 DEF Applied, KeyEvent
<1>4. Amount(new, rest) \subseteq Keys /\ Amount(bits, events) \subseteq Keys
  BY DEF Amount
<1>. QED  BY <1>1, <1>2, <1>3, <1>4

(* A new event is applied after all others.                                 *)
LEMMA AmountAppend ==
  ASSUME NEW bits \in SUBSET Keys, NEW events \in Seq(KeyEvent), NEW e \in KeyEvent
  PROVE  /\ Append(events, e) \in Seq(KeyEvent)
         /\ Amount(bits, Append(events, e)) = Applied(Amount(bits, events), e)
<1>. DEFINE all == Append(events, e)
            last == Len(events) + 1
<1>1. /\ all \in Seq(KeyEvent) /\ Len(all) = last /\ all[last] = e
      /\ \A n \in 1..Len(events) : all[n] = events[n]
      /\ Len(events) \in Nat
      /\ DOMAIN events = 1..Len(events) /\ DOMAIN all = 1..last
  BY AppendProperties, LenProperties
<1>2. ASSUME NEW k \in Keys
      PROVE  k \in Amount(bits, all) <=> k \in Applied(Amount(bits, events), e)
  <2>. DEFINE About(ev) == {n \in DOMAIN ev : ev[n].key = k}
  <2>1. CASE e.key = k
    <3>1. last \in About(all) /\ \A m \in About(all) : m <= last
      BY <1>1, <2>1
    <3>2. \A n \in About(all) : (\A m \in About(all) : m <= n) => n = last
      BY <1>1, <3>1
    <3>3. k \in Amount(bits, all) <=> e.pressed
      BY <1>1, <3>1, <3>2 DEF Amount
    <3>. QED  BY <2>1, <3>3 DEF Applied
  <2>2. CASE e.key # k
    <3>1. About(all) = About(events)
      BY <1>1, <2>2
    <3>2. k \in Amount(bits, all) <=> k \in Amount(bits, events)
      BY <1>1, <3>1 DEF Amount
    <3>. QED  BY <2>2, <3>2 DEF Applied
  <2>. QED  BY <2>1, <2>2
<1>3. Amount(bits, all) \subseteq Keys /\ Applied(Amount(bits, events), e) \subseteq Keys
  BY DEF Amount, Applied, KeyEvent
<1>. QED  BY <1>1, <1>2, <1>3

-----------------------------------------------------------------------------
(* The bitmaps hold keys of the matrix.                                     *)
BitmapsInv ==
  /\ held \subseteq Keys /\ matrix.raw \subseteq Keys
  /\ filter.prev \subseteq Keys /\ filter.keys \subseteq Keys /\ tracked \subseteq Keys

(* What the ring holds while each change has made an event of its own; the  *)
(* driver reads a ring in which there is something.                         *)
AmountInv ==
  /\ exact => /\ replay \subseteq Keys /\ ring.events \in Seq(KeyEvent)
              /\ driver = "READ" => ring.events # <<>>
  /\ EventsAmount

LEMMA KeysFinite == IsFiniteSet(Keys) /\ Keys \subseteq Nat
<1>. DEFINE P == (0..(Rows - 1)) \X (0..(Cols - 1))
<1>1. Keys = {KeyAt[p] : p \in P} /\ KeyAt \in [P -> Nat]
  BY KeypadAssumption DEF Keys
<1>2. IsFiniteSet(P)
  <2>1. IsFiniteSet(0..(Rows - 1)) /\ IsFiniteSet(0..(Cols - 1))
    BY KeypadAssumption, FS_Interval
  <2>. QED  BY <2>1, FS_Product
<1>3. KeyAt \in Surjection(P, Keys)
  BY <1>1 DEF Surjection
<1>. QED  BY <1>1, <1>2, <1>3, FS_Surjection

(* A change of one key is the event made of it.                             *)
LEMMA OneChange ==
  ASSUME BitmapsInv, Cardinality(Changed) <= 1, EventNow
  PROVE  Event \in KeyEvent /\ filter.keys = Applied(tracked, Event)
<1>1. Changed \in SUBSET Keys /\ Changed # {}
  BY DEF BitmapsInv, Changed, EventNow
<1>2. IsFiniteSet(Changed)
  BY <1>1, KeysFinite, FS_Subset
<1>3. Cardinality(Changed) \in Nat /\ Cardinality(Changed) # 0
  BY <1>1, <1>2, FS_CardinalityType, FS_EmptySet
<1>4. Cardinality(Changed) = 1
  BY <1>3
<1>5. PICK k : Changed = {k}
  BY <1>2, <1>4, FS_Singleton
<1>6. k \in Keys /\ k \in Nat
  BY <1>1, <1>5, KeysFinite
<1>7. KeyCode = k
  BY <1>1, <1>5, <1>6 DEF KeyCode, Max
<1>8. Event \in KeyEvent /\ Event.key = k /\ Event.pressed = (k \in filter.keys)
  BY <1>6, <1>7 DEF Event, KeyEvent
<1>9. filter.keys = IF k \in filter.keys THEN tracked \cup {k} ELSE tracked \ {k}
  BY <1>5 DEF Changed
<1>10. CASE k \in filter.keys
  BY <1>8, <1>9, <1>10 DEF Applied
<1>11. CASE k \notin filter.keys
  BY <1>8, <1>9, <1>11 DEF Applied
<1>. QED  BY <1>8, <1>10, <1>11

LEMMA AmountInit == Init => BitmapsInv /\ AmountInv
BY AmountNone DEF Init, KeypadInit, MatrixCleared, FilterCleared, RingCleared, BitmapsInv,
                  AmountInv, EventsAmount

LEMMA BitmapsCycle ==
  ASSUME BitmapsInv, NEW w, Hardware(w), UNCHANGED held
  PROVE  BitmapsInv'
<1>1. matrix'.raw \subseteq Keys
  BY DEF BitmapsInv, Hardware, KeypadStep, Scan, MatrixCleared
<1>2. filter'.prev \subseteq Keys /\ filter'.keys \subseteq Keys
  BY DEF BitmapsInv, Hardware, KeypadStep, Debounce, Debounced
<1>3. tracked' \subseteq Keys
  BY DEF BitmapsInv, Hardware, KeypadStep, Track
<1>. QED  BY <1>1, <1>2, <1>3 DEF BitmapsInv

(* A cycle of the hardware, in which the driver reads an event or not.      *)
LEMMA AmountCycle ==
  ASSUME BitmapsInv, AmountInv, NEW w, Hardware(w), exact',
         w.reg = "KEYPAD_FIFO" => ring.events # <<>>,
         replay' = IF w.reg = "KEYPAD_FIFO" THEN Applied(replay, Head(ring.events)) ELSE replay
  PROVE  /\ replay' \subseteq Keys /\ ring'.events \in Seq(KeyEvent)
         /\ Amount(replay', ring'.events) = tracked'
<1>. DEFINE left == IF Pop(w) THEN Tail(ring.events) ELSE ring.events
<1>1. /\ exact /\ Cardinality(Changed) <= 1 /\ ~ (EventNow /\ Full) /\ Enabled
  BY DEF Hardware
<1>2. replay \in SUBSET Keys /\ ring.events \in Seq(KeyEvent)
      /\ Amount(replay, ring.events) = tracked
  BY <1>1 DEF AmountInv, EventsAmount
<1>3. ring'.events = IF EventNow THEN Append(left, Event) ELSE left
  BY <1>1 DEF Hardware, KeypadStep, RingStep
<1>4. replay' \in SUBSET Keys /\ left \in Seq(KeyEvent) /\ Amount(replay', left) = tracked
  BY <1>1, <1>2, AmountHead DEF Pop
<1>5. CASE EventNow
  <2>1. Event \in KeyEvent /\ tracked' = Applied(tracked, Event)
    BY <1>1, <1>5, OneChange DEF Hardware, KeypadStep, Track
  <2>2. ring'.events = Append(left, Event)
    BY <1>3, <1>5
  <2>3. /\ Append(left, Event) \in Seq(KeyEvent)
        /\ Amount(replay', Append(left, Event)) = Applied(Amount(replay', left), Event)
    <3>. HIDE DEF left
    <3>. QED  BY <1>4, <2>1, AmountAppend
  <2>. QED  BY <1>4, <2>1, <2>2, <2>3
<1>6. CASE ~ EventNow
  BY <1>3, <1>4, <1>6 DEF Hardware, KeypadStep, Track
<1>. QED  BY <1>5, <1>6

(* While nobody reads, an event in the ring stays there.                    *)
LEMMA EventsStay ==
  ASSUME IInv, AmountInv, NEW w, Hardware(w), exact', ctrl = ControlBits,
         w.reg # "KEYPAD_FIFO", ring.events # <<>>
  PROVE  ring'.events # <<>>
<1>1. /\ exact /\ ~ (EventNow /\ Full) /\ Enabled /\ ring.events \in Seq(KeyEvent)
  BY DEF Hardware, AmountInv
<1>2. ring'.events = IF EventNow THEN Append(ring.events, Event) ELSE ring.events
  BY <1>1 DEF Hardware, KeypadStep, RingStep, Pop
<1>3. Len(Append(ring.events, Event)) # 0
  BY <1>1
<1>. QED  BY <1>2, <1>3

LEMMA AmountStep == IInv /\ BitmapsInv /\ AmountInv /\ [Next]_vars => BitmapsInv' /\ AmountInv'
<1>. SUFFICES ASSUME IInv, BitmapsInv, AmountInv, [Next]_vars  PROVE BitmapsInv' /\ AmountInv'
  OBVIOUS
<1>1. ASSUME NEW w, Hardware(w), Quiet, UNCHANGED held, w.reg # "KEYPAD_FIFO"
      PROVE  BitmapsInv' /\ AmountInv'
  <2>1. exact' /\ driver = "READ" => ring'.events # <<>>
    <3>. SUFFICES ASSUME exact', driver = "READ"  PROVE ring'.events # <<>>
      OBVIOUS
    <3>1. ring.events # <<>>
      BY <1>1 DEF AmountInv, Hardware
    <3>. QED  BY <1>1, <3>1, EventsStay DEF IInv
  <2>. QED  BY <1>1, <2>1, BitmapsCycle, AmountCycle DEF AmountInv, EventsAmount, Quiet
<1>2. CASE Idle
  BY <1>1, <1>2 DEF Idle, None
<1>3. CASE Other
  BY <1>1, <1>3, KeyEventsAssumption DEF Other
<1>4. CASE Serve
  <2>. PICK w : /\ Driver(w, driver') /\ Hardware(w) /\ UNCHANGED held
                /\ replay' = IF driver = "READ" THEN Applied(replay, Head(ring.events)) ELSE replay
    BY <1>4 DEF Serve
  <2>1. /\ w.reg = "KEYPAD_FIFO" <=> driver = "READ"
        /\ driver' = "READ" => driver = "CHECK" /\ ring.events # <<>>
    BY DEF Driver, None
  <2>2. exact' /\ driver' = "READ" => ring'.events # <<>>
    BY <2>1, EventsStay DEF IInv
  <2>3. exact' /\ driver = "READ" => ring.events # <<>>
    BY DEF AmountInv, Hardware
  <2>4. BitmapsInv'
    BY BitmapsCycle
  <2>5. exact' => /\ replay' \subseteq Keys /\ ring'.events \in Seq(KeyEvent)
                  /\ Amount(replay', ring'.events) = tracked'
    BY <2>1, <2>3, AmountCycle
  <2>. QED  BY <2>2, <2>4, <2>5 DEF AmountInv, EventsAmount
<1>5. CASE Press
  <2>1. held' \subseteq Keys
    BY <1>5, KeyEventsAssumption DEF Press, BitmapsInv
  <2>. QED  BY <1>5, <2>1 DEF Press, keypadVars, BitmapsInv, AmountInv, EventsAmount
<1>6. CASE UNCHANGED vars
  BY <1>6 DEF vars, keypadVars, BitmapsInv, AmountInv, EventsAmount
<1>. QED  BY <1>2, <1>3, <1>4, <1>5, <1>6 DEF Next, Tick

(* Software that only reads events has the right bitmap in the end, for     *)
(* every matrix, ring depth and scan rate: no push that meets a read of the *)
(* ring is lost, doubled or put out of order.                               *)
THEOREM EventsTell == Spec => []EventsAmount
<1>1. AmountInv => EventsAmount
  BY DEF AmountInv
<1>. QED  BY InvInit, InvStep, AmountInit, AmountStep, <1>1, PTL DEF Spec
=============================================================================
