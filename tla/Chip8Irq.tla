------------------------------ MODULE Chip8Irq ------------------------------
(***************************************************************************)
(* The interrupt controller, which latches one pending bit per source, and  *)
(* the DMA status page, whose error bits are one of those sources.  A       *)
(* register write of the cycle is a parameter: at most one page is written. *)
(***************************************************************************)
Errors   == {"KEY_OVERFLOW", "VIDEO_ERROR"}
DmaBits  == {"KEY_DONE", "VIDEO_DONE"} \cup Errors

VARIABLES dma,                \* status and enable bits of the DMA page
          irq                 \* pending and enable bits of the controller

irqVars == <<dma, irq>>
IrqInit == dma = [status |-> {}, enable |-> {}] /\ irq = [pending |-> {}, enable |-> {}]

(* A write of the clear register keeps the events of its cycle out.         *)
Recorded(w, events) ==
  IF w.reg = "DMA_CLEAR" THEN dma.status \ w.bits ELSE dma.status \cup events
DmaError == dma.status \cap dma.enable \cap Errors # {}
DmaStep(w, events) ==
  dma' = [status |-> Recorded(w, events),
          enable |-> IF w.reg = "DMA_ENABLE" THEN w.bits ELSE dma.enable]

Latched(w, raised) ==
  (irq.pending \cup raised) \ (IF w.reg = "IRQ_CLEAR" THEN w.bits ELSE {})
IrqLine == irq.pending \cap irq.enable # {}
IrqStep(w, raised) ==
  irq' = [pending |-> Latched(w, raised \cup (IF DmaError THEN {"DMA_ERROR"} ELSE {})),
          enable  |-> IF w.reg = "IRQ_ENABLE" THEN w.bits ELSE irq.enable]
=============================================================================
