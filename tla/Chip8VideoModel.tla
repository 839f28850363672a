-------------------------- MODULE Chip8VideoModel --------------------------
(***************************************************************************)
(* video_pipeline.rs: what the Rust crate says the 2D engine and the camera *)
(* pipeline do to a frame.  A frame is the set of its lit pixels; pixel k   *)
(* of the code is Place(k).                                                 *)
(***************************************************************************)
EXTENDS Integers, Sequences

CONSTANTS FbWidth, FbHeight     \* 64 and 32 in the code

FbSize   == FbWidth * FbHeight
FbPixel  == (0..(FbWidth - 1)) \X (0..(FbHeight - 1))
Place(k) == <<k % FbWidth, k \div FbWidth>>

(* Dma2dConfig: [overlay, op, color, x, y, width, height]. *)
Dma2dOps == {"SNAPSHOT", "CLEAR", "FILL", "INVERT"}
Dma2dDefault == [overlay |-> FALSE, op |-> "SNAPSHOT", color |-> FALSE,
                 x |-> 0, y |-> 0, width |-> FbWidth, height |-> FbHeight]
InRect(cfg, p) ==
  /\ p[1] >= cfg.x /\ p[1] < cfg.x + cfg.width
  /\ p[2] >= cfg.y /\ p[2] < cfg.y + cfg.height

(* Under overlay the base is the output so far, which starts dark.          *)
Dma2dApply(input, cfg) ==
  LET base == IF cfg.overlay THEN {} ELSE input
      all  == IF cfg.color THEN FbPixel ELSE {}
      rect == {p \in FbPixel : InRect(cfg, p)}
  IN CASE cfg.op = "SNAPSHOT" -> input
       [] cfg.op = "CLEAR"    -> all
       [] cfg.op = "FILL"     -> (base \ rect) \cup (all \cap rect)
       [] cfg.op = "INVERT"   -> FbPixel \ base

(* Every second byte of the stream is a luma sample, one per pixel. *)
CaptureYcbcr422(bytes, threshold) ==
  {Place(k) : k \in {j \in 0..(FbSize - 1) : /\ 2 * j + 2 <= Len(bytes)
                                             /\ bytes[2 * j + 2] >= threshold}}

GridPixel(p) == p[1] \in {0, FbWidth - 1} \/ p[2] \in {0, FbHeight - 1}
Postprocess(source, enable, invert, grid) ==
  {p \in FbPixel : IF enable THEN ((p \in source) # invert) # (grid /\ GridPixel(p))
                   ELSE p \in source}

(* validate_video_pipeline: the outcomes of its checks. *)
VideoPass ==
  LET stream == [k \in 1..(2 * FbSize) |->
                   IF k % 2 = 1 THEN 128 ELSE IF (k \div 2 - 1 + FbWidth) % 2 = 0 THEN 255 ELSE 0]
      camera    == CaptureYcbcr422(stream, 128)
      processed == Postprocess(camera, TRUE, TRUE, TRUE)
      filled    == Dma2dApply(processed, [Dma2dDefault EXCEPT !.op = "FILL", !.color = TRUE,
                                            !.x = 8, !.y = 4, !.width = 16, !.height = 8])
  IN << <<0, 0>> \in camera, <<1, 0>> \notin camera, Place(FbSize - 1) \notin camera,
        <<0, 0>> \in processed <=> <<0, 0>> \in camera,
        <<1, 1>> \in processed <=> <<1, 1>> \notin camera,
        <<8, 4>> \in filled, <<23, 11>> \in filled,
        <<23, 12>> \in filled <=> <<23, 12>> \in processed >>
=============================================================================
