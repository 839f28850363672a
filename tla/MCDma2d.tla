------------------------------ MODULE MCDma2d ------------------------------
(* Frames of two by two pixels; each operation started with and without the *)
(* overlay, and rectangles of one column, of no width and past the edge.    *)
EXTENDS Chip8Dma2d

Starts == [reg : {"CTRL"}, op : Dma2dOps \cup {"PASS"}, start : {TRUE}, clear : {FALSE}]
MCWrites ==
  Starts \cup {[reg |-> "CTRL", op |-> "INVERT", start |-> TRUE, clear |-> TRUE]}
  \cup {[reg |-> "COLOR", val |-> TRUE], [reg |-> "ORIGIN", x |-> 1, y |-> 0]}
  \cup {[reg |-> "SIZE", width |-> 1, height |-> 1], [reg |-> "SIZE", width |-> 0, height |-> 1],
        [reg |-> "SIZE", width |-> 3, height |-> 2]}
=============================================================================
