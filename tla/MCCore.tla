------------------------------- MODULE MCCore -------------------------------
(***************************************************************************)
(* Programs for Chip8Core, run under every way of holding and restarting    *)
(* the core and of loading bytes.                                           *)
(***************************************************************************)
EXTENDS Chip8Core, Chip8Asm

Byte1(offset, d) == [we |-> TRUE, addr |-> offset, data |-> d]

MCKeySets == {{}, {0, 5}}
(* A byte that makes the second opcode of the program illegal.              *)
MCLoads == {Byte1(2, 255)}

MCImages ==
  {Image(<<\hF10A, \h6007, \h8104, \hB012>>, <<>>),
   Image(<<\hA02A, \h00E0, \hF155, \hF265, JumpTo(16)>>, <<>>),
   Image(<<\hF029, \h6005, \hD012, \hF033, JumpTo(24)>>, <<>>),
   Image(<<\h6002, \hF015, \hF007, \h3000, JumpTo(20), \hE19E, \h8010, \h2038>>,
         <<\h2038>>),
   Image(<<\h00EE>>, <<>>)}

(* A loop the loader patches while it runs.                                 *)
PatchedImages == {Image(<<\h6001, \h6101, \h6201, JumpTo(16)>>, <<>>)}
PatchedLoads  == {Byte1(2, 96)}
=============================================================================
