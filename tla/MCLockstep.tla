----------------------------- MODULE MCLockstep -----------------------------
(***************************************************************************)
(* Programs for Chip8Lockstep.                                              *)
(***************************************************************************)
EXTENDS Chip8Lockstep, Chip8Asm

MCKeySets == {{}, {3}, {2, 9}}

(* V1 := 9, V2 := 0xB5, I := 40, then two operations of every kind in turn. *)
Prologue == <<\h6109, \h62B5, \hA028>>
Kinds ==
  {\h00E0, \h2038,
   \h3003, \h3109, \h4109, \h5120, \h9120,
   \h61FF, \h71FF,
   \h8120, \h8121, \h8122, \h8123, \h8124, \h8125, \h8126, \h8127, \h812E,
   \hA030, \hB018, \hC1FF, \hD123, \hD112, \hE19E, \hE1A1,
   \hF107, \hF10A, \hF115, \hF118, \hF11E, \hF129, \hF133, \hF255, \hF265,
   \h8128, \h5121}                                  \* the last two are illegal
Pairs == {Image(Finish(Prologue \o <<a, b>>), <<\h7105, \h00EE>>) : a, b \in Kinds}

(* Count a timer down; draw twice over, wrapping; change code two           *)
(* instructions ahead; nest two calls; draw all the random bytes.          *)
Longer ==
  {Image(<<\hC0FF, JumpTo(16)>>, <<>>),
   Image(Finish(<<\h6002, \hF015, \hF007, \h3000, \h1014, \h00E0>>), <<>>),
   Image(Finish(<<\hA028, \h603E, \h611C, \hD013, \hD013, \hD711>>), <<>>),
   Image(Finish(<<\hA01A, \h6060, \h613D, \hF155, \h6200, \h6301, \h6402>>), <<>>),
   Image(Finish(<<\h2038, \h2038, \h6101>>), <<\h203C, \h00EE, \h7002, \h00EE>>)}
Agreeing == Pairs \cup Longer

(* One program for each place where the two implementations part.           *)
ShiftVF    == {Image(Finish(<<\h6F7F, \h8F06>>), <<>>)}
EmptyDraw  == {Image(Finish(<<\h6F01, \hD010>>), <<>>)}
FullReturn == {Image(<<\h2014, \h1012, \h2018, \h00EE, \h00EE>>, <<>>)}
Overflow   == {Image(<<\h2012, \h2014, \h2016, \h1016>>, <<>>)}
Underflow  == {Image(<<\h2014, \h00EE, \h00EE>>, <<>>)}
FontWrite  == {Image(Finish(<<\h6007, \hA000, \hF055>>), <<>>)}
SkipAtEnd  == {Image(<<JumpTo(60)>>, <<0, 0, \h3000>>)}
StoreAhead == {Image(Finish(<<\h6062, \hA016, \hF055, \h6003>>), <<>>)}
Parting    == ShiftVF \cup EmptyDraw \cup FullReturn \cup Overflow \cup Underflow
                \cup FontWrite \cup SkipAtEnd \cup StoreAhead

AlwaysRunning == enable
=============================================================================
