---------------------------- MODULE MCKeyEvents ----------------------------
(* A matrix of two rows and two columns, a ring of two events.              *)
EXTENDS Chip8KeyEvents

MCKeyAt   == <<0, 0>> :> 1 @@ <<0, 1>> :> 2 @@ <<1, 0>> :> 3 @@ <<1, 1>> :> 0
MCPressed == {1, 2}
MCOthers  == {[reg |-> "DMA_CLEAR", bits |-> {"KEY_DONE"}]}
=============================================================================
