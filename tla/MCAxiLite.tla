----------------------------- MODULE MCAxiLite -----------------------------
EXTENDS Chip8AxiLite
MCAddrs == {16, 20}
MCWords == {0, 1}
=============================================================================
