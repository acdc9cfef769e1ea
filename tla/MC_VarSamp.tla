----------------------------- MODULE MC_VarSamp -----------------------------
EXTENDS VarSamp

CONSTANTS w1, w2

MCWorkers == {w1, w2}
=============================================================================
