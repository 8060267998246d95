----------------------------- MODULE MCBarrier -----------------------------
EXTENDS Barrier
=============================================================================
