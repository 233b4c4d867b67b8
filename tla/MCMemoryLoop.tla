---------------------------- MODULE MCMemoryLoop ----------------------------
EXTENDS MemoryLoop

CONSTANTS s1, s2, t1, t2
=============================================================================
