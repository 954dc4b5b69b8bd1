--------------------------- MODULE MCEventBridge ---------------------------
EXTENDS EventBridge, TLC

CONSTANTS c1, c2

MCTwo   == {c1, c2}
MCSymmetry == Permutations(MCTwo)
=============================================================================
