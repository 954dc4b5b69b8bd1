-------------------------- MODULE MCSegmentReplay --------------------------
EXTENDS SegmentReplay, TLC

CONSTANTS r1, r2

MCReplayers == {r1, r2}
MCSymmetry  == Permutations(MCReplayers)
=============================================================================
