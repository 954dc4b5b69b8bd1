-------------------------- MODULE MCBallAnalysis --------------------------
(* Grid step 0.15: goals are 1 deep, the field of analysis_init is +-5.     *)
EXTENDS BallAnalysis

P(px, py) == [x |-> px, y |-> py]
F(a, b, c, d) == [xmin |-> a, xmax |-> b, ymin |-> c, ymax |-> d]

MCInitField == F(-5, 5, -5, 5)

\* The smallest box balltrack_readout reports (32 to 48 of 80 pixels, +-0.2, which
\* is less than 2 of the grid): its goals are as near to each other as the grid
\* has them, with nothing between but the middle of the table.
MCSmallest == F(-2, 2, -5, 5)
MCReadings == {MCInitField, MCSmallest}

\* In the left goal (at the blue keeper), at a red bar left of the middle, which
\* is in the left goal of the smallest box only, and in the right goal (at the red
\* keeper).  The zeroed ring stands at the red middle.
MCPositions == {P(-4, 0), P(-2, 0), P(4, 0)}
=============================================================================
