\* The timing constants are scaled down in the proportions of the code:
\* MissGoal + 1 < SaveDelay < GoalGap, Lookback < HistoryCount.
SPECIFICATION Spec
CONSTANTS
    Positions <- MCPositions
    Readings <- MCReadings
    InitField <- MCInitField
    GoalWidth = 1
    GoalHeight = 2
    HistoryCount = 4
    InitMissing = 9
    MissGoal = 1
    GoalGap = 4
    SaveDelay = 3
    RecentFrames = 3
    Lookback = 3
    playerBarFrameThreshold = 2
    MaxFrame = 9
INVARIANTS
    CreditFollowsHistory
PROPERTIES
    SaveOnTime
    ShotThenGoalIsNoSave
    OneGoalPerLostBall
    GoalOnBallsSide
CHECK_DEADLOCK FALSE
