--------------------------- MODULE BallAnalysis ---------------------------
(***************************************************************************)
(* The game logic of the tracker (BallAnalysis.c): one call of             *)
(* analysis_update per camera frame, on the GL worker thread only, turns   *)
(* the readings of the image (where the field is, where the ball is, or    *)
(* that there is none) into the messages SAVE, RG, BG and SCOREDBY.        *)
(*                                                                         *)
(* Coordinates are integers, the code's floats on a grid whose step an     *)
(* instance chooses.  The moving average of the field is rounded to that   *)
(* grid: its result is some grid value between the old edge and the new    *)
(* reading, which covers every rounding of 0.98 old + 0.02 new.            *)
(***************************************************************************)
EXTENDS Integers, Sequences, FiniteSets

CONSTANTS
    Positions,      \* where a ball may be seen: a set of [x, y]
    Readings,       \* field edges balltrack_readout may report
    InitField,      \* the edges analysis_init starts from
    GoalWidth,      \* depth of a goal along x
    GoalHeight,     \* half of a goal's opening along y
    HistoryCount,   \* slots of the ring of sightings (120)
    InitMissing,    \* ballMissing before any sighting (1000)
    MissGoal,       \* value of ballMissing at which a goal is looked for (15)
    GoalGap,        \* frames between two announced goals (50)
    SaveDelay,      \* frames a SAVE is held back (20)
    RecentFrames,   \* oldest previous sighting a shot is measured from (20)
    Lookback,       \* sightings searched for the scorer (20)
    playerBarFrameThreshold,  \* sightings that make a possession (4)
    MaxFrame        \* bound: number of frames analysed

Sides   == {1, 2}           \* 1: left goal (red scores), 2: right (blue)
Bars    == 0 .. 8           \* 0: not on the field
Edges   == [xmin : Int, xmax : Int, ymin : Int, ymax : Int]
Points  == [x : Int, y : Int]
Slots   == 0 .. HistoryCount - 1
Messages == [type : {"SAVE", "RG", "BG", "SCOREDBY"}, bar : Bars]

\* balltrack_readout seeds its box around the centre of the image and pads
\* it, so that a reading always leaves each goal on its own side of x = 0.
StraddlesCentre(f) == f.xmin + GoalWidth < 0 /\ 0 < f.xmax - GoalWidth

ASSUME GeometryAssumption ==
    /\ Positions \subseteq Points
    /\ Readings \subseteq Edges /\ InitField \in Edges
    /\ GoalWidth \in Nat \ {0} /\ GoalHeight \in Nat \ {0}
    /\ \A f \in Readings \cup {InitField} : StraddlesCentre(f)

ASSUME TimingAssumption ==
    /\ HistoryCount \in Nat \ {0, 1}
    /\ InitMissing \in Nat /\ MissGoal \in Nat /\ MissGoal < InitMissing
    /\ GoalGap \in Nat \ {0} /\ SaveDelay \in Nat
    /\ MissGoal + 1 < SaveDelay    \* a loss is noticed before a SAVE is due
    /\ RecentFrames \in Nat
    /\ Lookback \in 1 .. HistoryCount
    /\ playerBarFrameThreshold \in Nat \ {0}
    /\ MaxFrame \in Nat

VARIABLES
    frameNumber, field, balls, ballFrames, ballCur, ballMissing,
    sendSAVE, lastGOAL,
    sent,           \* the messages the last call wrote, in order
    shotFrame       \* history: frame of the last shot that armed sendSAVE

vars == <<frameNumber, field, balls, ballFrames, ballCur, ballMissing,
          sendSAVE, lastGOAL, sent, shotFrame>>

---------------------------------------------------------------------------
(* Geometry.                                                               *)

Between(a, b) == (a .. b) \cup (b .. a)

\* Mutant: the right edge follows the reading's left one.
SmoothedCrossed(f, r) ==
    [xmin : Between(f.xmin, r.xmin), xmax : Between(f.xmax, r.xmin),
     ymin : Between(f.ymin, r.ymin), ymax : Between(f.ymax, r.ymax)]

\* The fields that smoothing reading r into f may give.
Smoothed(f, r) ==
    [xmin : Between(f.xmin, r.xmin), xmax : Between(f.xmax, r.xmax),
     ymin : Between(f.ymin, r.ymin), ymax : Between(f.ymax, r.ymax)]

\* y lies within GoalHeight of the middle of the field (doubled: yAvg halves).
InGoalMouth(p, f) ==
    /\ 2 * p.y > f.ymin + f.ymax - 2 * GoalHeight
    /\ 2 * p.y < f.ymin + f.ymax + 2 * GoalHeight

InLeftGoal(p, f)  == InGoalMouth(p, f) /\ p.x < f.xmin + GoalWidth
InRightGoal(p, f) == InGoalMouth(p, f) /\ p.x > f.xmax - GoalWidth

isInGoal(p, f) == IF InLeftGoal(p, f) THEN 1
                  ELSE IF InRightGoal(p, f) THEN 2 ELSE 0

distSq(p, q) == (p.x - q.x) * (p.x - q.x) + (p.y - q.y) * (p.y - q.y)

getPlayerBar(p, f) ==
    IF p.x < f.xmin \/ p.x >= f.xmax THEN 0
    ELSE 1 + (8 * (p.x - f.xmin)) \div (f.xmax - f.xmin)

barTeams == [p \in Bars |-> IF p = 0 THEN 0
                            ELSE IF p \in {1, 2, 4, 6} THEN 1 ELSE 2]

\* Close enough to an end of the field to threaten its goal.
NearGoal(p, f) ==
    /\ InGoalMouth(p, f)
    /\ p.x < f.xmin + 3 * GoalWidth \/ p.x > f.xmax - 3 * GoalWidth

\* The ball moved more than a tenth of the field's width per frame.
Fast(p, q, frameDiffs, f) ==
    100 * distSq(p, q) > (frameDiffs * (f.xmax - f.xmin))
                         * (frameDiffs * (f.xmax - f.xmin))

---------------------------------------------------------------------------
(* The ring of sightings.                                                  *)

PrevSlot(i) == IF i = 0 THEN HistoryCount - 1 ELSE i - 1

NextSlot(i) == IF i + 1 >= HistoryCount THEN 0 ELSE i + 1

\* The slot k steps back from slot i, for k in 1 .. HistoryCount.
Back(i, k) == IF k <= i THEN i - k ELSE i - k + HistoryCount

\* The walk back from the newest sighting, counting the length of the run of
\* one bar; bars of the side's own team are passed over and break no run.
PossessionWalk(side, f) ==
    LET bar(k) == getPlayerBar(balls[Back(ballCur, k)], f)
        walk[k \in 0 .. Lookback] ==
            IF k = 0 THEN [player |-> 0, hits |-> 0]
            ELSE LET seen == walk[k - 1]
                 IN  IF \/ seen.hits = playerBarFrameThreshold
                        \/ barTeams[bar(k)] = side
                     THEN seen
                     ELSE [player |-> bar(k),
                           hits   |-> IF bar(k) = seen.player
                                      THEN seen.hits + 1 ELSE 1]
    IN  walk[Lookback]

\* Mutant: the run is not asked to be long enough.
LastPlayer(side, f) ==
    LET last == PossessionWalk(side, f)
    IN  IF last.player \in 1 .. 8 THEN last.player ELSE 0

getPlayerWhoScored(side, f) ==
    LET last == PossessionWalk(side, f)
    IN  IF last.hits = playerBarFrameThreshold /\ last.player \in 1 .. 8
        THEN last.player ELSE 0

---------------------------------------------------------------------------
(* One frame.                                                              *)

Say(type)       == <<[type |-> type, bar |-> 0]>>
ScoredBy(bar)   == IF bar = 0 THEN <<>> ELSE <<[type |-> "SCOREDBY", bar |-> bar]>>
GoalMessage(side) == Say(IF side = 1 THEN "RG" ELSE "BG")

\* Mutant: the counter compared after its increment.
SaveDueEarly == sendSAVE + 1 = SaveDelay

\* What the head of analysis_update does with a SAVE that is held back.
SaveDue    == sendSAVE = SaveDelay
HeldSave   == IF sendSAVE = 0 \/ SaveDue THEN 0 ELSE sendSAVE + 1
DueMessage == IF SaveDue THEN Say("SAVE") ELSE <<>>

Init ==
    /\ frameNumber = 0 /\ field = InitField
    /\ balls = [i \in Slots |-> [x |-> 0, y |-> 0]]
    /\ ballFrames = [i \in Slots |-> 0]
    /\ ballCur = 0 /\ ballMissing = InitMissing
    /\ sendSAVE = 0 /\ lastGOAL = 0
    /\ sent = <<>> /\ shotFrame = 0

NewFrame(reading) ==
    /\ frameNumber < MaxFrame
    /\ frameNumber' = frameNumber + 1
    /\ field' \in Smoothed(field, reading)

\* A shot at a goal: fast since the previous sighting, and ending near it.
FastShot(ball) ==
    LET prev       == PrevSlot(ballCur)
        frameDiffs == frameNumber + 1 - ballFrames[prev]
    IN  /\ frameDiffs <= RecentFrames
        /\ Fast(balls[prev], ball, frameDiffs, field')
        /\ NearGoal(ball, field')

BallFound(reading, ball) ==
    /\ NewFrame(reading)
    /\ ballMissing' = 0
    /\ balls' = [balls EXCEPT ![ballCur] = ball]
    /\ ballFrames' = [ballFrames EXCEPT ![ballCur] = frameNumber + 1]
    /\ ballCur' = NextSlot(ballCur)
    /\ \/ FastShot(ball) /\ sendSAVE' = 1 /\ shotFrame' = frameNumber + 1
       \/ ~FastShot(ball) /\ sendSAVE' = HeldSave /\ UNCHANGED shotFrame
    /\ sent' = DueMessage
    /\ UNCHANGED lastGOAL

\* Mutant: the loss of the ball stays noticed.
LostForLong == ballMissing >= MissGoal

\* The one frame on which a missing ball is taken to be lost.
JustLost == ballMissing = MissGoal

NoGoal(goal) ==
    /\ ~JustLost \/ goal = 0
    /\ sendSAVE' = HeldSave /\ sent' = DueMessage
    /\ UNCHANGED lastGOAL

\* Too soon after the last goal: nothing is announced, but the SAVE is lost.
GoalTooSoon(goal) ==
    /\ JustLost /\ goal # 0
    /\ frameNumber + 1 - lastGOAL < GoalGap
    /\ sendSAVE' = 0 /\ sent' = DueMessage
    /\ UNCHANGED lastGOAL

Announcement(goal) == DueMessage \o GoalMessage(goal)
                      \o ScoredBy(getPlayerWhoScored(goal, field'))

\* Mutant: the SAVE held back for this shot is not dropped.
GoalKeepsSave(goal) ==
    /\ JustLost /\ goal # 0
    /\ frameNumber + 1 - lastGOAL >= GoalGap
    /\ sendSAVE' = HeldSave /\ lastGOAL' = frameNumber + 1
    /\ sent' = Announcement(goal)

GoalAnnounced(goal) ==
    /\ JustLost /\ goal # 0
    /\ frameNumber + 1 - lastGOAL >= GoalGap
    /\ sendSAVE' = 0 /\ lastGOAL' = frameNumber + 1
    /\ sent' = Announcement(goal)

BallMissing(reading) ==
    /\ NewFrame(reading)
    /\ ballMissing' = ballMissing + 1
    /\ LET goal == isInGoal(balls[PrevSlot(ballCur)], field')
       IN  NoGoal(goal) \/ GoalTooSoon(goal) \/ GoalAnnounced(goal)
    /\ UNCHANGED <<balls, ballFrames, ballCur, shotFrame>>

analysis_update ==
    \E reading \in Readings :
        \/ \E ball \in Positions : BallFound(reading, ball)
        \/ BallMissing(reading)

Next == analysis_update

Spec == Init /\ [][Next]_vars

---------------------------------------------------------------------------
(* Properties.                                                             *)

TypeOK ==
    /\ frameNumber \in 0 .. MaxFrame
    /\ field \in Edges
    /\ balls \in [Slots -> Points]
    /\ ballFrames \in [Slots -> 0 .. frameNumber]
    /\ ballCur \in Slots
    /\ ballMissing \in Nat
    /\ sendSAVE \in 0 .. SaveDelay
    /\ lastGOAL \in 0 .. frameNumber
    /\ shotFrame \in 0 .. frameNumber
    /\ sent \in Seq(Messages)

Newest == ballFrames[PrevSlot(ballCur)]

\* Three counters kept by different branches agree: the slot behind ballCur
\* holds the newest sighting and ballMissing is exactly its age, across the
\* ring's wrap.  isInGoal and the shot test read that slot on trust.
NewestSighting ==
    /\ \A i \in Slots : ballFrames[i] <= Newest
    /\ Newest > 0 => frameNumber = Newest + ballMissing
    /\ Newest = 0 => ballMissing = InitMissing + frameNumber

Types(s)  == {s[i].type : i \in DOMAIN s}
SentTypes == Types(sent)
SaveSent  == "SAVE" \in SentTypes
GoalSent  == SentTypes \cap {"RG", "BG"} # {}

\* "Only send the SAVE if it does not get interrupted by a goal": a SAVE
\* goes out exactly SaveDelay frames after the last shot at a goal, and no
\* goal was announced since that shot.
SaveOnTime ==
    [][SaveSent' => /\ frameNumber' = shotFrame + SaveDelay
                    /\ lastGOAL < shotFrame]_vars

\* A shot that is itself the last sighting of a ball gone into a goal is
\* announced as that goal and never as a SAVE: the loss of the ball is
\* noticed while the SAVE is still held back, and drops it.
ShotThenGoalIsNoSave ==
    [][GoalSent' /\ Newest = shotFrame
          => frameNumber' < shotFrame + SaveDelay /\ sendSAVE' = 0]_vars

\* Between two announced goals the ball was seen again, and at least GoalGap
\* frames went by: one lost ball is never two goals.
OneGoalPerLostBall ==
    [][GoalSent' => /\ Newest > lastGOAL
                    /\ frameNumber' - lastGOAL >= GoalGap]_vars

\* Where the ball was when it was seen last, found by the frames of the sightings.
SeenLast == {balls[i] : i \in {k \in Slots :
                                  \A j \in Slots : ballFrames[j] <= ballFrames[k]}}

\* A goal is announced on the side of the table where the ball was seen last,
\* though isInGoal judges that old sighting with a field that has drifted since,
\* and whose goals would meet in the middle if it shrank a little further: a
\* ball on the right never falls to the test for the left, which comes first.
GoalOnBallsSide ==
    [][GoalSent' => \E p \in SeenLast : IF "RG" \in SentTypes' THEN p.x < 0
                                                             ELSE p.x > 0]_vars

\* A possession of bar p in the steps i .. j back: every sighting there is
\* p's or one of the side's own bars, and p has the threshold of them.
Possession(p, side, i, j) ==
    LET bar(k) == getPlayerBar(balls[Back(ballCur, k)], field)
        Held   == {k \in i .. j : bar(k) = p}
    IN  /\ \A k \in i .. j : k \in Held \/ barTeams[bar(k)] = side
        /\ Cardinality(Held) = playerBarFrameThreshold
        /\ j \in Held /\ barTeams[p] # side

\* The bar a goal is credited to, said without walking: the one whose
\* possession is complete soonest on the way back, if it is a bar at all.
Scorer(side) ==
    LET ends == {j \in 1 .. Lookback :
                    \E i \in 1 .. j, p \in Bars : Possession(p, side, i, j)}
    IN  IF ends = {} THEN 0
        ELSE LET j == CHOOSE m \in ends : \A n \in ends : m <= n
             IN  CHOOSE p \in Bars :
                    \E i \in 1 .. j : Possession(p, side, i, j)

\* The player sent after a goal is the one the history names, and a goal
\* without a player is one whose history names none.
CreditFollowsHistory ==
    \A side \in Sides :
        GoalMessage(side)[1].type \in SentTypes =>
            LET credited == {sent[i].bar : i \in {k \in DOMAIN sent :
                                               sent[k].type = "SCOREDBY"}}
            IN  credited = {Scorer(side)} \ {0}
=============================================================================
