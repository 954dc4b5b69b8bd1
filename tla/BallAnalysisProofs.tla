------------------------ MODULE BallAnalysisProofs ------------------------
(***************************************************************************)
(* For every ring size, delay, gap, field and set of positions that meets  *)
(* the assumptions of BallAnalysis: its types, the agreement of the ring   *)
(* with the frame counters, on which side a goal is announced, when SAVE   *)
(* and goal messages may be sent, and whom a goal is credited to.          *)
(***************************************************************************)
EXTENDS BallAnalysis, TLAPS, SequenceTheorems, FiniteSetTheorems

---------------------------------------------------------------------------
(* The messages of a frame.                                                *)

\* The types of a concatenation are those of its parts.
LEMMA TypesConcat ==
    ASSUME NEW s \in Seq(Messages), NEW t \in Seq(Messages)
    PROVE  Types(s \o t) = Types(s) \cup Types(t)
<1>1. DOMAIN (s \o t) = 1 .. Len(s) + Len(t)
  OBVIOUS
<1>2. DOMAIN s = 1 .. Len(s) /\ DOMAIN t = 1 .. Len(t)
  OBVIOUS
<1>3. \A i \in 1 .. Len(s) : (s \o t)[i] = s[i]
  OBVIOUS
<1>4. \A i \in 1 .. Len(t) : (s \o t)[Len(s) + i] = t[i]
  OBVIOUS
<1>5. \A i \in 1 .. Len(s) + Len(t) :
        \/ i \in 1 .. Len(s)
        \/ i - Len(s) \in 1 .. Len(t) /\ i = Len(s) + (i - Len(s))
  OBVIOUS
<1>6. Types(s \o t) \subseteq Types(s) \cup Types(t)
  BY <1>1, <1>2, <1>3, <1>4, <1>5 DEF Types
<1>7. Types(s) \subseteq Types(s \o t)
  BY <1>1, <1>2, <1>3 DEF Types
<1>8. Types(t) \subseteq Types(s \o t)
  <2>1. \A i \in 1 .. Len(t) : Len(s) + i \in 1 .. Len(s) + Len(t)
    OBVIOUS
  <2> QED BY <1>1, <1>2, <1>4, <2>1 DEF Types
<1> QED BY <1>6, <1>7, <1>8

\* A sequence of one message is well typed and has that message's type.
LEMMA OneMessage ==
    ASSUME NEW m \in Messages
    PROVE  <<m>> \in Seq(Messages) /\ Types(<<m>>) = {m.type}
<1>1. DOMAIN <<m>> = {1} /\ <<m>>[1] = m
  OBVIOUS
<1>2. Types(<<m>>) = {m.type}
  BY <1>1 DEF Types
<1> QED BY <1>2

LEMMA SayType ==
    ASSUME NEW m \in {"SAVE", "RG", "BG"}
    PROVE  Say(m) \in Seq(Messages) /\ Types(Say(m)) = {m}
<1> DEFINE msg == [type |-> m, bar |-> 0]
<1>1. msg \in Messages /\ msg.type = m
  BY DEF Messages, Bars
<1>2. <<msg>> \in Seq(Messages) /\ Types(<<msg>>) = {msg.type}
  BY <1>1, OneMessage
<1> QED BY <1>1, <1>2 DEF Say

LEMMA NoMessage == <<>> \in Seq(Messages) /\ Types(<<>>) = {}
BY DEF Types

LEMMA ScoredByType ==
    ASSUME NEW bar \in Bars
    PROVE  /\ ScoredBy(bar) \in Seq(Messages)
           /\ Types(ScoredBy(bar)) \subseteq {"SCOREDBY"}
<1> DEFINE msg == [type |-> "SCOREDBY", bar |-> bar]
<1>1. msg \in Messages /\ msg.type = "SCOREDBY"
  BY DEF Messages
<1>2. <<msg>> \in Seq(Messages) /\ Types(<<msg>>) = {msg.type}
  BY <1>1, OneMessage
<1>3. CASE bar = 0
  BY <1>3, NoMessage DEF ScoredBy
<1>4. CASE bar # 0
  BY <1>1, <1>2, <1>4 DEF ScoredBy
<1> QED BY <1>3, <1>4

LEMMA ScorerIsBar ==
    ASSUME NEW side, NEW f
    PROVE  getPlayerWhoScored(side, f) \in Bars
BY DEF getPlayerWhoScored, Bars

---------------------------------------------------------------------------
(* The inductive invariant.                                                *)

\* A SAVE that is held back counts the frames since its shot, and no goal
\* was announced since that shot.
SaveClock ==
    sendSAVE > 0 => /\ shotFrame > 0 /\ frameNumber = shotFrame + sendSAVE - 1
                    /\ lastGOAL < shotFrame

\* After a goal the ball stays "missing for too long" until it is seen again.
GoalClock == lastGOAL > 0 /\ Newest <= lastGOAL => ballMissing > MissGoal

Inv == /\ TypeOK
       /\ StraddlesCentre(field)
       /\ NewestSighting
       /\ shotFrame <= Newest
       /\ SaveClock
       /\ GoalClock

\* The ring's index arithmetic stays in the ring, and the slot behind the one
\* just written is that slot.
LEMMA RingStep ==
    ASSUME NEW i \in Slots
    PROVE  PrevSlot(i) \in Slots /\ NextSlot(i) \in Slots /\ PrevSlot(NextSlot(i)) = i
BY TimingAssumption DEF Slots, PrevSlot, NextSlot

\* Smoothing a field that straddles the centre with a reading that does gives
\* one that does.
LEMMA SmoothedStraddles ==
    ASSUME NEW f \in Edges, NEW r \in Edges,
           StraddlesCentre(f), StraddlesCentre(r),
           NEW g \in Smoothed(f, r)
    PROVE  g \in Edges /\ StraddlesCentre(g)
<1>1. GoalWidth \in Nat
  BY GeometryAssumption
<1>2. /\ f.xmin \in Int /\ f.xmax \in Int /\ f.ymin \in Int /\ f.ymax \in Int
      /\ r.xmin \in Int /\ r.xmax \in Int /\ r.ymin \in Int /\ r.ymax \in Int
  BY DEF Edges
<1>3. ASSUME NEW a \in Int, NEW b \in Int, NEW v \in Between(a, b)
      PROVE  v \in Int /\ ((a <= v /\ v <= b) \/ (b <= v /\ v <= a))
  BY <1>3 DEF Between
<1>4. /\ g \in Edges
      /\ g.xmin \in Between(f.xmin, r.xmin) /\ g.xmax \in Between(f.xmax, r.xmax)
  BY <1>2, <1>3 DEF Smoothed, Edges
<1> QED BY <1>1, <1>2, <1>3, <1>4 DEF StraddlesCentre

\* What a frame does to the field and the frame counter, whatever it shows.
LEMMA FrameStep ==
    ASSUME Inv, NEW reading \in Readings, NewFrame(reading)
    PROVE  /\ frameNumber' = frameNumber + 1 /\ frameNumber' \in 0 .. MaxFrame
           /\ field' \in Edges /\ StraddlesCentre(field')
<1>1. field \in Edges /\ StraddlesCentre(field)
  BY DEF Inv, TypeOK
<1>2. reading \in Edges /\ StraddlesCentre(reading)
  BY GeometryAssumption
<1>3. field' \in Edges /\ StraddlesCentre(field')
  BY <1>1, <1>2, SmoothedStraddles DEF NewFrame
<1> QED BY <1>3, TimingAssumption DEF NewFrame, Inv, TypeOK

\* A held-back SAVE ticks or is sent: the counter and the message agree.
LEMMA HeldSaveStep ==
    ASSUME Inv
    PROVE  /\ HeldSave \in 0 .. SaveDelay
           /\ HeldSave > 0 => sendSAVE > 0 /\ HeldSave = sendSAVE + 1
           /\ DueMessage \in Seq(Messages)
           /\ Types(DueMessage) = IF SaveDue THEN {"SAVE"} ELSE {}
<1>1. sendSAVE \in 0 .. SaveDelay /\ SaveDelay \in Nat
  BY TimingAssumption DEF Inv, TypeOK
<1>2. /\ HeldSave \in 0 .. SaveDelay
      /\ HeldSave > 0 => sendSAVE > 0 /\ HeldSave = sendSAVE + 1
  BY <1>1 DEF HeldSave, SaveDue
<1>3. Say("SAVE") \in Seq(Messages) /\ Types(Say("SAVE")) = {"SAVE"}
  BY SayType
<1>4. DueMessage \in Seq(Messages) /\ Types(DueMessage) = IF SaveDue THEN {"SAVE"} ELSE {}
  BY <1>3, NoMessage DEF DueMessage
<1> QED BY <1>2, <1>4

LEMMA InitInv == Init => Inv
<1> SUFFICES ASSUME Init PROVE Inv
  OBVIOUS
<1>1. 0 \in Slots /\ PrevSlot(0) \in Slots
  BY TimingAssumption DEF Slots, PrevSlot
<1>2. TypeOK
  BY <1>1, TimingAssumption, GeometryAssumption, NoMessage DEF Init, TypeOK, Points
<1>3. StraddlesCentre(field)
  BY GeometryAssumption DEF Init
<1>4. NewestSighting /\ shotFrame <= Newest
  BY <1>1, TimingAssumption DEF Init, NewestSighting, Newest
<1>5. SaveClock /\ GoalClock
  BY DEF Init, SaveClock, GoalClock
<1> QED BY <1>2, <1>3, <1>4, <1>5 DEF Inv

\* A sighting preserves the invariant.
LEMMA BallFoundInv ==
    ASSUME Inv, NEW reading \in Readings, NEW ball \in Positions,
           BallFound(reading, ball)
    PROVE  Inv'
<1>1. /\ frameNumber' = frameNumber + 1 /\ frameNumber' \in 0 .. MaxFrame
      /\ field' \in Edges /\ StraddlesCentre(field')
  BY FrameStep DEF BallFound
<1>2. /\ ballCur \in Slots /\ ballCur' \in Slots /\ PrevSlot(ballCur') = ballCur
      /\ PrevSlot(ballCur) \in Slots
  BY RingStep DEF Inv, TypeOK, BallFound
<1>3. /\ frameNumber \in Nat /\ ballFrames \in [Slots -> 0 .. frameNumber]
      /\ ballFrames' = [ballFrames EXCEPT ![ballCur] = frameNumber + 1]
  BY DEF Inv, TypeOK, BallFound
<1>4. Newest' = frameNumber'
  BY <1>1, <1>2, <1>3 DEF Newest
<1>5. ballFrames' \in [Slots -> 0 .. frameNumber']
  BY <1>1, <1>2, <1>3
<1>6. /\ sendSAVE' \in 0 .. SaveDelay /\ shotFrame' \in 0 .. frameNumber'
      /\ SaveClock'
  <2>1. CASE sendSAVE' = 1 /\ shotFrame' = frameNumber + 1
    BY <1>1, <2>1, TimingAssumption DEF Inv, TypeOK, SaveClock, BallFound
  <2>2. CASE sendSAVE' = HeldSave /\ shotFrame' = shotFrame
    <3>1. frameNumber \in Nat /\ lastGOAL \in Nat /\ shotFrame \in 0 .. frameNumber
      BY DEF Inv, TypeOK
    <3>2. SaveClock /\ lastGOAL' = lastGOAL
      BY DEF Inv, BallFound
    <3>3. HeldSave \in 0 .. SaveDelay /\ SaveDelay \in Nat /\ sendSAVE \in 0 .. SaveDelay
      BY HeldSaveStep, TimingAssumption DEF Inv, TypeOK
    <3>4. HeldSave > 0 => sendSAVE > 0 /\ HeldSave = sendSAVE + 1
      BY HeldSaveStep
    <3> QED BY <1>1, <2>2, <3>1, <3>2, <3>3, <3>4 DEF SaveClock
  <2> QED BY <2>1, <2>2 DEF BallFound
<1>7. TypeOK'
  <2>1. balls' \in [Slots -> Points]
    BY GeometryAssumption DEF Inv, TypeOK, BallFound
  <2>2. sent' \in Seq(Messages)
    BY HeldSaveStep DEF BallFound
  <2>3. lastGOAL' \in 0 .. frameNumber' /\ ballMissing' \in Nat
    BY <1>1 DEF Inv, TypeOK, BallFound
  <2> QED BY <1>1, <1>2, <1>5, <1>6, <2>1, <2>2, <2>3 DEF TypeOK
<1>8. NewestSighting'
  BY <1>1, <1>3, <1>4, <1>5 DEF NewestSighting, BallFound
<1>9. (shotFrame <= Newest)'
  BY <1>1, <1>4, <1>6
<1>10. GoalClock'
  BY <1>1, <1>4 DEF Inv, TypeOK, GoalClock, BallFound
<1> QED BY <1>1, <1>6, <1>7, <1>8, <1>9, <1>10 DEF Inv

\* The three outcomes of a frame without a ball, with the facts about the
\* messages that each of them sends.
LEMMA BallMissingCases ==
    ASSUME Inv, NEW reading \in Readings, BallMissing(reading)
    PROVE  /\ sent' \in Seq(Messages)
           /\ \/ /\ sendSAVE' = HeldSave /\ sent' = DueMessage
                 /\ lastGOAL' = lastGOAL
              \/ /\ ballMissing = MissGoal
                 /\ sendSAVE' = 0 /\ sent' = DueMessage
                 /\ lastGOAL' = lastGOAL
              \/ /\ ballMissing = MissGoal
                 /\ frameNumber + 1 - lastGOAL >= GoalGap
                 /\ sendSAVE' = 0 /\ lastGOAL' = frameNumber + 1
                 /\ SaveSent' => SaveDue
<1> DEFINE goal == isInGoal(balls[PrevSlot(ballCur)], field')
           scorer == getPlayerWhoScored(goal, field')
<1>1. DueMessage \in Seq(Messages) /\ Types(DueMessage) = IF SaveDue THEN {"SAVE"} ELSE {}
  BY HeldSaveStep
<1>2. /\ GoalMessage(goal) \in Seq(Messages)
      /\ Types(GoalMessage(goal)) \subseteq {"RG", "BG"}
  <2>1. CASE goal = 1
    BY <2>1, SayType DEF GoalMessage
  <2>2. CASE goal # 1
    BY <2>2, SayType DEF GoalMessage
  <2> QED BY <2>1, <2>2
<1>3. /\ ScoredBy(scorer) \in Seq(Messages)
      /\ Types(ScoredBy(scorer)) \subseteq {"SCOREDBY"}
  BY ScorerIsBar, ScoredByType
<1> DEFINE said == (DueMessage \o GoalMessage(goal)) \o ScoredBy(scorer)
<1>4. DueMessage \o GoalMessage(goal) \in Seq(Messages)
  BY <1>1, <1>2
<1>5. said \in Seq(Messages)
  BY <1>3, <1>4
<1>6. Types(said) = (Types(DueMessage) \cup Types(GoalMessage(goal)))
                    \cup Types(ScoredBy(scorer))
  BY <1>1, <1>2, <1>3, <1>4, TypesConcat
<1>7. "SAVE" \in Types(said) => SaveDue
  BY <1>1, <1>2, <1>3, <1>6
<1>8. \/ /\ sendSAVE' = HeldSave /\ sent' = DueMessage
         /\ lastGOAL' = lastGOAL
      \/ /\ ballMissing = MissGoal
         /\ sendSAVE' = 0 /\ sent' = DueMessage
         /\ lastGOAL' = lastGOAL
      \/ /\ ballMissing = MissGoal
         /\ frameNumber + 1 - lastGOAL >= GoalGap
         /\ sendSAVE' = 0 /\ lastGOAL' = frameNumber + 1
         /\ sent' = said
  BY DEF BallMissing, NoGoal, GoalTooSoon, GoalAnnounced, JustLost, Announcement
<1> QED BY <1>1, <1>5, <1>7, <1>8 DEF SaveSent, SentTypes, Types

\* A frame without a ball preserves the invariant.
LEMMA BallMissingInv ==
    ASSUME Inv, NEW reading \in Readings, BallMissing(reading)
    PROVE  Inv'
<1>1. /\ frameNumber' = frameNumber + 1 /\ frameNumber' \in 0 .. MaxFrame
      /\ field' \in Edges /\ StraddlesCentre(field')
  BY FrameStep DEF BallMissing
<1>2. /\ ballMissing' = ballMissing + 1 /\ ballMissing' \in Nat
      /\ UNCHANGED <<balls, ballFrames, ballCur, shotFrame>>
      /\ ballMissing \in Nat
  BY DEF Inv, TypeOK, BallMissing
<1>3. /\ frameNumber \in Nat /\ ballFrames \in [Slots -> 0 .. frameNumber]
      /\ lastGOAL \in 0 .. frameNumber /\ shotFrame \in 0 .. frameNumber
      /\ ballCur \in Slots
  BY DEF Inv, TypeOK
<1>4. Newest' = Newest /\ Newest \in 0 .. frameNumber
  BY <1>2, <1>3, RingStep DEF Newest
<1>5. /\ \/ lastGOAL' = lastGOAL
         \/ lastGOAL' = frameNumber + 1 /\ ballMissing = MissGoal
      /\ sendSAVE' = 0 \/ (sendSAVE' = HeldSave /\ lastGOAL' = lastGOAL)
      /\ sent' \in Seq(Messages)
  BY BallMissingCases
<1>6. sendSAVE' \in 0 .. SaveDelay
  BY <1>5, HeldSaveStep, TimingAssumption
<1>7. TypeOK'
  <2>1. ballFrames' \in [Slots -> 0 .. frameNumber']
    BY <1>1, <1>2, <1>3
  <2>2. lastGOAL' \in 0 .. frameNumber' /\ shotFrame' \in 0 .. frameNumber'
    BY <1>1, <1>2, <1>3, <1>5
  <2>3. balls' \in [Slots -> Points] /\ ballCur' \in Slots
    BY <1>2 DEF Inv, TypeOK
  <2> QED BY <1>1, <1>2, <1>5, <1>6, <2>1, <2>2, <2>3 DEF TypeOK
<1>8. NewestSighting'
  <2>1. InitMissing \in Nat /\ NewestSighting
    BY TimingAssumption DEF Inv
  <2> QED BY <1>1, <1>2, <1>3, <1>4, <2>1 DEF NewestSighting
<1>9. (shotFrame <= Newest)'
  BY <1>2, <1>4 DEF Inv
<1>10. SaveClock'
  <2>1. CASE sendSAVE' = 0
    BY <2>1 DEF SaveClock
  <2>2. CASE sendSAVE' = HeldSave /\ lastGOAL' = lastGOAL
    <3>1. SaveClock /\ sendSAVE \in 0 .. SaveDelay /\ SaveDelay \in Nat
      BY TimingAssumption DEF Inv, TypeOK
    <3>2. HeldSave \in 0 .. SaveDelay /\ (HeldSave > 0 => sendSAVE > 0 /\ HeldSave = sendSAVE + 1)
      BY HeldSaveStep
    <3> QED BY <1>1, <1>2, <1>3, <2>2, <3>1, <3>2 DEF SaveClock
  <2> QED BY <1>5, <2>1, <2>2
<1>11. GoalClock'
  <2>1. GoalClock /\ MissGoal \in Nat
    BY TimingAssumption DEF Inv
  <2> QED BY <1>2, <1>3, <1>4, <1>5, <2>1 DEF GoalClock
<1> QED BY <1>1, <1>7, <1>8, <1>9, <1>10, <1>11 DEF Inv

LEMMA NextInv == Inv /\ [Next]_vars => Inv'
<1> SUFFICES ASSUME Inv, [Next]_vars PROVE Inv'
  OBVIOUS
<1>1. ASSUME NEW reading \in Readings, NEW ball \in Positions, BallFound(reading, ball)
      PROVE  Inv'
  BY <1>1, BallFoundInv
<1>2. ASSUME NEW reading \in Readings, BallMissing(reading)
      PROVE  Inv'
  BY <1>2, BallMissingInv
<1>3. CASE UNCHANGED vars
  BY <1>3 DEF vars, Inv, TypeOK, StraddlesCentre, NewestSighting, Newest,
              SaveClock, GoalClock
<1> QED BY <1>1, <1>2, <1>3 DEF Next, analysis_update

\* The inductive invariant holds of every frame of every run.
THEOREM Invariance == Spec => []Inv
BY InitInv, NextInv, PTL DEF Spec

---------------------------------------------------------------------------
(* The properties.                                                         *)

\* Every variable keeps its type: in particular the ring is never indexed
\* outside its slots and sendSAVE never runs past SaveDelay.
THEOREM TypeCorrectness == Spec => []TypeOK
BY Invariance, PTL DEF Inv

\* The slot behind ballCur is the newest sighting and ballMissing its age.
THEOREM NewestSightingHolds == Spec => []NewestSighting
BY Invariance, PTL DEF Inv

\* A step that sends a SAVE has one that is due.
LEMMA SaveSentIsDue ==
    ASSUME Inv, Next, SaveSent'
    PROVE  SaveDue /\ frameNumber' = frameNumber + 1
<1>1. ASSUME NEW reading \in Readings, NEW ball \in Positions, BallFound(reading, ball)
      PROVE  SaveDue /\ frameNumber' = frameNumber + 1
  BY <1>1, HeldSaveStep DEF BallFound, NewFrame, SaveSent, SentTypes, Types
<1>2. ASSUME NEW reading \in Readings, BallMissing(reading)
      PROVE  SaveDue /\ frameNumber' = frameNumber + 1
  <2>1. frameNumber' = frameNumber + 1
    BY <1>2 DEF BallMissing, NewFrame
  <2>2. CASE sent' = DueMessage
    BY <2>1, <2>2, HeldSaveStep DEF SaveSent, SentTypes, Types
  <2>3. CASE SaveSent' => SaveDue
    BY <2>1, <2>3
  <2> QED BY <1>2, <2>2, <2>3, BallMissingCases
<1> QED BY <1>1, <1>2 DEF Next, analysis_update

\* A step that announces a goal does so on the frame after MissGoal missing
\* ones, at least GoalGap frames after the last.
LEMMA GoalSentStep ==
    ASSUME Inv, Next, GoalSent'
    PROVE  /\ ballMissing = MissGoal /\ frameNumber' = frameNumber + 1
           /\ frameNumber' - lastGOAL >= GoalGap
           /\ sendSAVE' = 0
<1>1. Types(DueMessage) \subseteq {"SAVE"}
  BY HeldSaveStep
<1>2. sent' # DueMessage
  BY <1>1 DEF GoalSent, SentTypes, Types
<1>3. ASSUME NEW reading \in Readings, NEW ball \in Positions, BallFound(reading, ball)
      PROVE  FALSE
  BY <1>2, <1>3 DEF BallFound
<1>4. ASSUME NEW reading \in Readings, BallMissing(reading)
      PROVE  /\ ballMissing = MissGoal /\ frameNumber' = frameNumber + 1
             /\ frameNumber' - lastGOAL >= GoalGap
             /\ sendSAVE' = 0
  <2>1. frameNumber' = frameNumber + 1
    BY <1>4 DEF BallMissing, NewFrame
  <2>2. /\ ballMissing = MissGoal /\ frameNumber + 1 - lastGOAL >= GoalGap
        /\ sendSAVE' = 0
    BY <1>2, <1>4, BallMissingCases
  <2>3. frameNumber \in Nat /\ lastGOAL \in Nat /\ GoalGap \in Nat
    BY TimingAssumption DEF Inv, TypeOK
  <2> QED BY <2>1, <2>2, <2>3
<1> QED BY <1>3, <1>4 DEF Next, analysis_update

\* A goal of a field that straddles the centre is on its own side of the centre.
LEMMA GoalSide ==
    ASSUME NEW f \in Edges, StraddlesCentre(f), NEW p \in Points, isInGoal(p, f) # 0
    PROVE  /\ isInGoal(p, f) \in {1, 2}
           /\ IF isInGoal(p, f) = 1 THEN p.x < 0 ELSE p.x > 0
<1>1. /\ p.x \in Int /\ f.xmin \in Int /\ f.xmax \in Int /\ GoalWidth \in Int
      /\ f.xmin + GoalWidth < 0 /\ 0 < f.xmax - GoalWidth
  BY GeometryAssumption DEF Edges, Points, StraddlesCentre
<1>2. CASE InLeftGoal(p, f)
  <2>1. isInGoal(p, f) = 1 /\ p.x < f.xmin + GoalWidth
    BY <1>2 DEF isInGoal, InLeftGoal
  <2> QED BY <1>1, <2>1
<1>3. CASE ~InLeftGoal(p, f) /\ InRightGoal(p, f)
  <2>1. isInGoal(p, f) = 2 /\ p.x > f.xmax - GoalWidth
    BY <1>3 DEF isInGoal, InRightGoal
  <2> QED BY <1>1, <2>1
<1> QED BY <1>2, <1>3 DEF isInGoal

\* A frame without a ball that announces a goal names the one the newest sighting
\* lies in, by the field of this frame.
LEMMA AnnouncedGoal ==
    ASSUME Inv, NEW reading \in Readings, BallMissing(reading), GoalSent'
    PROVE  LET goal == isInGoal(balls[PrevSlot(ballCur)], field')
           IN  goal # 0 /\ ("RG" \in SentTypes' <=> goal = 1)
<1> DEFINE goal == isInGoal(balls[PrevSlot(ballCur)], field')
           scorer == getPlayerWhoScored(goal, field')
<1>1. DueMessage \in Seq(Messages) /\ Types(DueMessage) \subseteq {"SAVE"}
  BY HeldSaveStep
<1>2. sent' # DueMessage
  BY <1>1 DEF GoalSent, SentTypes, Types
<1>3. goal # 0 /\ sent' = (DueMessage \o GoalMessage(goal)) \o ScoredBy(scorer)
  BY <1>2 DEF BallMissing, NoGoal, GoalTooSoon, GoalAnnounced, Announcement
<1>4. /\ GoalMessage(goal) \in Seq(Messages)
      /\ Types(GoalMessage(goal)) = {IF goal = 1 THEN "RG" ELSE "BG"}
  <2>1. CASE goal = 1
    BY <2>1, SayType DEF GoalMessage
  <2>2. CASE goal # 1
    BY <2>2, SayType DEF GoalMessage
  <2> QED BY <2>1, <2>2
<1>5. /\ ScoredBy(scorer) \in Seq(Messages)
      /\ Types(ScoredBy(scorer)) \subseteq {"SCOREDBY"}
  BY ScorerIsBar, ScoredByType
<1>6. DueMessage \o GoalMessage(goal) \in Seq(Messages)
  BY <1>1, <1>4
<1>7. Types(sent') = (Types(DueMessage) \cup Types(GoalMessage(goal)))
                     \cup Types(ScoredBy(scorer))
  BY <1>1, <1>3, <1>4, <1>5, <1>6, TypesConcat
<1>8. "RG" \in Types(sent') <=> goal = 1
  BY <1>1, <1>4, <1>5, <1>7
<1> QED BY <1>3, <1>8 DEF SentTypes, Types

\* A goal is announced for the side on which the ball was seen last, whatever the
\* field has drifted to since (BallAnalysis.c:61-74, 199-211).
THEOREM GoalsAreOnBallsSide == Spec => GoalOnBallsSide
<1>1. ASSUME Inv, [Next]_vars
      PROVE  [GoalSent' => \E p \in SeenLast : IF "RG" \in SentTypes' THEN p.x < 0
                                                              ELSE p.x > 0]_vars
  <2> SUFFICES ASSUME Next, GoalSent'
               PROVE  \E p \in SeenLast : IF "RG" \in SentTypes' THEN p.x < 0 ELSE p.x > 0
    BY <1>1
  <2> DEFINE ball == balls[PrevSlot(ballCur)]
  <2>1. PICK reading \in Readings : BallMissing(reading)
    <3>1. ASSUME NEW reading \in Readings, NEW b \in Positions, BallFound(reading, b)
          PROVE  FALSE
      <4>1. sent' = DueMessage
        BY <3>1 DEF BallFound
      <4> QED BY <1>1, <4>1, HeldSaveStep DEF GoalSent, SentTypes, Types
    <3> QED BY <3>1 DEF Next, analysis_update
  <2>2. PrevSlot(ballCur) \in Slots /\ ball \in Points
    BY <1>1, RingStep DEF Inv, TypeOK
  <2>3. ball \in SeenLast
    BY <1>1, <2>2 DEF Inv, NewestSighting, Newest, SeenLast
  <2>4. field' \in Edges /\ StraddlesCentre(field')
    BY <1>1, <2>1, FrameStep DEF BallMissing
  <2>5. isInGoal(ball, field') # 0 /\ ("RG" \in SentTypes' <=> isInGoal(ball, field') = 1)
    BY <1>1, <2>1, AnnouncedGoal
  <2>6. IF isInGoal(ball, field') = 1 THEN ball.x < 0 ELSE ball.x > 0
    BY <2>2, <2>4, <2>5, GoalSide
  <2>7. IF "RG" \in SentTypes' THEN ball.x < 0 ELSE ball.x > 0
    BY <2>5, <2>6
  <2> QED BY <2>3, <2>7
<1> QED BY <1>1, Invariance, PTL DEF Spec, GoalOnBallsSide

\* A SAVE goes out SaveDelay frames after its shot, with no goal in between.
THEOREM SavesOnTime == Spec => SaveOnTime
<1>1. ASSUME Inv, [Next]_vars
      PROVE  [SaveSent' => /\ frameNumber' = shotFrame + SaveDelay
                           /\ lastGOAL < shotFrame]_vars
  <2>1. SUFFICES ASSUME Next, SaveSent'
                 PROVE  frameNumber' = shotFrame + SaveDelay /\ lastGOAL < shotFrame
    BY <1>1 DEF vars
  <2>2. sendSAVE = SaveDelay /\ frameNumber' = frameNumber + 1
    BY <1>1, <2>1, SaveSentIsDue DEF SaveDue
  <2>3. SaveDelay \in Nat /\ SaveDelay > 0 /\ frameNumber \in Nat /\ shotFrame \in Nat
    BY <1>1, TimingAssumption DEF Inv, TypeOK
  <2>4. SaveClock
    BY <1>1 DEF Inv
  <2> QED BY <2>2, <2>3, <2>4 DEF SaveClock
<1> QED BY <1>1, Invariance, PTL DEF Spec, SaveOnTime

\* The newest sighting is later than the last goal when a goal is announced.
LEMMA GoalAfterSighting ==
    ASSUME Inv, Next, GoalSent'
    PROVE  /\ Newest > lastGOAL /\ Newest \in Nat
           /\ frameNumber' = Newest + MissGoal + 1
<1>1. ballMissing = MissGoal /\ frameNumber' = frameNumber + 1
  BY GoalSentStep
<1>2. MissGoal \in Nat /\ InitMissing \in Nat /\ MissGoal < InitMissing
  BY TimingAssumption
<1>3. frameNumber \in Nat /\ lastGOAL \in 0 .. frameNumber /\ Newest \in 0 .. frameNumber
  BY RingStep DEF Inv, TypeOK, Newest
<1>4. NewestSighting /\ GoalClock
  BY DEF Inv
<1> QED BY <1>1, <1>2, <1>3, <1>4 DEF NewestSighting, GoalClock

\* One lost ball is announced as at most one goal, and goals keep their gap.
THEOREM OneGoalPerLoss == Spec => OneGoalPerLostBall
<1>1. ASSUME Inv, [Next]_vars
      PROVE  [GoalSent' => /\ Newest > lastGOAL
                           /\ frameNumber' - lastGOAL >= GoalGap]_vars
  <2>1. SUFFICES ASSUME Next, GoalSent'
                 PROVE  Newest > lastGOAL /\ frameNumber' - lastGOAL >= GoalGap
    BY <1>1 DEF vars
  <2> QED BY <1>1, <2>1, GoalAfterSighting, GoalSentStep
<1> QED BY <1>1, Invariance, PTL DEF Spec, OneGoalPerLostBall

\* A shot that ends in the goal is not also announced as a save.
THEOREM ShotInGoalIsNoSave == Spec => ShotThenGoalIsNoSave
<1>1. ASSUME Inv, [Next]_vars
      PROVE  [GoalSent' /\ Newest = shotFrame
                => frameNumber' < shotFrame + SaveDelay /\ sendSAVE' = 0]_vars
  <2>1. SUFFICES ASSUME Next, GoalSent', Newest = shotFrame
                 PROVE  frameNumber' < shotFrame + SaveDelay /\ sendSAVE' = 0
    BY <1>1 DEF vars
  <2>2. /\ SaveDelay \in Nat /\ MissGoal \in Nat /\ MissGoal + 1 < SaveDelay
    BY TimingAssumption
  <2> QED BY <1>1, <2>1, <2>2, GoalAfterSighting, GoalSentStep
<1> QED BY <1>1, Invariance, PTL DEF Spec, ShotThenGoalIsNoSave

---------------------------------------------------------------------------
(* Induction: the least element of a set of naturals.                      *)

NatLess == {p \in Nat \X Nat : p[1] < p[2]}

\* Every set of naturals that is not empty has a least element.
LEMMA LeastNatural ==
    ASSUME NEW T \in SUBSET Nat, T # {}
    PROVE  \E m \in T : \A n \in T : m <= n
<1>1. NatLess = OpToRel(<, Nat)
  BY Zenon DEF OpToRel, NatLess
<1>2. IsWellFoundedOn(NatLess, Nat)
  BY Zenon, <1>1, NatLessThanWellFounded
<1>3. PICK m \in T : \A n \in T : ~(<<n, m>> \in NatLess)
  BY <1>2, WFMin
<1>4. \A n \in T : <<n, m>> \in Nat \X Nat /\ ~(n < m)
  BY <1>3 DEF NatLess
<1>5. ASSUME NEW n \in T PROVE m <= n
  <2>1. m \in Nat /\ n \in Nat /\ ~(n < m)
    BY <1>4
  <2> QED BY <2>1
<1> QED BY <1>5

\* A set that holds 0, and with each number up to n the next, holds all of them.
LEMMA UpTo ==
    ASSUME NEW N \in Nat, NEW T, 0 \in T, \A n \in 0 .. N - 1 : n \in T => n + 1 \in T
    PROVE  0 .. N \subseteq T
<1> SUFFICES ASSUME (0 .. N) \ T # {} PROVE FALSE
  OBVIOUS
<1>1. PICK m \in (0 .. N) \ T : \A n \in (0 .. N) \ T : m <= n
  <2>1. (0 .. N) \ T \in SUBSET Nat
    OBVIOUS
  <2> QED BY <2>1, LeastNatural
<1>2. m # 0 /\ m - 1 \in 0 .. N - 1 /\ m - 1 \in 0 .. N /\ ~(m <= m - 1)
  BY <1>1
<1>3. m - 1 \in T /\ (m - 1) + 1 = m
  BY <1>1, <1>2
<1> QED BY <1>1, <1>2, <1>3

---------------------------------------------------------------------------
(* The walk back through the sightings, and the possession it stops at.    *)
(* b[k] is the bar of the sighting k steps back.                           *)

\* One step of the walk: what it has seen, and the next bar.
Passed(seen, bar, side) ==
    IF seen.hits = playerBarFrameThreshold \/ barTeams[bar] = side
    THEN seen
    ELSE [player |-> bar, hits |-> IF bar = seen.player THEN seen.hits + 1 ELSE 1]

Unseen == [player |-> 0, hits |-> 0]

\* w is a walk of n steps.
IsWalk(w, n, b, side) ==
    w = [k \in 0 .. n |-> IF k = 0 THEN Unseen ELSE Passed(w[k - 1], b[k], side)]

\* p's sightings since another bar that counts.
Trail(p, k, b, side) ==
    {m \in 1 .. k : b[m] = p /\ \A x \in m .. k : b[x] = p \/ barTeams[b[x]] = side}

\* A possession of p in the steps i .. j back.
Has(p, i, j, b, side) ==
    LET Held == {k \in i .. j : b[k] = p}
    IN  /\ \A k \in i .. j : k \in Held \/ barTeams[b[k]] = side
        /\ Cardinality(Held) = playerBarFrameThreshold
        /\ j \in Held /\ barTeams[p] # side

\* A possession is complete j steps back.
Ends(j, b, side) == \E i \in 1 .. j, p \in Bars : Has(p, i, j, b, side)

\* The walk is still looking after k steps: it counts the one trail there is,
\* and has passed the end of no possession.
Looking(seen, k, b, side) ==
    /\ seen.hits \in 0 .. playerBarFrameThreshold - 1
    /\ seen.player \in Bars /\ barTeams[seen.player] # side
    /\ IsFiniteSet(Trail(seen.player, k, b, side))
    /\ Cardinality(Trail(seen.player, k, b, side)) = seen.hits
    /\ \A p \in Bars : p # seen.player /\ barTeams[p] # side => Trail(p, k, b, side) = {}
    /\ \A j \in 1 .. k : ~Ends(j, b, side)

\* The walk has found the first end of a possession.
Found(seen, k, b, side) ==
    /\ seen.hits = playerBarFrameThreshold /\ seen.player \in Bars
    /\ \E j \in 1 .. k : /\ \E i \in 1 .. j : Has(seen.player, i, j, b, side)
                         /\ \A h \in 1 .. j - 1 : ~Ends(h, b, side)

\* There is a walk of any number of steps, whatever bars it passes.
LEMMA WalkExists ==
    ASSUME NEW N \in Nat, NEW b, NEW side
    PROVE  \E w : IsWalk(w, N, b, side)
<1> DEFINE T == {n \in 0 .. N : \E w : IsWalk(w, n, b, side)}
<1>1. 0 \in T
  <2> DEFINE w == [k \in 0 .. 0 |-> Unseen]
  <2>1. \A k \in 0 .. 0 : k = 0
    OBVIOUS
  <2>2. IsWalk(w, 0, b, side)
    BY <2>1 DEF IsWalk
  <2>3. 0 \in 0 .. N
    OBVIOUS
  <2> QED BY <2>2, <2>3
<1>2. ASSUME NEW n \in 0 .. N - 1, n \in T PROVE n + 1 \in T
  <2>1. PICK w : IsWalk(w, n, b, side)
    BY <1>2
  <2> DEFINE v == [k \in 0 .. n + 1 |-> IF k = 0 THEN Unseen ELSE Passed(w[k - 1], b[k], side)]
  <2>2. \A k \in 0 .. n : w[k] = IF k = 0 THEN Unseen ELSE Passed(w[k - 1], b[k], side)
    BY <2>1 DEF IsWalk
  <2>3. \A k \in 0 .. n : k \in 0 .. n + 1
    OBVIOUS
  <2>4. \A k \in 0 .. n : v[k] = w[k]
    BY <2>2, <2>3
  <2>5. \A k \in 0 .. n + 1 : k # 0 => k - 1 \in 0 .. n
    OBVIOUS
  <2>6. \A k \in 0 .. n + 1 : k # 0 => v[k - 1] = w[k - 1]
    BY <2>4, <2>5
  <2> HIDE DEF v
  <2>7. v = [k \in 0 .. n + 1 |-> IF k = 0 THEN Unseen ELSE Passed(v[k - 1], b[k], side)]
    BY <2>6 DEF v
  <2>8. IsWalk(v, n + 1, b, side)
    BY <2>7 DEF IsWalk
  <2>9. n + 1 \in 0 .. N
    OBVIOUS
  <2> QED BY <2>8, <2>9
<1>3. 0 .. N \subseteq T
  <2> HIDE DEF T
  <2> QED BY <1>1, <1>2, UpTo
<1>4. N \in 0 .. N
  OBVIOUS
<1> QED BY <1>3, <1>4

\* How a trail goes on: it passes the side's own bars, grows by the player's
\* and ends at any other.
LEMMA TrailGoesOn ==
    ASSUME NEW k \in Nat, NEW b, NEW side, NEW p
    PROVE  /\ barTeams[b[k + 1]] = side /\ barTeams[p] # side
                 => Trail(p, k + 1, b, side) = Trail(p, k, b, side)
           /\ b[k + 1] = p => Trail(p, k + 1, b, side) = Trail(p, k, b, side) \cup {k + 1}
           /\ b[k + 1] # p /\ barTeams[b[k + 1]] # side => Trail(p, k + 1, b, side) = {}
<1> DEFINE Same(x) == b[x] = p \/ barTeams[b[x]] = side
<1>1. \A m \in 1 .. k + 1 : m \in 1 .. k \/ m = k + 1
  OBVIOUS
<1>2. \A m \in 1 .. k : m \in 1 .. k + 1
  OBVIOUS
<1>3. \A m \in 1 .. k + 1 : \A x \in m .. k + 1 : x \in m .. k \/ x = k + 1
  OBVIOUS
<1>4. \A m \in 1 .. k + 1 : k + 1 \in m .. k + 1 /\ \A x \in m .. k : x \in m .. k + 1
  OBVIOUS
<1>5. \A m \in 1 .. k + 1 : (\A x \in m .. k + 1 : Same(x)) <=> Same(k + 1) /\ \A x \in m .. k : Same(x)
  <2> HIDE DEF Same
  <2> QED BY <1>3, <1>4
<1>6. k + 1 \in 1 .. k + 1 /\ (k + 1) .. k = {}
  OBVIOUS
<1>7. CASE barTeams[b[k + 1]] = side /\ barTeams[p] # side
  BY <1>1, <1>2, <1>5, <1>7 DEF Trail
<1>8. CASE b[k + 1] = p
  BY <1>1, <1>2, <1>5, <1>6, <1>8 DEF Trail
<1>9. CASE b[k + 1] # p /\ barTeams[b[k + 1]] # side
  BY <1>5, <1>9 DEF Trail
<1> QED BY <1>7, <1>8, <1>9

\* A possession is part of its player's trail.
LEMMA PossessionInTrail ==
    ASSUME NEW j \in Nat, NEW i \in 1 .. j, NEW b, NEW side, NEW p, Has(p, i, j, b, side),
           IsFiniteSet(Trail(p, j, b, side))
    PROVE  playerBarFrameThreshold <= Cardinality(Trail(p, j, b, side))
<1> DEFINE Held == {k \in i .. j : b[k] = p}
<1>1. \A k \in i .. j : k \in 1 .. j /\ \A x \in k .. j : x \in i .. j
  OBVIOUS
<1>2. \A k \in i .. j : b[k] = p \/ barTeams[b[k]] = side
  BY DEF Has
<1>3. Held \subseteq Trail(p, j, b, side)
  BY <1>1, <1>2 DEF Trail
<1>4. Cardinality(Held) = playerBarFrameThreshold
  BY DEF Has
<1> QED BY <1>3, <1>4, FS_Subset

\* A trail that is long enough is a possession.
LEMMA TrailIsPossession ==
    ASSUME NEW j \in Nat \ {0}, NEW b, NEW side, NEW p \in Bars, b[j] = p, barTeams[p] # side,
           Cardinality(Trail(p, j, b, side)) = playerBarFrameThreshold
    PROVE  \E i \in 1 .. j : Has(p, i, j, b, side)
<1>1. j \in 1 .. j /\ \A x \in j .. j : x = j
  OBVIOUS
<1>2. j \in Trail(p, j, b, side) /\ Trail(p, j, b, side) \subseteq 1 .. j
  BY <1>1 DEF Trail
<1>3. PICK i \in Trail(p, j, b, side) : \A n \in Trail(p, j, b, side) : i <= n
  <2>1. Trail(p, j, b, side) \in SUBSET Nat
    BY <1>2
  <2> QED BY <1>2, <2>1, LeastNatural
<1>4. i \in 1 .. j /\ \A x \in i .. j : b[x] = p \/ barTeams[b[x]] = side
  BY <1>3 DEF Trail
<1> DEFINE Held == {k \in i .. j : b[k] = p}
<1>5. \A k \in i .. j : k \in 1 .. j /\ \A x \in k .. j : x \in i .. j
  BY <1>4
<1>6. \A n \in Trail(p, j, b, side) : n \in i .. j
  BY <1>2, <1>3, <1>4
<1>7. Held = Trail(p, j, b, side)
  <2>1. Held \subseteq Trail(p, j, b, side)
    BY <1>4, <1>5 DEF Trail
  <2>2. Trail(p, j, b, side) \subseteq Held
    BY <1>6 DEF Trail
  <2> QED BY <2>1, <2>2
<1>8. \A k \in i .. j : k \in Held \/ barTeams[b[k]] = side
  BY <1>4
<1>9. Has(p, i, j, b, side)
  BY <1>2, <1>7, <1>8 DEF Has
<1> QED BY <1>4, <1>9

\* A walk that is still looking goes on looking or has found the end.
LEMMA LookingStep ==
    ASSUME NEW k \in Nat, NEW side, NEW b, b[k + 1] \in Bars, NEW seen, Looking(seen, k, b, side)
    PROVE  LET next == Passed(seen, b[k + 1], side)
           IN  Looking(next, k + 1, b, side) \/ Found(next, k + 1, b, side)
<1> DEFINE bar == b[k + 1]
           next == Passed(seen, bar, side)
           before == Trail(seen.player, k, b, side)
<1>0. playerBarFrameThreshold \in Nat \ {0}
  BY TimingAssumption
<1>1. seen.hits \in Nat /\ seen.hits < playerBarFrameThreshold
  BY <1>0 DEF Looking
<1>2. \A j \in 1 .. k : ~Ends(j, b, side)
  BY DEF Looking
<1>3. \A j \in 1 .. k + 1 : j \in 1 .. k \/ j = k + 1
  OBVIOUS
<1>4. \A p \in Bars : Ends(k + 1, b, side) /\ p = bar
         => barTeams[p] # side /\ \E i \in 1 .. k + 1 : Has(p, i, k + 1, b, side)
  BY DEF Ends, Has
<1>5. CASE barTeams[bar] = side
  <2>1. next = seen
    BY <1>5 DEF Passed
  <2>2. \A p \in Bars : barTeams[p] # side => Trail(p, k + 1, b, side) = Trail(p, k, b, side)
    BY <1>5, TrailGoesOn
  <2>3. ~Ends(k + 1, b, side)
    BY <1>4, <1>5
  <2>4. \A j \in 1 .. k + 1 : ~Ends(j, b, side)
    BY <1>2, <1>3, <2>3
  <2>5. Looking(seen, k + 1, b, side)
    BY <2>2, <2>4 DEF Looking
  <2> QED BY <2>1, <2>5
<1>6. CASE barTeams[bar] # side
  <2> DEFINE now == Trail(bar, k + 1, b, side)
  <2>1. next = [player |-> bar, hits |-> IF bar = seen.player THEN seen.hits + 1 ELSE 1]
    BY <1>1, <1>6 DEF Passed
  <2>2. next.player = bar /\ next.hits = IF bar = seen.player THEN seen.hits + 1 ELSE 1
    BY <2>1
  <2>3. now = Trail(bar, k, b, side) \cup {k + 1} /\ k + 1 \notin Trail(bar, k, b, side)
    <3>1. k + 1 \notin 1 .. k
      OBVIOUS
    <3> QED BY <3>1, TrailGoesOn DEF Trail
  <2>4. IsFiniteSet(now) /\ Cardinality(now) = next.hits
    <3>1. CASE bar = seen.player
      <4>1. IsFiniteSet(before) /\ Cardinality(before) = seen.hits /\ k + 1 \notin before
        BY <2>3, <3>1 DEF Looking
      <4>2. IsFiniteSet(before \cup {k + 1}) /\ Cardinality(before \cup {k + 1}) = seen.hits + 1
        BY <4>1, FS_AddElement
      <4> QED BY <2>2, <2>3, <3>1, <4>2
    <3>2. CASE bar # seen.player
      <4>1. Trail(bar, k, b, side) = {}
        BY <1>6, <3>2 DEF Looking
      <4>2. IsFiniteSet({k + 1}) /\ Cardinality({k + 1}) = 1
        BY FS_Singleton
      <4>3. now = {k + 1}
        BY <2>3, <4>1
      <4> QED BY <2>2, <3>2, <4>2, <4>3
    <3> QED BY <3>1, <3>2
  <2>5. next.hits \in 0 .. playerBarFrameThreshold
    BY <1>0, <1>1, <2>2
  <2>6. CASE next.hits = playerBarFrameThreshold
    <3>1. \E i \in 1 .. k + 1 : Has(bar, i, k + 1, b, side)
      <4>1. k + 1 \in Nat \ {0}
        OBVIOUS
      <4> QED BY <1>6, <2>4, <2>6, <4>1, TrailIsPossession
    <3>2. k + 1 \in 1 .. k + 1 /\ \A h \in 1 .. (k + 1) - 1 : h \in 1 .. k
      OBVIOUS
    <3>3. Found(next, k + 1, b, side)
      BY <1>2, <2>2, <2>6, <3>1, <3>2 DEF Found
    <3> QED BY <3>3
  <2>7. CASE next.hits # playerBarFrameThreshold
    <3>1. next.hits < playerBarFrameThreshold /\ next.hits \in 0 .. playerBarFrameThreshold - 1
      BY <1>0, <2>5, <2>7
    <3>2. ~Ends(k + 1, b, side)
      <4> SUFFICES ASSUME NEW i \in 1 .. k + 1, Has(bar, i, k + 1, b, side) PROVE FALSE
        BY <1>4
      <4>1. playerBarFrameThreshold <= Cardinality(now)
        <5>1. k + 1 \in Nat
          OBVIOUS
        <5> QED BY <2>4, <5>1, PossessionInTrail
      <4> QED BY <1>0, <2>4, <2>5, <3>1, <4>1
    <3>3. \A j \in 1 .. k + 1 : ~Ends(j, b, side)
      BY <1>2, <1>3, <3>2
    <3>4. \A p \in Bars : p # bar => Trail(p, k + 1, b, side) = {}
      BY <1>6, TrailGoesOn
    <3>5. Looking(next, k + 1, b, side)
      BY <1>6, <2>2, <2>4, <3>1, <3>3, <3>4 DEF Looking
    <3> QED BY <3>5
  <2> QED BY <2>6, <2>7
<1> QED BY <1>5, <1>6

\* What the walk has found it keeps.
LEMMA FoundStep ==
    ASSUME NEW k \in Nat, NEW side, NEW b, NEW seen, Found(seen, k, b, side)
    PROVE  Found(Passed(seen, b[k + 1], side), k + 1, b, side)
<1>1. Passed(seen, b[k + 1], side) = seen
  BY DEF Found, Passed
<1>2. \A j \in 1 .. k : j \in 1 .. k + 1
  OBVIOUS
<1>3. Found(seen, k + 1, b, side)
  BY <1>2 DEF Found
<1> QED BY <1>1, <1>3

\* After any number of steps a walk is still looking or has found the end of
\* the first possession.
LEMMA WalkFinds ==
    ASSUME NEW N \in Nat, NEW side \in Sides, NEW b \in [1 .. N -> Bars], NEW w,
           IsWalk(w, N, b, side)
    PROVE  Looking(w[N], N, b, side) \/ Found(w[N], N, b, side)
<1> DEFINE T == {n \in 0 .. N : Looking(w[n], n, b, side) \/ Found(w[n], n, b, side)}
<1>1. \A n \in 0 .. N : w[n] = IF n = 0 THEN Unseen ELSE Passed(w[n - 1], b[n], side)
  BY DEF IsWalk
<1>2. 0 \in T
  <2>1. w[0] = Unseen /\ 0 \in 0 .. N
    BY <1>1
  <2>2. \A p : Trail(p, 0, b, side) = {}
    <3>1. 1 .. 0 = {}
      OBVIOUS
    <3> QED BY <3>1 DEF Trail
  <2>3. 0 \in Bars /\ barTeams[0] # side
    BY DEF Bars, barTeams, Sides
  <2>4. 0 \in 0 .. playerBarFrameThreshold - 1 /\ \A j \in 1 .. 0 : FALSE
    BY TimingAssumption
  <2>5. IsFiniteSet({}) /\ Cardinality({}) = 0
    BY FS_EmptySet
  <2>6. Looking(Unseen, 0, b, side)
    BY <2>2, <2>3, <2>4, <2>5 DEF Looking, Unseen
  <2> QED BY <2>1, <2>6
<1>3. ASSUME NEW n \in 0 .. N - 1, n \in T PROVE n + 1 \in T
  <2>1. n \in Nat /\ n + 1 \in 0 .. N /\ n + 1 \in 1 .. N /\ (n + 1) - 1 = n
    OBVIOUS
  <2>2. w[n + 1] = Passed(w[n], b[n + 1], side) /\ b[n + 1] \in Bars
    BY <1>1, <2>1
  <2>3. CASE Looking(w[n], n, b, side)
    BY <2>1, <2>2, <2>3, LookingStep
  <2>4. CASE Found(w[n], n, b, side)
    BY <2>1, <2>2, <2>4, FoundStep
  <2> QED BY <1>3, <2>3, <2>4
<1>4. 0 .. N \subseteq T
  <2> HIDE DEF T
  <2> QED BY <1>2, <1>3, UpTo
<1>5. N \in 0 .. N
  OBVIOUS
<1> QED BY <1>4, <1>5

---------------------------------------------------------------------------
(* The player who scored.                                                  *)

\* The eight bars share the field between its edges.
LEMMA BarOnField ==
    ASSUME NEW p \in Points, NEW f \in Edges
    PROVE  getPlayerBar(p, f) \in Bars
<1> DEFINE a == p.x - f.xmin
           w == f.xmax - f.xmin
<1>1. a \in Int /\ w \in Int
  BY DEF Points, Edges
<1>2. CASE p.x < f.xmin \/ p.x >= f.xmax
  BY <1>2 DEF getPlayerBar, Bars
<1>3. CASE ~(p.x < f.xmin \/ p.x >= f.xmax)
  <2>1. 0 <= a /\ a < w
    BY <1>3 DEF Points, Edges
  <2>2. (8 * a) \div w \in 0 .. 7
    <3> DEFINE q == (8 * a) \div w
    <3> HIDE DEF a, w
    <3>1. q \in Int /\ w * q <= 8 * a /\ 8 * a < w * q + w
      BY <1>1, <2>1
    <3>2. ~(q < 0)
      <4> HIDE DEF q
      <4> SUFFICES ASSUME q <= -1 PROVE FALSE
        BY <3>1
      <4>1. w * q <= -w
        BY <1>1, <2>1, <3>1
      <4> QED BY <1>1, <2>1, <3>1, <4>1
    <3>3. ~(q > 7)
      <4> HIDE DEF q
      <4> SUFFICES ASSUME q >= 8 PROVE FALSE
        BY <3>1
      <4>1. w * q >= w * 8
        BY <1>1, <2>1, <3>1
      <4> QED BY <1>1, <2>1, <3>1, <4>1
    <3> HIDE DEF q
    <3>4. q \in 0 .. 7
      BY <3>1, <3>2, <3>3
    <3> QED BY <3>4 DEF q
  <2>3. 1 + (8 * a) \div w \in Bars
    BY <2>2 DEF Bars
  <2> QED BY <1>3, <2>3 DEF getPlayerBar
<1> QED BY <1>2, <1>3

\* The slots a walk visits are slots of the ring.
LEMMA BackInRing ==
    ASSUME NEW i \in Slots, NEW k \in 1 .. Lookback PROVE Back(i, k) \in Slots
BY TimingAssumption DEF Slots, Back

\* The bar of the sighting k steps back.
BarBack == [k \in 1 .. Lookback |-> getPlayerBar(balls[Back(ballCur, k)], field)]

LEMMA BarBackType == TypeOK => BarBack \in [1 .. Lookback -> Bars]
<1> SUFFICES ASSUME TypeOK, NEW k \in 1 .. Lookback
             PROVE  getPlayerBar(balls[Back(ballCur, k)], field) \in Bars
  BY DEF BarBack
<1>1. balls[Back(ballCur, k)] \in Points /\ field \in Edges
  BY BackInRing DEF TypeOK
<1> QED BY <1>1, BarOnField

\* The code's walk is a walk over these bars.
LEMMA WalkIsWalk ==
    ASSUME NEW side
    PROVE  \E w : IsWalk(w, Lookback, BarBack, side) /\ PossessionWalk(side, field) = w[Lookback]
<1> DEFINE bar(k) == getPlayerBar(balls[Back(ballCur, k)], field)
           Step(v) == [k \in 0 .. Lookback |->
                         IF k = 0 THEN [player |-> 0, hits |-> 0]
                         ELSE IF \/ v[k - 1].hits = playerBarFrameThreshold
                                 \/ barTeams[bar(k)] = side
                              THEN v[k - 1]
                              ELSE [player |-> bar(k),
                                    hits   |-> IF bar(k) = v[k - 1].player
                                               THEN v[k - 1].hits + 1 ELSE 1]]
           walk == CHOOSE v : v = Step(v)
<1>1. PossessionWalk(side, field) = walk[Lookback]
  BY DEF PossessionWalk
<1>2. ASSUME NEW v PROVE IsWalk(v, Lookback, BarBack, side) <=> v = Step(v)
  <2>1. \A k \in 0 .. Lookback : k # 0 => k \in 1 .. Lookback
    BY TimingAssumption
  <2>2. \A k \in 0 .. Lookback : k # 0 => BarBack[k] = bar(k)
    BY <2>1 DEF BarBack
  <2>3. [k \in 0 .. Lookback |-> IF k = 0 THEN Unseen ELSE Passed(v[k - 1], BarBack[k], side)]
           = Step(v)
    BY <2>2 DEF Unseen, Passed
  <2> QED BY <2>3 DEF IsWalk
<1>3. \E v : v = Step(v)
  <2>1. Lookback \in Nat
    BY TimingAssumption
  <2> QED BY <1>2, <2>1, WalkExists
<1>4. walk = Step(walk)
  <2> HIDE DEF Step
  <2> QED BY <1>3
<1>5. IsWalk(walk, Lookback, BarBack, side)
  BY <1>2, <1>4
<1> QED BY <1>1, <1>5

\* The player the walk names is the one the history names.
NamesScorer == \A side \in Sides : getPlayerWhoScored(side, field) = Scorer(side)

LEMMA WalkNamesScorer == TypeOK => NamesScorer
<1> SUFFICES ASSUME TypeOK, NEW side \in Sides
             PROVE  getPlayerWhoScored(side, field) = Scorer(side)
  BY DEF NamesScorer
<1> DEFINE b == BarBack
           ends == {j \in 1 .. Lookback :
                      \E i \in 1 .. j, p \in Bars : Possession(p, side, i, j)}
           last == PossessionWalk(side, field)
<1>0. Lookback \in Nat /\ playerBarFrameThreshold \in Nat \ {0}
  BY TimingAssumption
<1>1. ASSUME NEW j \in 1 .. Lookback, NEW i \in 1 .. j, NEW p
      PROVE  Possession(p, side, i, j) <=> Has(p, i, j, b, side)
  <2>1. \A k \in i .. j : k \in 1 .. Lookback
    BY <1>0
  <2>2. \A k \in i .. j : b[k] = getPlayerBar(balls[Back(ballCur, k)], field)
    BY <2>1 DEF BarBack
  <2>3. {k \in i .. j : getPlayerBar(balls[Back(ballCur, k)], field) = p} = {k \in i .. j : b[k] = p}
    BY <2>2
  <2> QED BY <2>2, <2>3 DEF Possession, Has
<1>2. \A j \in 1 .. Lookback : j \in ends <=> Ends(j, b, side)
  BY <1>1 DEF Ends
<1>3. Looking(last, Lookback, b, side) \/ Found(last, Lookback, b, side)
  BY <1>0, BarBackType, WalkIsWalk, WalkFinds
<1> HIDE DEF b, last
<1>4. CASE Looking(last, Lookback, b, side)
  <2>1. ends = {}
    BY <1>2, <1>4 DEF Looking
  <2>2. Scorer(side) = 0
    BY <2>1 DEF Scorer
  <2>3. last.hits # playerBarFrameThreshold
    BY <1>0, <1>4 DEF Looking
  <2> QED BY <2>2, <2>3 DEF getPlayerWhoScored, last
<1>5. CASE Found(last, Lookback, b, side)
  <2>1. PICK j \in 1 .. Lookback : /\ \E i \in 1 .. j : Has(last.player, i, j, b, side)
                                   /\ \A h \in 1 .. j - 1 : ~Ends(h, b, side)
    BY <1>5 DEF Found
  <2>2. last.hits = playerBarFrameThreshold /\ last.player \in Bars
    BY <1>5 DEF Found
  <2>3. j \in ends
    BY <1>2, <2>1, <2>2 DEF Ends
  <2>4. \A n \in ends : j <= n
    <3> SUFFICES ASSUME NEW n \in ends, ~(j <= n) PROVE FALSE
      OBVIOUS
    <3>1. n \in 1 .. Lookback
      OBVIOUS
    <3> HIDE DEF ends
    <3>2. n \in 1 .. j - 1
      BY <3>1
    <3> QED BY <1>2, <2>1, <3>1, <3>2
  <2> DEFINE first == CHOOSE m \in ends : \A n \in ends : m <= n
  <2>5. first = j
    <3>1. first \in ends /\ \A n \in ends : first <= n
      BY <2>3, <2>4
    <3> HIDE DEF first
    <3>2. first <= j /\ j <= first /\ first \in Nat /\ j \in Nat
      BY <2>3, <2>4, <3>1
    <3> QED BY <3>2
  <2>6. \A p \in Bars : (\E i \in 1 .. j : Possession(p, side, i, j)) <=> p = last.player
    <3>1. \A p, i : Has(p, i, j, b, side) => b[j] = p
      BY DEF Has
    <3> QED BY <1>1, <2>1, <2>2, <3>1
  <2>7. Scorer(side) = CHOOSE p \in Bars : \E i \in 1 .. j : Possession(p, side, i, j)
    <3>1. Scorer(side) = CHOOSE p \in Bars : \E i \in 1 .. first : Possession(p, side, i, first)
      BY <2>3 DEF Scorer
    <3> HIDE DEF first
    <3> QED BY <2>5, <3>1
  <2>8. Scorer(side) = last.player
    BY <2>2, <2>6, <2>7
  <2>9. getPlayerWhoScored(side, field) = IF last.player \in 1 .. 8 THEN last.player ELSE 0
    BY <2>2 DEF getPlayerWhoScored, last
  <2>10. last.player \in 1 .. 8 \/ last.player = 0
    BY <2>2 DEF Bars
  <2> QED BY <2>8, <2>9, <2>10
<1> QED BY <1>3, <1>4, <1>5

---------------------------------------------------------------------------
(* The credit for a goal.                                                  *)

\* The bars a frame's messages credit.
Credits(s) == {s[i].bar : i \in {k \in DOMAIN s : s[k].type = "SCOREDBY"}}

\* What a concatenation credits its parts do.
LEMMA CreditsConcat ==
    ASSUME NEW s \in Seq(Messages), NEW t \in Seq(Messages)
    PROVE  Credits(s \o t) = Credits(s) \cup Credits(t)
<1>1. /\ DOMAIN (s \o t) = 1 .. Len(s) + Len(t)
      /\ DOMAIN s = 1 .. Len(s) /\ DOMAIN t = 1 .. Len(t)
  OBVIOUS
<1>2. /\ \A i \in 1 .. Len(s) : (s \o t)[i] = s[i]
      /\ \A i \in 1 .. Len(t) : (s \o t)[Len(s) + i] = t[i]
  OBVIOUS
<1>3. \A i \in 1 .. Len(s) + Len(t) :
        \/ i \in 1 .. Len(s)
        \/ i - Len(s) \in 1 .. Len(t) /\ i = Len(s) + (i - Len(s))
  OBVIOUS
<1>4. /\ \A i \in 1 .. Len(s) : i \in 1 .. Len(s) + Len(t)
      /\ \A i \in 1 .. Len(t) : Len(s) + i \in 1 .. Len(s) + Len(t)
  OBVIOUS
<1>5. ASSUME NEW c \in Credits(s \o t) PROVE c \in Credits(s) \cup Credits(t)
  <2>1. PICK i \in 1 .. Len(s) + Len(t) : (s \o t)[i].type = "SCOREDBY" /\ c = (s \o t)[i].bar
    BY <1>1, <1>5 DEF Credits
  <2>2. CASE i \in 1 .. Len(s)
    BY <1>1, <1>2, <2>1, <2>2 DEF Credits
  <2>3. CASE i - Len(s) \in 1 .. Len(t) /\ i = Len(s) + (i - Len(s))
    BY <1>1, <1>2, <2>1, <2>3 DEF Credits
  <2> QED BY <1>3, <2>2, <2>3
<1>6. Credits(s) \subseteq Credits(s \o t)
  BY <1>1, <1>2, <1>4 DEF Credits
<1>7. Credits(t) \subseteq Credits(s \o t)
  BY <1>1, <1>2, <1>4 DEF Credits
<1> QED BY <1>5, <1>6, <1>7

\* Messages of other types credit nobody.
LEMMA NoCredits ==
    ASSUME NEW s, "SCOREDBY" \notin Types(s) PROVE Credits(s) = {}
BY DEF Types, Credits

LEMMA ScoredByCredits ==
    ASSUME NEW bar \in Bars PROVE Credits(ScoredBy(bar)) = {bar} \ {0}
<1>1. CASE bar = 0
  <2>1. ScoredBy(bar) = <<>>
    BY <1>1 DEF ScoredBy
  <2> QED BY <1>1, <2>1, NoMessage, NoCredits
<1>2. CASE bar # 0
  <2> DEFINE msg == [type |-> "SCOREDBY", bar |-> bar]
  <2>1. ScoredBy(bar) = <<msg>> /\ DOMAIN <<msg>> = {1} /\ <<msg>>[1] = msg
    BY <1>2 DEF ScoredBy
  <2>2. msg.type = "SCOREDBY" /\ msg.bar = bar
    OBVIOUS
  <2> HIDE DEF msg
  <2>3. Credits(<<msg>>) = {bar}
    BY <2>1, <2>2 DEF Credits
  <2> QED BY <1>2, <2>1, <2>3
<1> QED BY <1>1, <1>2

\* The message of a goal names its side, and only that.
LEMMA GoalMessageSide ==
    ASSUME NEW side \in Sides, NEW goal \in Sides
    PROVE  /\ GoalMessage(goal) \in Seq(Messages)
           /\ Types(GoalMessage(goal)) = {IF goal = 1 THEN "RG" ELSE "BG"}
           /\ GoalMessage(side)[1].type = IF side = 1 THEN "RG" ELSE "BG"
<1>0. \A m \in {"RG", "BG"} : Say(m) \in Seq(Messages) /\ Types(Say(m)) = {m}
  BY SayType
<1>1. /\ GoalMessage(goal) \in Seq(Messages)
      /\ Types(GoalMessage(goal)) = {IF goal = 1 THEN "RG" ELSE "BG"}
  BY <1>0 DEF GoalMessage
<1>2. GoalMessage(side)[1].type = IF side = 1 THEN "RG" ELSE "BG"
  BY DEF GoalMessage, Say
<1> QED BY <1>1, <1>2

\* A frame that sends no more than a held SAVE credits nobody with anything.
LEMMA NoGoalNoCredit ==
    ASSUME Inv, sent' = DueMessage PROVE CreditFollowsHistory'
<1>1. SentTypes' \subseteq {"SAVE"}
  BY HeldSaveStep DEF SentTypes, Types
<1>2. \A side \in Sides : GoalMessage(side)[1].type \notin SentTypes'
  BY <1>1, GoalMessageSide
<1> QED BY <1>2 DEF CreditFollowsHistory

\* An announced goal credits the player of the walk, which is the history's.
LEMMA AnnouncedCredit ==
    ASSUME Inv, TypeOK', NEW goal \in Sides, sent' = Announcement(goal),
           UNCHANGED <<balls, ballCur>>
    PROVE  CreditFollowsHistory'
<1> DEFINE scorer == getPlayerWhoScored(goal, field')
           side(g) == IF g = 1 THEN "RG" ELSE "BG"
<1>1. scorer = Scorer(goal)'
  <2>1. NamesScorer'
    BY WalkNamesScorer, PTL
  <2>2. getPlayerWhoScored(goal, field)' = scorer
    BY DEF getPlayerWhoScored, PossessionWalk
  <2> QED BY <2>1, <2>2 DEF NamesScorer
<1>2. scorer \in Bars
  BY ScorerIsBar
<1> HIDE DEF scorer
<1>3. /\ DueMessage \in Seq(Messages) /\ Types(DueMessage) \subseteq {"SAVE"}
      /\ GoalMessage(goal) \in Seq(Messages) /\ Types(GoalMessage(goal)) = {side(goal)}
      /\ ScoredBy(scorer) \in Seq(Messages) /\ Types(ScoredBy(scorer)) \subseteq {"SCOREDBY"}
  BY <1>2, HeldSaveStep, GoalMessageSide, ScoredByType
<1>4. DueMessage \o GoalMessage(goal) \in Seq(Messages)
  BY <1>3
<1>5. sent' = (DueMessage \o GoalMessage(goal)) \o ScoredBy(scorer)
  BY DEF Announcement, scorer
<1>6. SentTypes' = (Types(DueMessage) \cup Types(GoalMessage(goal))) \cup Types(ScoredBy(scorer))
  <2>1. SentTypes' = Types(sent')
    BY DEF SentTypes, Types
  <2> QED BY <1>3, <1>4, <1>5, <2>1, TypesConcat
<1>7. Credits(sent') = (Credits(DueMessage) \cup Credits(GoalMessage(goal)))
                       \cup Credits(ScoredBy(scorer))
  BY <1>3, <1>4, <1>5, CreditsConcat
<1>8. Credits(DueMessage) = {} /\ Credits(GoalMessage(goal)) = {}
  BY <1>3, NoCredits
<1>9. Credits(sent') = {scorer} \ {0}
  BY <1>2, <1>7, <1>8, ScoredByCredits
<1>10. ASSUME NEW s \in Sides, GoalMessage(s)[1].type \in SentTypes' PROVE s = goal
  <2>1. side(s) \in SentTypes'
    BY <1>10, GoalMessageSide
  <2> QED BY <1>3, <1>6, <2>1 DEF Sides
<1>11. ASSUME NEW s \in Sides, GoalMessage(s)[1].type \in SentTypes'
       PROVE  {sent'[i].bar : i \in {k \in DOMAIN sent' : sent'[k].type = "SCOREDBY"}}
                 = {Scorer(s)'} \ {0}
  BY <1>1, <1>9, <1>10, <1>11 DEF Credits
<1> QED BY <1>11 DEF CreditFollowsHistory

\* The player credited with a goal, by a walk back that counts as it goes, is
\* the one whose possession the ring's sightings end with, bars of the scoring
\* side passed over; a goal without a player has none.
THEOREM CreditIsTheHistorys == Spec => []CreditFollowsHistory
<1>1. Init => CreditFollowsHistory
  BY NoMessage DEF Init, CreditFollowsHistory, SentTypes
<1>2. ASSUME Inv, Inv', CreditFollowsHistory, [Next]_vars PROVE CreditFollowsHistory'
  <2>0. TypeOK'
    BY <1>2 DEF Inv
  <2>1. ASSUME NEW reading \in Readings, NEW ball \in Positions, BallFound(reading, ball)
        PROVE  CreditFollowsHistory'
    BY <1>2, <2>1, NoGoalNoCredit DEF BallFound
  <2>2. ASSUME NEW reading \in Readings, BallMissing(reading) PROVE CreditFollowsHistory'
    <3> DEFINE goal == isInGoal(balls[PrevSlot(ballCur)], field')
    <3>1. UNCHANGED <<balls, ballCur>>
      BY <2>2 DEF BallMissing
    <3>2. CASE NoGoal(goal) \/ GoalTooSoon(goal)
      BY <1>2, <3>2, NoGoalNoCredit DEF NoGoal, GoalTooSoon
    <3>3. CASE GoalAnnounced(goal)
      <4>1. goal \in Sides
        BY <3>3 DEF GoalAnnounced, isInGoal, Sides
      <4>2. sent' = Announcement(goal)
        BY <3>3 DEF GoalAnnounced
      <4> HIDE DEF goal
      <4> QED BY <1>2, <2>0, <3>1, <4>1, <4>2, AnnouncedCredit
    <3> QED BY <2>2, <3>2, <3>3 DEF BallMissing
  <2>3. CASE UNCHANGED vars
    <3>1. CreditFollowsHistory' <=> CreditFollowsHistory
      BY <2>3 DEF vars, CreditFollowsHistory, SentTypes, Scorer, Possession
    <3> QED BY <1>2, <3>1
  <2> QED BY <1>2, <2>1, <2>2, <2>3 DEF Next, analysis_update
<1> QED BY <1>1, <1>2, Invariance, PTL DEF Spec
=============================================================================
