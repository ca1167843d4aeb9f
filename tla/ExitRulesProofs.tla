--------------------------- MODULE ExitRulesProofs ----------------------------
(***************************************************************************)
(* The exit rules for every price path, every exit plan and any number of  *)
(* faults: the stop shown is kept, the monitor leaves before the walk, a   *)
(* walk fills within its excursions, and the lab's variants are compared   *)
(* with what production does.                                              *)
(***************************************************************************)
EXTENDS ExitLab, TLAPS, WellFoundedInduction

(* What EffStop needs of the state, and what never changes.                *)
PlanOK ==
  /\ side \in {1, -1}
  /\ plan \in [horizon : Nat, stop : Percent, trail : Percent, tp : Percent]

LEMMA Params ==
  ASSUME ExitAssumption, PlanOK
  PROVE  /\ Scale \in Nat /\ Scale > 0
         /\ plan.stop \in Percent /\ plan.trail \in Percent /\ plan.tp \in Percent
         /\ Off \in Percent /\ Arm \in Percent /\ Off <= Arm
         /\ plan.stop \in Int /\ plan.trail \in Int /\ -plan.tp \in Int
         /\ -Off \in Int /\ -Arm \in Int
         /\ plan.horizon \in Nat
<1>1. \A q \in Percent : q \in Int /\ -q \in Int
  BY SMT DEF Percent, ExitAssumption
<1>2. plan.stop \in Percent /\ plan.trail \in Percent /\ plan.tp \in Percent
      /\ plan.horizon \in Nat
  BY DEF PlanOK
<1>3. Off \in Percent /\ Arm \in Percent /\ Off <= Arm /\ Scale \in Nat \ {0}
  BY DEF ExitAssumption
<1>4. Scale \in Nat /\ Scale > 0
  BY <1>3, SMT
<1> QED
  BY <1>1, <1>2, <1>3, <1>4

LEMMA ScaledMono ==
  ASSUME NEW a \in Int, NEW b \in Int, NEW k \in Nat, a <= b
  PROVE  a * k <= b * k
  BY SMT

LEMMA LevelInt ==
  ASSUME ExitAssumption, PlanOK, NEW p \in Int, NEW q \in Int
  PROVE  Level(p, q) \in Int
  BY SMT DEF ExitAssumption, PlanOK, Level

LEMMA FillInt == ASSUME ExitAssumption, PlanOK PROVE Fill \in Int /\ StopLoss \in Int
  BY SMT DEF ExitAssumption, PlanOK, Fill, StopLoss, Level, Percent

(* A level follows its price.                                              *)
LEMMA LevelMono ==
  ASSUME ExitAssumption, PlanOK, NEW a \in Int, NEW b \in Int, a <= b,
         NEW q \in Percent
  PROVE  Level(a, q) <= Level(b, q)
<1>1. Scale - side * q \in Nat
  BY SMT DEF ExitAssumption, PlanOK, Percent
<1> QED
  BY <1>1, ScaledMono DEF Level

LEMMA EffStopInt ==
  ASSUME ExitAssumption, PlanOK, NEW p \in Int
  PROVE  EffStop(p) \in Int /\ Trailing(p) \in Int
<1>1. Level(p, plan.trail) \in Int /\ Level(Fill, -Off) \in Int
  BY LevelInt, FillInt, Params
<1> QED
  BY <1>1, FillInt, SMT DEF EffStop, Trailing, Higher

LEMMA TrailingMono ==
  ASSUME ExitAssumption, PlanOK, NEW a \in Int, NEW b \in Int, a <= b
  PROVE  Trailing(a) <= Trailing(b)
<1>1. Level(a, plan.trail) <= Level(b, plan.trail)
  BY LevelMono DEF PlanOK
<1>2. /\ Level(a, plan.trail) \in Int /\ Level(b, plan.trail) \in Int
      /\ StopLoss \in Int /\ Fill \in Int
  BY LevelInt, FillInt, Params
<1> QED
  BY <1>1, <1>2, SMT DEF Trailing, Higher

(* The effective stop never retreats as the peak advances.                 *)
LEMMA EffStopMono ==
  ASSUME ExitAssumption, PlanOK, NEW a \in Int, NEW b \in Int, a <= b
  PROVE  EffStop(a) <= EffStop(b)
<1>1. Trailing(a) <= Trailing(b) /\ Trailing(a) \in Int /\ Trailing(b) \in Int
  BY TrailingMono, EffStopInt
<1>2. Level(Fill, -Off) \in Int /\ Level(Fill, -Arm) \in Int
  BY LevelInt, FillInt, Params
<1>3. a * Scale <= b * Scale /\ a * Scale \in Int /\ b * Scale \in Int
  BY ScaledMono, SMT DEF ExitAssumption
<1> QED
  BY <1>1, <1>2, <1>3, SMT DEF EffStop, Higher

LEMMA EffStopAboveInitial ==
  ASSUME ExitAssumption, PlanOK, NEW p \in Int
  PROVE  StopLoss <= EffStop(p)
<1>1. Level(p, plan.trail) \in Int /\ Level(Fill, -Off) \in Int /\ StopLoss \in Int
  BY LevelInt, FillInt, Params
<1> QED
  BY <1>1, SMT DEF EffStop, Trailing, Higher

(* A level in the position's favour is above the price, an adverse one     *)
(* below it.                                                               *)
LEMMA LevelSide ==
  ASSUME ExitAssumption, PlanOK, NEW p \in Int, side * p >= 0, NEW q \in Percent
  PROVE  /\ Level(p, q) <= p * Scale
         /\ p * Scale <= Level(p, -q)
<1>1. side * p \in Nat /\ q \in Nat /\ Scale \in Nat
  BY SMT DEF PlanOK, Percent, ExitAssumption
<1>2. (side * p) * q \in Nat
  BY <1>1, SMT
<1>3. CASE side = 1
  <2>1. p * q \in Nat /\ p \in Nat
    BY <1>1, <1>2, <1>3, SMT
  <2>2. /\ Level(p, q) = p * Scale - p * q
        /\ Level(p, -q) = p * Scale + p * q
    BY <1>1, <1>3, SMT DEF Level
  <2>3. p * Scale \in Int
    BY <1>1, SMT
  <2> QED
    BY <2>1, <2>2, <2>3, SMT
<1>4. CASE side = -1
  <2> DEFINE m == -p
  <2>1. m \in Nat /\ m * q \in Nat
    BY <1>1, <1>2, <1>4, SMT
  <2>2. /\ Level(p, q) = p * Scale - m * q
        /\ Level(p, -q) = p * Scale + m * q
    BY <1>1, <1>4, SMT DEF Level
  <2>3. p * Scale \in Int
    BY <1>1, SMT
  <2> HIDE DEF m
  <2> QED
    BY <2>1, <2>2, <2>3, SMT
<1> QED
  BY <1>3, <1>4 DEF PlanOK

LEMMA FillSide == ASSUME ExitAssumption, PlanOK PROVE side * Fill >= 0
  BY SMT DEF ExitAssumption, PlanOK, Fill

(* Two levels in the favour of the fill are ordered by their percentages.  *)
LEMMA FavourOrder ==
  ASSUME ExitAssumption, PlanOK, NEW q \in Percent, NEW r \in Percent, q <= r
  PROVE  Level(Fill, -q) <= Level(Fill, -r)
<1>1. /\ Level(Fill, -q) = Fill * Scale + Entry * q
      /\ Level(Fill, -r) = Fill * Scale + Entry * r
  BY SMT DEF ExitAssumption, PlanOK, Fill, Level, Percent
<1>2. q * Entry <= r * Entry /\ q * Entry = Entry * q /\ r * Entry = Entry * r
  BY ScaledMono, SMT DEF ExitAssumption, Percent
<1>3. Fill * Scale \in Int /\ Entry * q \in Int /\ Entry * r \in Int
  BY FillInt, SMT DEF ExitAssumption, Percent
<1> QED
  BY <1>1, <1>2, <1>3, SMT

(* The effective stop is never above the best price.                       *)
LEMMA EffStopBelowBest ==
  ASSUME ExitAssumption, PlanOK, NEW p \in Int, side * p >= 0,
         NEW best \in Int, p <= best, Fill <= best
  PROVE  EffStop(p) <= best * Scale
<1>0. Fill \in Int /\ side * Fill >= 0 /\ plan.stop \in Percent /\ plan.trail \in Percent
      /\ Off \in Percent /\ Arm \in Percent /\ Off <= Arm /\ Scale \in Nat
  BY FillInt, FillSide, Params
<1>1. p * Scale <= best * Scale /\ Fill * Scale <= best * Scale
  BY <1>0, ScaledMono
<1>2. StopLoss <= Fill * Scale
  BY <1>0, LevelSide DEF StopLoss
<1>3. Level(p, plan.trail) <= p * Scale
  BY <1>0, LevelSide
<1>4. Level(Fill, -Off) <= Level(Fill, -Arm)
  BY <1>0, FavourOrder
<1>5. /\ Level(p, plan.trail) \in Int /\ Level(Fill, -Off) \in Int
      /\ Level(Fill, -Arm) \in Int /\ StopLoss \in Int
  BY LevelInt, FillInt, Params
<1>6. p * Scale \in Int /\ best * Scale \in Int /\ Fill * Scale \in Int
  BY <1>0, SMT
<1> QED
  BY <1>1, <1>2, <1>3, <1>4, <1>5, <1>6, SMT DEF EffStop, Trailing, Higher

LEMMA TargetBeyondStop ==
  ASSUME ExitAssumption, PlanOK
  PROVE  /\ Level(Fill, -plan.tp) \in Int
         /\ Fill * Scale <= Level(Fill, -plan.tp)
         /\ StopLoss <= Fill * Scale
<1>0. Fill \in Int /\ side * Fill >= 0 /\ plan.stop \in Percent /\ plan.tp \in Percent
      /\ -plan.tp \in Int
  BY FillInt, FillSide, Params
<1> QED
  BY <1>0, LevelSide, LevelInt DEF StopLoss
-----------------------------------------------------------------------------
LEMMA TypePlan == TypeOK => PlanOK
  BY DEF TypeOK, PlanOK

LEMMA HigherInt ==
  ASSUME NEW a \in Int, NEW b \in Int
  PROVE  /\ Higher(a, b) \in Int /\ a <= Higher(a, b) /\ b <= Higher(a, b)
         /\ Lower(a, b) \in Int /\ Lower(a, b) <= a /\ Lower(a, b) <= b
         /\ Higher(a, b) \in {a, b} /\ Lower(a, b) \in {a, b}
  BY SMT DEF Higher, Lower

LEMMA PeakNowInt ==
  ASSUME TypeOK PROVE PeakNow \in Int /\ live.peak <= PeakNow
<1>1. live.peak \in Int /\ price \in Int
  BY DEF TypeOK
<1>2. Higher(live.peak, price) \in Int /\ live.peak <= Higher(live.peak, price)
  BY <1>1, HigherInt
<1> QED
  BY <1>1, <1>2, SMT DEF PeakNow

LEMMA WalkedType ==
  ASSUME ExitAssumption, TypeOK
  PROVE  Walked(walk) \in [open : BOOLEAN, peak : Int, adverse : Int, favor : Int,
                           px : Int, gap : BOOLEAN]
<1>1. EffStop(walk.peak) \in Int /\ Level(Fill, -plan.tp) \in Int
  BY TypePlan, EffStopInt, TargetBeyondStop DEF TypeOK
<1>2. bar.o * Scale \in Int /\ bar.l * Scale \in Int /\ price * Scale \in Int
  BY TypePlan, Params, SMT DEF TypeOK
<1>3. /\ Lower(walk.adverse, bar.o) \in Int /\ Lower(walk.adverse, bar.l) \in Int
      /\ Higher(walk.favor, bar.h) \in Int /\ Higher(walk.peak, bar.h) \in Int
  BY HigherInt DEF TypeOK
<1>4. walk \in [open : BOOLEAN, peak : Int, adverse : Int, favor : Int,
                px : Int, gap : BOOLEAN]
  BY DEF TypeOK
<1> DEFINE T == [open : BOOLEAN, peak : Int, adverse : Int, favor : Int,
                 px : Int, gap : BOOLEAN]
           x == [walk EXCEPT !.adverse = Lower(walk.adverse, bar.l),
                             !.favor = Higher(walk.favor, bar.h)]
           y == [walk EXCEPT !.adverse = Lower(walk.adverse, bar.o)]
<1>5. x \in T /\ y \in T /\ [x EXCEPT !.peak = Higher(walk.peak, bar.h)] \in T
  BY <1>3, <1>4
<1>6. \A w \in T, q \in Int, g \in BOOLEAN : Exit(w, q, g) \in T
  BY DEF Exit
<1>7. [x EXCEPT !.peak = Higher(@, bar.h)] = [x EXCEPT !.peak = Higher(walk.peak, bar.h)]
  BY <1>4
<1> QED
  BY <1>1, <1>2, <1>5, <1>6, <1>7, Zenon DEF Walked

LEMMA TypeInit == ExitAssumption /\ Init => TypeOK
<1> SUFFICES ASSUME ExitAssumption, Init PROVE TypeOK
  OBVIOUS
<1>1. PICK ts \in Sensitivities : plan = ExitParams(ts)
  BY DEF Init
<1>2. 0 \in Percent /\ TakeProfit \in Percent /\ Stops[ts] \in Percent
      /\ Trails[ts] \in Percent /\ Horizons[ts] \in Nat
  <2>1. 0 \in Percent
    BY SMT DEF ExitAssumption, Percent
  <2> QED
    BY <2>1 DEF ExitAssumption
<1>3. plan \in [horizon : Nat, stop : Percent, trail : Percent, tp : Percent]
  BY <1>1, <1>2 DEF ExitParams
<1>4. PlanOK
  BY <1>3 DEF PlanOK, Init
<1>5. Fill \in Int /\ StopLoss \in Int
  BY <1>4, FillInt
<1>6. 1 \in 0 .. BarLen
  BY SMT DEF ExitAssumption
<1>7. now \in Nat /\ faults \in Nat
  BY SMT DEF Init
<1>8. /\ bar \in [n : 0 .. BarLen, o : Int, h : Int, l : Int]
      /\ live \in [pc : {"idle", "saving"}, open : BOOLEAN, peak : Int]
  BY <1>5, <1>6 DEF Init
<1>9. walk \in [open : BOOLEAN, peak : Int, adverse : Int, favor : Int,
                px : Int, gap : BOOLEAN]
  BY <1>5, SMT DEF Init
<1> QED
  BY <1>3, <1>5, <1>7, <1>8, <1>9 DEF Init, TypeOK

LEMMA TypeNext ==
  ASSUME ExitAssumption, TypeOK, [Next]_vars
  PROVE  TypeOK'
<1> USE DEF TypeOK
<1>0. PlanOK
  BY TypePlan
<1>1. CASE Tick
  <2>1. PICK p \in Prices : 
          /\ price' = side * p
          /\ bar' = IF bar.n = 0
                    THEN [n |-> 1, o |-> side * p, h |-> side * p, l |-> side * p]
                    ELSE [n |-> bar.n + 1, o |-> bar.o, h |-> Higher(bar.h, side * p),
                          l |-> Lower(bar.l, side * p)]
    BY <1>1 DEF Tick
  <2>2. p \in Int /\ side * p \in Int
    BY SMT DEF ExitAssumption
  <2>3. 1 \in 0 .. BarLen /\ bar.n + 1 \in 0 .. BarLen
    BY <1>1, SMT DEF Tick, ExitAssumption
  <2>4. Higher(bar.h, side * p) \in Int /\ Lower(bar.l, side * p) \in Int
    BY <2>2, HigherInt
  <2>5. bar' \in [n : 0 .. BarLen, o : Int, h : Int, l : Int]
    BY <2>1, <2>2, <2>3, <2>4
  <2>6. now' \in Nat /\ price' \in Int
    BY <1>1, <2>1, <2>2, SMT DEF Tick
  <2> QED
    BY <1>1, <2>5, <2>6 DEF Tick, monitor
<1>2. CASE PollExits
  <2>1. live' \in [pc : {"idle", "saving"}, open : BOOLEAN, peak : Int]
    BY <1>2, PeakNowInt DEF PollExits
  <2>2. faults' \in Nat
    BY <1>2, SMT DEF PollExits, Fault
  <2>3. unsaved' \in BOOLEAN /\ missed' \in BOOLEAN /\ seen' \in BOOLEAN
    BY <1>2, Zenon DEF PollExits
  <2> QED
    BY <1>2, <2>1, <2>2, <2>3 DEF PollExits, path
<1>3. CASE PollKeeps
  <2>1. EffStop(live.peak) \in Int /\ PeakNow \in Int
    BY <1>0, EffStopInt, PeakNowInt
  <2> QED
    BY <1>3, <2>1 DEF PollKeeps, path
<1>4. CASE PollBlind
  <2>1. (now < plan.horizon) \in BOOLEAN
    OBVIOUS
  <2>2. live' \in [pc : {"idle", "saving"}, open : BOOLEAN, peak : Int]
    BY <1>4, <2>1, Zenon DEF PollBlind
  <2>3. faults' \in Nat
    BY <1>4, SMT DEF PollBlind, Fault
  <2> QED
    BY <1>4, <2>2, <2>3 DEF PollBlind, path
<1>5. CASE SavePeak
  <2>1. EffStop(live.peak) \in Int
    BY <1>0, EffStopInt
  <2>2. faults' \in Nat
    BY <1>5, SMT DEF SavePeak, Fault
  <2> QED
    BY <1>5, <2>1, <2>2 DEF SavePeak, path
<1>6. CASE Restart
  <2>1. faults' \in Nat
    BY <1>6, SMT DEF Restart, Fault
  <2> QED
    BY <1>6, <2>1 DEF Restart, Restored, path
<1>7. CASE BarClose
  <2>1. 0 \in 0 .. BarLen
    BY SMT DEF ExitAssumption
  <2> QED
    BY <1>7, <2>1, WalkedType DEF BarClose, monitor
<1>8. CASE DataEnd
  <2>1. price * Scale \in Int
    BY <1>0, Params, SMT
  <2>2. faults' \in Nat
    BY <1>8, SMT DEF DataEnd, Fault
  <2> QED
    BY <1>8, <2>1, <2>2 DEF DataEnd, Exit, monitor, path
<1>9. CASE UNCHANGED vars
  BY <1>9 DEF vars, path, monitor
<1> QED
  BY <1>1, <1>2, <1>3, <1>4, <1>5, <1>6, <1>7, <1>8, <1>9 DEF Next
(* Every reachable state has its types.                                    *)
THEOREM TypeCorrect == Spec => []TypeOK
<1>1. Init => TypeOK
  BY ExitAssumption, TypeInit
<1>2. TypeOK /\ [Next]_vars => TypeOK'
  BY ExitAssumption, TypeNext
<1> QED
  BY <1>1, <1>2, PTL DEF Spec

(* A step never changes the side or the plan, so a level stays a level.    *)
LEMMA Frame ==
  ASSUME [Next]_vars
  PROVE  side' = side /\ plan' = plan
  BY DEF Next, vars, Tick, PollExits, PollKeeps, PollBlind, SavePeak, Restart,
         BarClose, DataEnd

LEMMA FramedStop ==
  ASSUME [Next]_vars
  PROVE  EffStop(live.peak)' = EffStop(live'.peak)
  BY Frame DEF EffStop, Trailing, StopLoss, Level, Fill
-----------------------------------------------------------------------------
(* A row that nothing lags behind holds the peak.                          *)
Kept ==
  /\ live.open /\ ~unsaved => row = live.peak
  /\ StopShownIsKept

LEMMA KeptInit == ExitAssumption /\ Init => Kept
<1> SUFFICES ASSUME ExitAssumption, Init PROVE Kept
  OBVIOUS
<1>1. PlanOK /\ Fill \in Int
  BY TypeInit, TypePlan, FillInt
<1>2. StopLoss <= EffStop(Fill)
  BY <1>1, EffStopAboveInitial
<1> QED
  BY <1>2 DEF Init, Kept, StopShownIsKept

LEMMA KeptNext ==
  ASSUME ExitAssumption, TypeOK, Kept, [Next]_vars
  PROVE  Kept'
<1>0. PlanOK /\ live.peak \in Int /\ PeakNow \in Int /\ shown \in Int
      /\ EffStop(live.peak) \in Int /\ EffStop(PeakNow) \in Int
  BY TypePlan, PeakNowInt, EffStopInt DEF TypeOK
<1>a. EffStop(live.peak) <= EffStop(PeakNow)
  BY <1>0, PeakNowInt, EffStopMono
<1>b. StopShownIsKept' <=> (live'.open /\ ~lost' => shown' <= EffStop(live'.peak))
  BY FramedStop DEF StopShownIsKept
<1>c. live.open /\ ~lost => shown <= EffStop(live.peak)
  BY DEF Kept, StopShownIsKept
<1>d. live \in [pc : {"idle", "saving"}, open : BOOLEAN, peak : Int]
  BY DEF TypeOK
<1>1. CASE Tick \/ BarClose \/ DataEnd \/ UNCHANGED vars
  <2>1. UNCHANGED monitor
    BY <1>1 DEF Tick, BarClose, DataEnd, vars
  <2> QED
    BY <2>1, <1>b, <1>c DEF monitor, Kept
<1>2. CASE PollExits
  <2>1. CASE ~live'.open
    BY <2>1, <1>b DEF Kept
  <2>2. CASE live'.open
    <3>1. /\ live.open /\ live'.peak = PeakNow /\ row' = row /\ shown' = shown
          /\ lost' = lost /\ unsaved' = (unsaved \/ PeakNow # live.peak)
      BY <1>2, <1>d, <2>2 DEF PollExits, Polls
    <3>2. ~lost => shown <= EffStop(PeakNow)
      BY <3>1, <1>0, <1>a, <1>c, SMT
    <3> QED
      BY <3>1, <3>2, <1>b DEF Kept
  <2> QED
    BY <2>1, <2>2
<1>3. CASE PollKeeps
  <2>1. live.open /\ row' = row
    BY <1>3 DEF PollKeeps, Polls
  <2>2. CASE PeakNow # live.peak
    <3>1. live'.peak = PeakNow /\ unsaved' /\ shown' = shown /\ lost' = lost
      BY <1>3, <1>d, <2>2 DEF PollKeeps
    <3>2. ~lost => shown <= EffStop(PeakNow)
      BY <2>1, <1>0, <1>a, <1>c, SMT
    <3> QED
      BY <3>1, <3>2, <1>b DEF Kept
  <2>3. CASE PeakNow = live.peak
    <3>1. live' = live /\ unsaved' = unsaved /\ shown' = EffStop(live.peak)
      BY <1>3, <2>3 DEF PollKeeps
    <3>2. EffStop(live.peak) <= EffStop(live.peak)
      BY <1>0, SMT
    <3> QED
      BY <2>1, <3>1, <3>2, <1>b DEF Kept
  <2> QED
    BY <2>2, <2>3
<1>4. CASE PollBlind
  <2>1. /\ live.open /\ live'.peak = live.peak /\ row' = row /\ shown' = shown
        /\ lost' = lost /\ unsaved' = unsaved
    BY <1>4, <1>d DEF PollBlind, Polls
  <2> QED
    BY <2>1, <1>b, <1>c DEF Kept
<1>5. CASE SavePeak
  <2>1. live'.peak = live.peak /\ live'.open = live.open /\ shown' = EffStop(live.peak)
    BY <1>5, <1>d DEF SavePeak
  <2>2. EffStop(live.peak) <= EffStop(live.peak)
    BY <1>0, SMT
  <2>3. \/ row' = live.peak
        \/ row' = row /\ unsaved' = unsaved
    BY <1>5 DEF SavePeak
  <2> QED
    BY <2>1, <2>2, <2>3, <1>b DEF Kept
<1>6. CASE Restart
  <2>1. /\ live.open /\ live'.peak = row /\ row' = row /\ shown' = shown
        /\ lost' = (lost \/ unsaved)
    BY <1>6 DEF Restart, Restored
  <2> QED
    BY <2>1, <1>b, <1>c DEF Kept
<1> QED
  BY <1>1, <1>2, <1>3, <1>4, <1>5, <1>6 DEF Next

(* The stop shown on the dashboard is kept until the position closes,      *)
(* whatever polls, writes and restarts do, unless a restart read a row     *)
(* that the peak had not reached.                                          *)
THEOREM StopKept == Spec => []StopShownIsKept
<1>1. Init => TypeOK /\ Kept
  BY ExitAssumption, TypeInit, KeptInit
<1>2. TypeOK /\ Kept /\ [Next]_vars => TypeOK' /\ Kept'
  BY ExitAssumption, TypeNext, KeptNext
<1>3. Kept => StopShownIsKept
  BY DEF Kept
<1> QED
  BY <1>1, <1>2, <1>3, PTL DEF Spec
-----------------------------------------------------------------------------
(* The walk's record: its excursions enclose the fill price, the peak and, *)
(* between bars, the last trade.                                           *)
Enclosed ==
  /\ side * bar.h >= 0 /\ side * price >= 0 /\ side * walk.peak >= 0
  /\ bar.l <= bar.o /\ bar.o <= bar.h /\ bar.l <= price /\ price <= bar.h
  /\ walk.open =>
       /\ walk.adverse <= Fill /\ Fill <= walk.favor /\ walk.peak <= walk.favor
       /\ bar.n = 0 => /\ walk.adverse <= price /\ price <= walk.favor
                       /\ StopLoss <= price * Scale
  /\ FillWithinExcursions

LEMMA EnclosedInit == ExitAssumption /\ Init => Enclosed
<1> SUFFICES ASSUME ExitAssumption, Init PROVE Enclosed
  OBVIOUS
<1>1. PlanOK
  BY TypeInit, TypePlan
<1>2. side * Fill >= 0 /\ Fill \in Int
  BY <1>1, FillSide, FillInt
<1> QED
  BY <1>2, SMT DEF Init, Enclosed, FillWithinExcursions

LEMMA SignedPrice ==
  ASSUME ExitAssumption, PlanOK, NEW p \in Prices
  PROVE  side * p \in Int /\ side * (side * p) >= 0
  BY SMT DEF ExitAssumption, PlanOK

(* One bar of the walk.                                                    *)
LEMMA WalkedEncloses ==
  ASSUME ExitAssumption, TypeOK, Enclosed, walk.open
  PROVE  LET w == Walked(walk) IN
         /\ side * w.peak >= 0
         /\ w.open => /\ w.adverse <= Fill /\ Fill <= w.favor /\ w.peak <= w.favor
                      /\ w.adverse <= price /\ price <= w.favor
                      /\ StopLoss <= price * Scale
         /\ ~w.open => /\ w.adverse * Scale <= w.px /\ w.px <= w.favor * Scale
                       /\ ~w.gap => StopLoss <= w.px
<1> DEFINE eff == EffStop(walk.peak)
           tgt == Level(Fill, -plan.tp)
           lo  == Lower(walk.adverse, bar.l)
           hi  == Higher(walk.favor, bar.h)
           op  == Lower(walk.adverse, bar.o)
           x   == [walk EXCEPT !.adverse = Lower(@, bar.l), !.favor = Higher(@, bar.h)]
           W   == Walked(walk)
<1>0. PlanOK
  BY TypePlan
<1>1. walk \in [open : BOOLEAN, peak : Int, adverse : Int, favor : Int,
                px : Int, gap : BOOLEAN]
  BY DEF TypeOK
<1>2. /\ bar.o \in Int /\ bar.h \in Int /\ bar.l \in Int /\ price \in Int
      /\ Fill \in Int /\ StopLoss \in Int /\ Scale \in Nat /\ eff \in Int /\ tgt \in Int
  BY <1>0, FillInt, Params, EffStopInt, TargetBeyondStop DEF TypeOK
<1>3. /\ lo \in Int /\ hi \in Int /\ op \in Int
      /\ lo <= walk.adverse /\ lo <= bar.l /\ walk.favor <= hi /\ bar.h <= hi
      /\ op <= walk.adverse /\ op <= bar.o
  BY <1>1, <1>2, HigherInt
<1>4. /\ bar.l <= bar.o /\ bar.o <= bar.h /\ bar.l <= price /\ price <= bar.h
      /\ walk.adverse <= Fill /\ Fill <= walk.favor /\ walk.peak <= walk.favor
      /\ side * walk.peak >= 0 /\ side * bar.h >= 0
  BY DEF Enclosed
<1>5. StopLoss <= eff /\ eff <= walk.favor * Scale
  BY <1>0, <1>1, <1>4, EffStopAboveInitial, EffStopBelowBest
<1>6. Fill * Scale <= tgt /\ StopLoss <= Fill * Scale
  BY <1>0, TargetBeyondStop
<1>7. /\ op * Scale <= bar.o * Scale
      /\ lo * Scale <= bar.l * Scale /\ lo * Scale <= Fill * Scale
      /\ bar.h * Scale <= hi * Scale /\ walk.favor * Scale <= hi * Scale
      /\ bar.l * Scale <= price * Scale /\ price * Scale <= hi * Scale
  <2>1. lo <= Fill /\ price <= hi
    BY <1>1, <1>2, <1>3, <1>4, SMT
  <2> QED
    BY <1>1, <1>2, <1>3, <1>4, <2>1, ScaledMono
<1>8. /\ op * Scale \in Int /\ lo * Scale \in Int /\ hi * Scale \in Int
      /\ bar.o * Scale \in Int /\ bar.l * Scale \in Int /\ bar.h * Scale \in Int
      /\ price * Scale \in Int /\ walk.favor * Scale \in Int /\ Fill * Scale \in Int
  BY <1>1, <1>2, <1>3, SMT
<1> HIDE DEF eff, tgt, lo, hi, op
<1>9. CASE bar.o * Scale <= eff
  <2>1. /\ ~W.open /\ W.gap /\ W.px = bar.o * Scale /\ W.adverse = op
        /\ W.favor = walk.favor /\ W.peak = walk.peak
    BY <1>1, <1>9 DEF Walked, Exit, eff, op
  <2>2. bar.o * Scale <= walk.favor * Scale
    BY <1>2, <1>5, <1>8, <1>9, SMT
  <2> QED
    BY <1>4, <1>7, <2>1, <2>2
<1>10. CASE bar.o * Scale > eff /\ bar.l * Scale <= eff
  <2>0. ~(bar.o * Scale <= eff)
    BY <1>2, <1>8, <1>10, SMT
  <2>1. /\ ~W.open /\ W.px = eff /\ W.adverse = lo /\ W.favor = hi
        /\ W.peak = walk.peak
    BY <1>1, <1>10, <2>0 DEF Walked, Exit, eff, lo, hi
  <2>2. lo * Scale <= eff /\ eff <= hi * Scale
    BY <1>2, <1>5, <1>7, <1>8, <1>10, SMT
  <2> QED
    BY <1>4, <1>5, <2>1, <2>2
<1>11. CASE bar.l * Scale > eff
  <2>0. ~(bar.o * Scale <= eff) /\ ~(bar.l * Scale <= eff)
    <3>1. bar.l * Scale <= bar.o * Scale
      BY <1>2, <1>4, ScaledMono
    <3> QED
      BY <3>1, <1>2, <1>8, <1>11, SMT
  <2>1. CASE TakesProfit(bar.h)
    <3>1. /\ ~W.open /\ W.px = tgt /\ W.adverse = lo /\ W.favor = hi
          /\ W.peak = walk.peak
      BY <1>1, <2>0, <2>1 DEF Walked, Exit, eff, lo, hi, tgt
    <3>2. tgt <= bar.h * Scale
      BY <1>2, <1>8, <2>1, SMT DEF TakesProfit, tgt
    <3>3. lo * Scale <= tgt /\ tgt <= hi * Scale /\ StopLoss <= tgt
      BY <1>2, <1>6, <1>7, <1>8, <3>2, SMT
    <3> QED
      BY <1>4, <3>1, <3>3
  <2>2. CASE ~TakesProfit(bar.h) /\ now >= plan.horizon
    <3>1. /\ ~W.open /\ W.px = price * Scale /\ W.adverse = lo /\ W.favor = hi
          /\ W.peak = walk.peak
      BY <1>1, <2>0, <2>2 DEF Walked, Exit, eff, lo, hi
    <3>2. lo * Scale <= price * Scale /\ StopLoss <= price * Scale
      BY <1>2, <1>5, <1>7, <1>8, <1>11, SMT
    <3> QED
      BY <1>4, <1>7, <3>1, <3>2
  <2>3. CASE ~TakesProfit(bar.h) /\ ~(now >= plan.horizon)
    <3>1. /\ W.open = walk.open /\ W.adverse = lo /\ W.favor = hi
          /\ W.peak = Higher(walk.peak, bar.h)
      BY <1>1, <2>0, <2>3 DEF Walked, eff, lo, hi
    <3>2. StopLoss <= price * Scale
      BY <1>2, <1>5, <1>7, <1>8, <1>11, SMT
    <3>3. Higher(walk.peak, bar.h) <= hi /\ side * Higher(walk.peak, bar.h) >= 0
      <4>1. walk.peak \in Int /\ walk.favor \in Int
        BY <1>1
      <4> QED
        BY <4>1, <1>2, <1>3, <1>4, SMT DEF Higher
    <3>4. lo <= Fill /\ Fill <= hi /\ lo <= price /\ price <= hi
      <4>1. walk.adverse \in Int /\ walk.favor \in Int
        BY <1>1
      <4> QED
        BY <4>1, <1>2, <1>3, <1>4, SMT
    <3> QED
      BY <3>1, <3>2, <3>3, <3>4
  <2> QED
    BY <2>1, <2>2, <2>3
<1> QED
  BY <1>2, <1>8, <1>9, <1>10, <1>11, SMT

LEMMA FramedFill ==
  ASSUME [Next]_vars PROVE Fill' = Fill /\ StopLoss' = StopLoss
  BY Frame DEF Fill, StopLoss, Level

LEMMA EnclosedNext ==
  ASSUME ExitAssumption, TypeOK, Enclosed, [Next]_vars
  PROVE  Enclosed'
<1>0. side' = side /\ plan' = plan /\ Fill' = Fill /\ StopLoss' = StopLoss
  BY Frame, FramedFill
<1>1. CASE Tick
  <2>0. PlanOK
    BY TypePlan
  <2>1. PICK p \in Prices :
          /\ price' = side * p
          /\ bar' = IF bar.n = 0
                    THEN [n |-> 1, o |-> side * p, h |-> side * p, l |-> side * p]
                    ELSE [n |-> bar.n + 1, o |-> bar.o, h |-> Higher(bar.h, side * p),
                          l |-> Lower(bar.l, side * p)]
    BY <1>1 DEF Tick
  <2> DEFINE q == side * p
  <2>2. q \in Int /\ side * q >= 0
    BY <2>0, SignedPrice
  <2> HIDE DEF q
  <2>3. price' = q
    BY <2>1 DEF q
  <2>4. bar.n \in Nat /\ bar.o \in Int /\ bar.h \in Int /\ bar.l \in Int
    BY SMT DEF TypeOK, ExitAssumption
  <2>5. /\ bar'.n # 0 /\ side * bar'.h >= 0
        /\ bar'.l <= bar'.o /\ bar'.o <= bar'.h /\ bar'.l <= q /\ q <= bar'.h
    <3>1. CASE bar.n = 0
      <4>1. bar' = [n |-> 1, o |-> q, h |-> q, l |-> q]
        BY <2>1, <3>1 DEF q
      <4> QED
        BY <4>1, <2>2, SMT
    <3>2. CASE bar.n # 0
      <4>1. bar' = [n |-> bar.n + 1, o |-> bar.o, h |-> Higher(bar.h, q),
                    l |-> Lower(bar.l, q)]
        BY <2>1, <3>2 DEF q
      <4>2. bar'.n = bar.n + 1 /\ bar'.o = bar.o /\ bar'.h = Higher(bar.h, q)
            /\ bar'.l = Lower(bar.l, q)
        BY <4>1
      <4>3. bar.l <= bar.o /\ bar.o <= bar.h /\ side * bar.h >= 0
        BY DEF Enclosed
      <4>4. Higher(bar.h, q) \in {bar.h, q}
        BY <2>2, <2>4, HigherInt
      <4>5. side * Higher(bar.h, q) >= 0
        BY <4>3, <4>4, <2>2
      <4>6. /\ Lower(bar.l, q) <= bar.o /\ bar.o <= Higher(bar.h, q)
            /\ Lower(bar.l, q) <= q /\ q <= Higher(bar.h, q)
        BY <2>2, <2>4, <4>3, SMT DEF Higher, Lower
      <4>7. bar.n + 1 # 0
        BY <2>4, SMT
      <4> QED
        BY <4>2, <4>5, <4>6, <4>7
    <3> QED
      BY <3>1, <3>2
  <2>6. walk' = walk
    BY <1>1 DEF Tick
  <2> QED
    BY <1>0, <2>2, <2>3, <2>5, <2>6 DEF Enclosed, FillWithinExcursions
<1>2. CASE BarClose
  <2>1. bar' = [bar EXCEPT !.n = 0] /\ price' = price
    BY <1>2 DEF BarClose
  <2>2. bar'.o = bar.o /\ bar'.h = bar.h /\ bar'.l = bar.l
    BY <2>1 DEF TypeOK
  <2>3. CASE walk.open
    <3>1. walk' = Walked(walk)
      BY <1>2, <2>3 DEF BarClose
    <3> DEFINE w == Walked(walk)
    <3>2. /\ side * w.peak >= 0
          /\ w.open => /\ w.adverse <= Fill /\ Fill <= w.favor /\ w.peak <= w.favor
                       /\ w.adverse <= price /\ price <= w.favor
                       /\ StopLoss <= price * Scale
          /\ ~w.open => /\ w.adverse * Scale <= w.px /\ w.px <= w.favor * Scale
                        /\ ~w.gap => StopLoss <= w.px
      BY <2>3, WalkedEncloses
    <3>4. ~w.gap /\ StopLoss <= w.px => w.px >= StopLoss
      <4>1. w.px \in Int /\ StopLoss \in Int
        BY WalkedType, TypePlan, FillInt
      <4> QED
        BY <4>1, SMT
    <3> HIDE DEF w
    <3>3. walk' = w
      BY <3>1 DEF w
    <3> QED
      BY <1>0, <2>1, <2>2, <3>2, <3>3, <3>4 DEF Enclosed, FillWithinExcursions
  <2>4. CASE ~walk.open
    <3>1. walk' = walk
      BY <1>2, <2>4 DEF BarClose
    <3> QED
      BY <1>0, <2>1, <2>2, <2>4, <3>1 DEF Enclosed, FillWithinExcursions
  <2> QED
    BY <2>3, <2>4
<1>3. CASE DataEnd
  <2>1. bar' = bar /\ price' = price
    BY <1>3 DEF DataEnd, path
  <2>2. /\ ~walk'.open /\ walk'.px = price * Scale /\ walk'.adverse = walk.adverse
        /\ walk'.favor = walk.favor /\ walk'.peak = walk.peak
    BY <1>3 DEF DataEnd, Exit, TypeOK
  <2>3. walk.adverse <= price /\ price <= walk.favor /\ StopLoss <= price * Scale
    BY <1>3 DEF DataEnd, Enclosed
  <2>4. walk.adverse * Scale <= price * Scale /\ price * Scale <= walk.favor * Scale
    BY <2>3, ScaledMono, TypePlan, Params DEF TypeOK
  <2>5. StopLoss \in Int /\ price * Scale \in Int
    BY TypePlan, FillInt, Params, SMT DEF TypeOK
  <2>6. price * Scale >= StopLoss
    BY <2>3, <2>5, SMT
  <2> QED
    BY <1>0, <2>1, <2>2, <2>4, <2>6 DEF Enclosed, FillWithinExcursions
<1>4. CASE PollExits \/ PollKeeps \/ PollBlind \/ SavePeak \/ Restart \/ UNCHANGED vars
  <2>1. bar' = bar /\ price' = price /\ walk' = walk
    BY <1>4 DEF PollExits, PollKeeps, PollBlind, SavePeak, Restart, vars, path
  <2> QED
    BY <1>0, <2>1 DEF Enclosed, FillWithinExcursions
<1> QED
  BY <1>1, <1>2, <1>3, <1>4 DEF Next

(* The backtest never books a fill outside the excursions it reports, nor  *)
(* beyond the initial stop unless the bar gapped.                          *)
THEOREM FillHonest == Spec => []FillWithinExcursions
<1>1. Init => TypeOK /\ Enclosed
  BY ExitAssumption, TypeInit, EnclosedInit
<1>2. TypeOK /\ Enclosed /\ [Next]_vars => TypeOK' /\ Enclosed'
  BY ExitAssumption, TypeNext, EnclosedNext
<1>3. Enclosed => FillWithinExcursions
  BY DEF Enclosed
<1> QED
  BY <1>1, <1>2, <1>3, PTL DEF Spec
-----------------------------------------------------------------------------
(* The peak of the monitor once it has acted on the last trade.            *)
Best == IF seen THEN live.peak ELSE Higher(live.peak, price)

(* While the monitor has acted on every trade but perhaps the last, it     *)
(* knows a peak as good as the walk's, no earlier trade of the bar crossed *)
(* the walk's stop or target, and if the walk is out then the last trade   *)
(* takes the monitor out.                                                  *)
Covered ==
  ~missed /\ live.open =>
    /\ walk.peak <= Best
    /\ bar.n > 0 => bar.h <= Best
    /\ walk.open /\ bar.n > 0 =>
         /\ EffStop(walk.peak) < bar.l * Scale \/ (~seen /\ bar.l = price)
         /\ TakesProfit(bar.h) => ~seen /\ bar.h = price
    /\ now >= plan.horizon => ~seen
    /\ ~walk.open => ~seen /\ Reason(Best)

LEMMA CoveredInit == ExitAssumption /\ Init => Covered
<1> SUFFICES ASSUME ExitAssumption, Init PROVE Covered
  OBVIOUS
<1>1. Fill \in Int
  BY TypeInit, TypePlan, FillInt
<1>2. Fill <= Higher(Fill, Fill)
  BY <1>1, HigherInt
<1> QED
  BY <1>2 DEF Init, Covered, Best

LEMMA BestInt == ASSUME TypeOK PROVE Best \in Int /\ live.peak <= Best
<1>1. live.peak \in Int /\ price \in Int
  BY DEF TypeOK
<1>2. Higher(live.peak, price) \in Int /\ live.peak <= Higher(live.peak, price)
  BY <1>1, HigherInt
<1> QED
  BY <1>1, <1>2, SMT DEF Best

LEMMA CoveredTick ==
  ASSUME ExitAssumption, TypeOK, Covered, Tick
  PROVE  Covered'
<1> SUFFICES ASSUME ~missed', live'.open PROVE Covered'
  BY DEF Covered
<1>0. PlanOK
  BY TypePlan
<1>1. ~missed /\ seen /\ live.open /\ live' = live /\ walk' = walk /\ ~seen'
      /\ side' = side /\ plan' = plan
  BY DEF Tick, monitor
<1>2. /\ walk.open /\ walk.peak <= live.peak /\ (bar.n > 0 => bar.h <= live.peak)
      /\ bar.n > 0 => /\ EffStop(walk.peak) < bar.l * Scale
                     /\ ~TakesProfit(bar.h)
  BY <1>1 DEF Covered, Best
<1>3. PICK p \in Prices :
        /\ price' = side * p
        /\ bar' = IF bar.n = 0
                  THEN [n |-> 1, o |-> side * p, h |-> side * p, l |-> side * p]
                  ELSE [n |-> bar.n + 1, o |-> bar.o, h |-> Higher(bar.h, side * p),
                        l |-> Lower(bar.l, side * p)]
  BY DEF Tick
<1> DEFINE q == side * p
<1>4. q \in Int
  BY <1>0, SignedPrice
<1> HIDE DEF q
<1>5. price' = q /\ Best' = Higher(live.peak, q)
  BY <1>1, <1>3 DEF q, Best
<1>6. live.peak \in Int /\ walk.peak \in Int /\ bar.n \in Nat /\ bar.h \in Int /\ bar.l \in Int
  BY SMT DEF TypeOK, ExitAssumption
<1>7. live.peak <= Higher(live.peak, q) /\ q <= Higher(live.peak, q) /\ Higher(live.peak, q) \in Int
  BY <1>4, <1>6, HigherInt
<1>8. walk.peak <= Best'
  BY <1>2, <1>5, <1>6, <1>7, SMT
<1>9. bar'.h <= Best' /\ (bar'.h = q \/ (bar'.h = bar.h /\ bar.n > 0))
      /\ (bar'.l = q \/ (bar'.l = bar.l /\ bar.n > 0))
  <2>1. CASE bar.n = 0
    <3>1. bar'.h = q /\ bar'.l = q
      BY <1>3, <2>1 DEF q
    <3> QED
      BY <3>1, <1>5, <1>7
  <2>2. CASE bar.n # 0
    <3>1. bar'.h = Higher(bar.h, q) /\ bar'.l = Lower(bar.l, q)
      BY <1>3, <2>2 DEF q
    <3>2. bar.n > 0
      BY <1>6, <2>2, SMT
    <3>3. bar.h <= live.peak
      BY <1>2, <3>2
    <3>4. Higher(bar.h, q) \in {bar.h, q} /\ Lower(bar.l, q) \in {bar.l, q}
      BY <1>4, <1>6, HigherInt
    <3>5. Higher(bar.h, q) <= Higher(live.peak, q)
      BY <1>4, <1>6, <3>3, SMT DEF Higher
    <3> QED
      BY <3>1, <3>2, <3>4, <3>5, <1>5
  <2> QED
    BY <2>1, <2>2
<1>10. EffStop(walk.peak)' = EffStop(walk.peak)
  BY <1>1 DEF EffStop, Trailing, StopLoss, Level, Fill
<1>11. TakesProfit(bar.h)' = TakesProfit(bar'.h)
  BY <1>1 DEF TakesProfit, Level, Fill
<1>12. EffStop(walk.peak)' < bar'.l * Scale \/ bar'.l = price'
  BY <1>2, <1>5, <1>9, <1>10
<1>13. TakesProfit(bar.h)' => bar'.h = price'
  BY <1>2, <1>5, <1>9, <1>11
<1> QED
  BY <1>1, <1>2, <1>8, <1>9, <1>12, <1>13 DEF Covered

LEMMA CoveredPoll ==
  ASSUME ExitAssumption, TypeOK, Covered, PollKeeps
  PROVE  Covered'
<1> SUFFICES ASSUME ~missed', live'.open PROVE Covered'
  BY DEF Covered
<1>0. PlanOK
  BY TypePlan
<1>1. /\ ~missed /\ live.open /\ ~Reason(PeakNow) /\ seen' /\ walk' = walk
      /\ side' = side /\ plan' = plan /\ bar' = bar /\ price' = price /\ now' = now
  BY DEF PollKeeps, Polls, path
<1>2. /\ ~(now >= plan.horizon) /\ ~(price * Scale <= EffStop(PeakNow))
      /\ ~TakesProfit(price)
  BY <1>1 DEF Reason
<1>3. PeakNow = Higher(live.peak, price)
  BY <1>2 DEF PeakNow
<1>4. live'.peak = PeakNow
  BY DEF PollKeeps, TypeOK
<1>5. Best' = PeakNow
  BY <1>1, <1>4 DEF Best
<1>6. /\ live.peak \in Int /\ walk.peak \in Int /\ bar.h \in Int /\ PeakNow \in Int
      /\ Best \in Int /\ price * Scale \in Int
  BY <1>0, PeakNowInt, BestInt, Params, SMT DEF TypeOK
<1>7. Best <= PeakNow
  BY <1>3, <1>6, PeakNowInt, SMT DEF Best
<1>8. walk.open
  BY <1>1, <1>2, <1>3 DEF Covered, Best, Reason
<1>9. walk.peak <= PeakNow /\ (bar.n > 0 => bar.h <= PeakNow)
  <2>1. walk.peak <= Best /\ (bar.n > 0 => bar.h <= Best)
    BY <1>1 DEF Covered
  <2> QED
    BY <1>6, <1>7, <2>1, SMT
<1>10. EffStop(walk.peak)' = EffStop(walk.peak) /\ TakesProfit(bar.h)' = TakesProfit(bar.h)
  BY <1>1 DEF EffStop, Trailing, StopLoss, Level, Fill, TakesProfit
<1>11. ASSUME bar.n > 0
       PROVE  EffStop(walk.peak) < bar.l * Scale /\ ~TakesProfit(bar.h)
  <2>1. /\ EffStop(walk.peak) < bar.l * Scale \/ (~seen /\ bar.l = price)
        /\ TakesProfit(bar.h) => ~seen /\ bar.h = price
    BY <1>1, <1>8, <1>11 DEF Covered
  <2>2. EffStop(walk.peak) < price * Scale
    <3>1. EffStop(walk.peak) <= EffStop(PeakNow)
      BY <1>0, <1>6, <1>9, EffStopMono
    <3>2. EffStop(walk.peak) \in Int /\ EffStop(PeakNow) \in Int
      BY <1>0, <1>6, EffStopInt
    <3> QED
      BY <1>2, <1>6, <3>1, <3>2, SMT
  <2> QED
    BY <1>2, <2>1, <2>2
<1> QED
  BY <1>1, <1>2, <1>5, <1>8, <1>9, <1>10, <1>11 DEF Covered

LEMMA CoveredBar ==
  ASSUME ExitAssumption, TypeOK, Enclosed, Covered, BarClose
  PROVE  Covered'
<1> SUFFICES ASSUME ~missed', live'.open PROVE Covered'
  BY DEF Covered
<1>0. PlanOK
  BY TypePlan
<1>1. /\ ~missed /\ live.open /\ live' = live /\ seen' = seen /\ price' = price
      /\ now' = now /\ side' = side /\ plan' = plan
  BY DEF BarClose, monitor
<1>2. bar'.n = 0 /\ bar.n > 0
  <2>1. bar.n > 0
    BY SMT DEF BarClose, ExitAssumption
  <2> QED
    BY <2>1 DEF BarClose, TypeOK
<1>3. /\ Best' = Best /\ Reason(Best)' = Reason(Best)
  BY <1>1 DEF Best, Reason, EffStop, Trailing, StopLoss, Level, Fill, TakesProfit
<1>4. /\ walk.peak <= Best /\ bar.h <= Best
      /\ (now >= plan.horizon => ~seen) /\ (~walk.open => ~seen /\ Reason(Best))
  BY <1>1, <1>2 DEF Covered
<1>5. CASE ~walk.open
  <2>1. walk' = walk
    BY <1>5 DEF BarClose
  <2> QED
    BY <1>1, <1>2, <1>3, <1>4, <1>5, <2>1 DEF Covered
<1>6. CASE walk.open
  <2> DEFINE W == Walked(walk)
             eff == EffStop(walk.peak)
  <2>1. walk' = W
    BY <1>6 DEF BarClose
  <2>2. /\ walk.peak \in Int /\ bar.h \in Int /\ bar.l \in Int /\ bar.o \in Int
        /\ Best \in Int /\ eff \in Int /\ EffStop(Best) \in Int /\ Scale \in Nat
        /\ bar.l * Scale \in Int /\ bar.o * Scale \in Int
    <3>1. walk.peak \in Int /\ bar.h \in Int /\ bar.l \in Int /\ bar.o \in Int /\ Best \in Int
      BY BestInt DEF TypeOK
    <3>2. bar.l * Scale \in Int /\ bar.o * Scale \in Int /\ Scale \in Nat
      BY <1>0, <3>1, Params, SMT
    <3> QED
      BY <1>0, <3>1, <3>2, EffStopInt
  <2>3. eff <= EffStop(Best)
    BY <1>0, <1>4, <2>2, EffStopMono
  <2>4. bar.l * Scale <= eff => ~seen /\ Reason(Best)
    <3>1. eff < bar.l * Scale \/ (~seen /\ bar.l = price)
      BY <1>1, <1>2, <1>6 DEF Covered
    <3>2. bar.l * Scale <= eff => bar.l * Scale <= EffStop(Best) /\ ~(eff < bar.l * Scale)
      BY <2>2, <2>3, SMT
    <3> QED
      BY <3>1, <3>2 DEF Reason
  <2>5. bar.o * Scale <= eff => bar.l * Scale <= eff
    <3>1. bar.l <= bar.o
      BY DEF Enclosed
    <3>2. bar.l * Scale <= bar.o * Scale
      BY <2>2, <3>1, ScaledMono
    <3> QED
      BY <2>2, <3>2, SMT
  <2>6. TakesProfit(bar.h) => ~seen /\ Reason(Best)
    BY <1>1, <1>2, <1>6 DEF Covered, Reason
  <2>7. now >= plan.horizon => ~seen /\ Reason(Best)
    BY <1>4 DEF Reason
  <2>8. W.peak \in {walk.peak, Higher(walk.peak, bar.h)}
    BY DEF Walked, Exit, TypeOK
  <2>9. Higher(walk.peak, bar.h) <= Best
    BY <1>4, <2>2, SMT DEF Higher
  <2>10. W.peak <= Best
    BY <1>4, <2>8, <2>9
  <2>11. \/ bar.o * Scale <= eff \/ bar.l * Scale <= eff
         \/ TakesProfit(bar.h) \/ now >= plan.horizon \/ W.open
    BY <1>6, Zenon DEF Walked, Exit, TypeOK
  <2>12. ~W.open => ~seen /\ Reason(Best)
    BY <2>4, <2>5, <2>6, <2>7, <2>11
  <2> HIDE DEF W
  <2>13. ~(0 > 0)
    BY SMT
  <2> QED
    BY <1>1, <1>2, <1>3, <1>4, <2>1, <2>10, <2>12, <2>13 DEF Covered
<1> QED
  BY <1>5, <1>6

LEMMA CoveredNext ==
  ASSUME ExitAssumption, TypeOK, Enclosed, Covered, [Next]_vars
  PROVE  Covered'
<1>1. CASE PollExits
  BY <1>1 DEF PollExits, Covered, TypeOK
<1>2. CASE PollBlind \/ Restart \/ DataEnd
  BY <1>2 DEF PollBlind, Restart, DataEnd, Covered
<1>3. CASE SavePeak
  <2>1. live'.peak = live.peak /\ live'.open = live.open
    BY <1>3 DEF SavePeak, TypeOK
  <2>2. /\ missed' = missed /\ seen' = seen /\ price' = price /\ bar' = bar
        /\ now' = now /\ walk' = walk /\ side' = side /\ plan' = plan
    BY <1>3 DEF SavePeak, path
  <2> QED
    BY <2>1, <2>2 DEF Covered, Best, Reason, EffStop, Trailing, StopLoss, Level, Fill,
                      TakesProfit
<1>4. CASE UNCHANGED vars
  BY <1>4 DEF vars, path, monitor, Covered, Best, Reason, EffStop, Trailing, StopLoss,
              Level, Fill, TakesProfit
<1> QED
  BY <1>1, <1>2, <1>3, <1>4, CoveredTick, CoveredPoll, CoveredBar DEF Next

(* A monitor that acts on every trade leaves no later than the backtest,   *)
(* for every price path: the live exits are never looser than the ones     *)
(* that were measured.                                                     *)
THEOREM LiveFirst == Spec => []LiveLeavesFirst
<1>1. Init => TypeOK /\ Enclosed /\ Covered
  BY ExitAssumption, TypeInit, EnclosedInit, CoveredInit
<1>2. TypeOK /\ Enclosed /\ Covered /\ [Next]_vars => TypeOK' /\ Enclosed' /\ Covered'
  BY ExitAssumption, TypeNext, EnclosedNext, CoveredNext
<1>3. Covered => LiveLeavesFirst
  BY DEF Covered, LiveLeavesFirst
<1> QED
  BY <1>1, <1>2, <1>3, PTL DEF Spec
-----------------------------------------------------------------------------
(***************************************************************************)
(* The lab.  Its stop is a maximum over a set of tiers: a nonempty set of  *)
(* integers with an upper bound has one.                                   *)
(***************************************************************************)
LEMMA Least ==
  ASSUME NEW T, T \subseteq Nat, T # {}
  PROVE  \E x \in T : \A y \in T : x <= y
<1> DEFINE R == OpToRel(<, Nat)
<1>1. IsWellFoundedOn(R, Nat)
  BY NatLessThanWellFounded
<1> HIDE DEF R
<1>2. PICK x \in T : \A y \in T : ~(<<y, x>> \in R)
  BY <1>1, WFMin, Zenon
<1>3. R = {ss \in Nat \X Nat : ss[1] < ss[2]}
  BY DEF R, OpToRel
<1>4. \A y \in T : ~(y < x)
  BY <1>2, <1>3
<1> QED BY <1>4

LEMMA Greatest ==
  ASSUME NEW S, S \subseteq Int, S # {}, NEW b \in Int, \A x \in S : x <= b
  PROVE  Max(S) \in S /\ \A y \in S : y <= Max(S)
<1> DEFINE T == {b - x : x \in S}
<1>1. T \subseteq Nat /\ T # {}
  <2>1. ASSUME NEW x \in S PROVE b - x \in Nat
    <3>1. x \in Int /\ x <= b
      OBVIOUS
    <3> QED BY <3>1
  <2> QED BY <2>1
<1>2. PICK d \in T : \A e \in T : d <= e
  BY <1>1, Least
<1>3. PICK x \in S : d = b - x
  OBVIOUS
<1>4. \A y \in S : b - x <= b - y
  BY <1>2, <1>3
<1> HIDE DEF T
<1>5. ASSUME NEW y \in S PROVE x >= y
  <2>1. x \in Int /\ y \in Int /\ b - x <= b - y
    BY <1>4
  <2> QED BY <2>1
<1>6. Max(S) \in S /\ \A y \in S : Max(S) >= y
  BY <1>5, Zenon DEF Max
<1> QED BY <1>6, SMT

(* The parameters of a variant: production's tiers, target and horizon, or *)
(* more of each.                                                           *)
ParamsOK ==
  /\ params \in [tiers : SUBSET (Percent \X Percent), tp : Percent, min : Percent, until : Nat]
  /\ Production \subseteq params.tiers
  /\ plan.tp > 0 => params.tp = plan.tp

Walks == [open : BOOLEAN, peak : Int, adverse : Int, favor : Int, px : Int, gap : BOOLEAN]

Labs == [open : BOOLEAN, peak : Int, adverse : Int, favor : Int, px : Int, gap : BOOLEAN,
         extended : BOOLEAN, horizon : Nat]

TierLevels(p) ==
  {StopLoss} \cup
  {Level(p, t[2]) : t \in {t \in params.tiers : p * Scale > Level(Fill, -t[1])}}

LEMMA LevelBound ==
  ASSUME PlanOK, NEW p \in Int
  PROVE  \E b \in Int : \A q \in Percent : Level(p, q) <= b
<1>1. Scale \in Nat /\ 2 * Scale \in Nat
  BY ExitAssumption, SMT
<1>2. ASSUME NEW q \in Percent
      PROVE  Scale - side * q \in Nat /\ Scale - side * q <= 2 * Scale
  <2>1. q \in Nat /\ q <= Scale - 1
    BY <1>1 DEF Percent
  <2>2. side * q = q \/ side * q = -q
    BY <2>1 DEF PlanOK
  <2> DEFINE s == side * q
  <2>3. s = q \/ s = -q
    BY <2>2
  <2> HIDE DEF s
  <2>4. Scale - s \in Nat /\ Scale - s <= 2 * Scale
    BY <1>1, <2>1, <2>3
  <2> QED BY <2>4 DEF s
<1>3. CASE p <= 0
  <2>1. ASSUME NEW q \in Percent PROVE Level(p, q) <= 0
    <3> DEFINE k == Scale - side * q
    <3>1. k \in Nat
      BY <1>2
    <3> HIDE DEF k
    <3>2. p * k <= 0 * k /\ 0 * k = 0
      BY <1>3, <3>1, ScaledMono
    <3> QED BY <3>2 DEF Level, k
  <2> QED BY <2>1
<1>4. CASE p > 0
  <2>1. ASSUME NEW q \in Percent PROVE Level(p, q) <= 2 * Scale * p
    <3> DEFINE k == Scale - side * q
    <3>1. k \in Nat /\ k <= 2 * Scale
      BY <1>2
    <3> HIDE DEF k
    <3>2. p \in Nat /\ k * p <= (2 * Scale) * p /\ p * k = k * p
      BY <1>1, <1>4, <3>1, ScaledMono
    <3> QED BY <3>2 DEF Level, k
  <2>2. 2 * Scale * p \in Int
    BY <1>1
  <2> QED BY <2>1, <2>2
<1> QED BY <1>3, <1>4

LEMMA TightestIs ==
  ASSUME PlanOK, ParamsOK, NEW p \in Int
  PROVE  /\ Tightest(p) \in TierLevels(p) /\ Tightest(p) \in Int
         /\ \A v \in TierLevels(p) : v <= Tightest(p)
<1>1. \A t \in params.tiers : t[2] \in Percent /\ t[2] \in Int
  BY DEF ParamsOK, Percent
<1>2. StopLoss \in Int /\ \A q \in Percent : Level(p, q) \in Int
  <2>1. \A q \in Percent : q \in Int
    BY DEF Percent
  <2> QED BY <2>1, ExitAssumption, FillInt, LevelInt
<1>3. PICK b \in Int : \A q \in Percent : Level(p, q) <= b
  BY LevelBound
<1>4. \A v \in TierLevels(p) : v \in Int /\ v <= Higher(b, StopLoss)
  <2>1. ASSUME NEW v \in TierLevels(p), v # StopLoss PROVE v \in Int /\ v <= b
    <3>1. PICK t \in params.tiers : v = Level(p, t[2])
      BY <2>1 DEF TierLevels
    <3> QED BY <1>1, <1>2, <1>3, <3>1
  <2>2. Higher(b, StopLoss) \in Int /\ b <= Higher(b, StopLoss) /\ StopLoss <= Higher(b, StopLoss)
    BY <1>2, HigherInt
  <2> HIDE DEF TierLevels
  <2> QED BY <1>2, <2>1, <2>2
<1>5. TierLevels(p) \subseteq Int /\ TierLevels(p) # {} /\ Higher(b, StopLoss) \in Int
  BY <1>2, <1>4, HigherInt DEF TierLevels
<1>6. Tightest(p) = Max(TierLevels(p))
  BY DEF Tightest, TierLevels
<1> HIDE DEF TierLevels
<1>7. Max(TierLevels(p)) \in TierLevels(p) /\ \A y \in TierLevels(p) : y <= Max(TierLevels(p))
  BY <1>4, <1>5, Greatest
<1> QED BY <1>5, <1>6, <1>7

Unarmed(p) == ~(Arm > 0 /\ p * Scale >= Level(Fill, -Arm))

(* Short of breakeven the lab is never looser than production, and with    *)
(* production's tiers it is production.                                    *)
LEMMA TightestBinds ==
  ASSUME PlanOK, ParamsOK, NEW p \in Int, Unarmed(p)
  PROVE  /\ EffStop(p) <= Tightest(p)
         /\ params.tiers = Production => Tightest(p) = EffStop(p)
<1>0. /\ Fill \in Int /\ StopLoss \in Int /\ Scale \in Nat /\ Scale > 0
      /\ plan.trail \in Percent /\ plan.trail \in Int /\ Level(p, plan.trail) \in Int
  BY ExitAssumption, FillInt, Params, LevelInt
<1>1. EffStop(p) = Trailing(p)
  BY DEF EffStop, Unarmed
<1>2. Tightest(p) \in TierLevels(p) /\ Tightest(p) \in Int
      /\ \A v \in TierLevels(p) : v <= Tightest(p)
  BY TightestIs
<1>3. Level(Fill, -0) = Fill * Scale
  BY <1>0, SMT DEF Level, PlanOK
<1>4. p * Scale > Fill * Scale <=> p > Fill
  <2>1. p <= Fill => p * Scale <= Fill * Scale
    BY <1>0, ScaledMono
  <2>2. p > Fill => p * Scale >= Fill * Scale + Scale
    <3>1. p > Fill => (Fill + 1) * Scale <= p * Scale
      BY <1>0, ScaledMono
    <3>2. (Fill + 1) * Scale = Fill * Scale + Scale
      BY <1>0, SMT
    <3> QED BY <3>1, <3>2
  <2>3. p * Scale \in Int /\ Fill * Scale \in Int
    BY <1>0
  <2> QED BY <1>0, <2>1, <2>2, <2>3
<1>5. CASE plan.trail > 0 /\ p > Fill
  <2>1. Production = {<<0, plan.trail>>}
    BY <1>5 DEF Production
  <2>2. <<0, plan.trail>> \in params.tiers
    BY <2>1 DEF ParamsOK
  <2>3. Level(p, plan.trail) \in TierLevels(p) /\ StopLoss \in TierLevels(p)
    BY <1>3, <1>4, <1>5, <2>2 DEF TierLevels
  <2>4. EffStop(p) = Higher(StopLoss, Level(p, plan.trail))
    BY <1>1, <1>5 DEF Trailing
  <2>5. params.tiers = Production => TierLevels(p) \subseteq {StopLoss, Level(p, plan.trail)}
    BY <2>1 DEF TierLevels
  <2>6. EffStop(p) <= Tightest(p)
    BY <1>0, <1>2, <2>3, <2>4 DEF Higher
  <2>7. params.tiers = Production => Tightest(p) <= EffStop(p)
    BY <1>0, <1>2, <2>4, <2>5 DEF Higher
  <2>8. EffStop(p) \in Int
    BY <1>0, <2>4, HigherInt
  <2> QED BY <1>2, <2>6, <2>7, <2>8
<1>6. CASE ~(plan.trail > 0 /\ p > Fill)
  <2>1. EffStop(p) = StopLoss
    BY <1>1, <1>6 DEF Trailing
  <2>2. StopLoss \in TierLevels(p)
    BY DEF TierLevels
  <2>3. params.tiers = Production => TierLevels(p) = {StopLoss}
    <3>1. CASE plan.trail > 0
      <4>1. Production = {<<0, plan.trail>>} /\ ~(p * Scale > Level(Fill, -0))
        BY <1>3, <1>4, <1>6, <3>1 DEF Production
      <4> QED BY <4>1 DEF TierLevels
    <3>2. CASE ~(plan.trail > 0)
      BY <3>2 DEF Production, TierLevels
    <3> QED BY <3>1, <3>2
  <2> QED BY <1>2, <2>1, <2>2, <2>3
<1> QED BY <1>5, <1>6
-----------------------------------------------------------------------------
(* One bar, in the walk and in the lab.                                    *)
Is(w, o, p, a, f, x, g) ==
  w.open = o /\ w.peak = p /\ w.adverse = a /\ w.favor = f /\ w.px = x /\ w.gap = g

Longer(w, e, h) == w.extended = e /\ w.horizon = h

LEMMA SameWalk ==
  ASSUME NEW w \in Walks, NEW v,
         Is(v, w.open, w.peak, w.adverse, w.favor, w.px, w.gap)
  PROVE  AsWalk(v) = w
<1>1. w = [open |-> w.open, peak |-> w.peak, adverse |-> w.adverse, favor |-> w.favor,
           px |-> w.px, gap |-> w.gap]
  BY DEF Walks
<1> QED BY <1>1 DEF Is, AsWalk

LEMMA AsWalkFields ==
  ASSUME NEW v, NEW w, AsWalk(v) = w
  PROVE  Is(v, w.open, w.peak, w.adverse, w.favor, w.px, w.gap)
BY DEF AsWalk, Is

LEMMA WalkedBar ==
  ASSUME TypeOK
  PROVE  LET eff  == EffStop(walk.peak)
             lo   == Lower(walk.adverse, bar.l)
             hi   == Higher(walk.favor, bar.h)
             W    == Walked(walk)
             Out(px) == Is(W, FALSE, walk.peak, lo, hi, px, FALSE)
             past == ~(bar.o * Scale <= eff) /\ ~(bar.l * Scale <= eff)
         IN /\ bar.o * Scale <= eff
                 => Is(W, FALSE, walk.peak, Lower(walk.adverse, bar.o), walk.favor,
                       bar.o * Scale, TRUE)
            /\ ~(bar.o * Scale <= eff) /\ bar.l * Scale <= eff => Out(eff)
            /\ past /\ TakesProfit(bar.h) => Out(Level(Fill, -plan.tp))
            /\ past /\ ~TakesProfit(bar.h) /\ now >= plan.horizon => Out(price * Scale)
            /\ past /\ ~TakesProfit(bar.h) /\ ~(now >= plan.horizon)
                 => Is(W, walk.open, Higher(walk.peak, bar.h), lo, hi, walk.px, walk.gap)
<1> DEFINE eff  == EffStop(walk.peak)
           lo   == Lower(walk.adverse, bar.l)
           hi   == Higher(walk.favor, bar.h)
           op   == Lower(walk.adverse, bar.o)
           pk   == Higher(walk.peak, bar.h)
           tgt  == Level(Fill, -plan.tp)
           end  == price * Scale
           ops  == bar.o * Scale
           lows == bar.l * Scale
<1>1. walk \in Walks
  BY DEF TypeOK, Walks
<1> HIDE DEF eff, lo, hi, op, pk, tgt, end, ops, lows
<1>2. ops <= eff => Is(Walked(walk), FALSE, walk.peak, op, walk.favor, ops, TRUE)
  BY <1>1 DEF Walked, Walks, Exit, Is, eff, op, ops
<1>3. ~(ops <= eff) /\ lows <= eff => Is(Walked(walk), FALSE, walk.peak, lo, hi, eff, FALSE)
  BY <1>1 DEF Walked, Walks, Exit, Is, eff, lo, hi, ops, lows
<1>4. ~(ops <= eff) /\ ~(lows <= eff) /\ TakesProfit(bar.h)
        => Is(Walked(walk), FALSE, walk.peak, lo, hi, tgt, FALSE)
  BY <1>1 DEF Walked, Walks, Exit, Is, eff, lo, hi, ops, lows, tgt
<1>5. ~(ops <= eff) /\ ~(lows <= eff) /\ ~TakesProfit(bar.h) /\ now >= plan.horizon
        => Is(Walked(walk), FALSE, walk.peak, lo, hi, end, FALSE)
  BY <1>1 DEF Walked, Walks, Exit, Is, eff, lo, hi, ops, lows, end
<1>6. ~(ops <= eff) /\ ~(lows <= eff) /\ ~TakesProfit(bar.h) /\ ~(now >= plan.horizon)
        => Is(Walked(walk), walk.open, pk, lo, hi, walk.px, walk.gap)
  BY <1>1 DEF Walked, Walks, Is, eff, lo, hi, ops, lows, pk
<1> QED BY <1>2, <1>3, <1>4, <1>5, <1>6 DEF eff, lo, hi, op, pk, tgt, end, ops, lows

LEMMA VariantBar ==
  ASSUME lab \in Labs
  PROVE  LET eff  == Tightest(lab.peak)
             lo   == Lower(lab.adverse, bar.l)
             hi   == Higher(lab.favor, bar.h)
             V    == VariantWalked(lab)
             Out(px) == /\ Is(V, FALSE, lab.peak, lo, hi, px, FALSE)
                        /\ Longer(V, lab.extended, lab.horizon)
             On   == Is(V, lab.open, Higher(lab.peak, bar.h), lo, hi, lab.px, lab.gap)
             past == ~(bar.o * Scale <= eff) /\ ~(bar.l * Scale <= eff)
         IN /\ bar.o * Scale <= eff
                 => /\ Is(V, FALSE, lab.peak, Lower(lab.adverse, bar.o), lab.favor,
                          bar.o * Scale, TRUE)
                    /\ Longer(V, lab.extended, lab.horizon)
            /\ ~(bar.o * Scale <= eff) /\ bar.l * Scale <= eff => Out(eff)
            /\ past /\ TakesTarget(bar.h) => Out(Level(Fill, -params.tp))
            /\ past /\ ~TakesTarget(bar.h) /\ now < lab.horizon
                 => On /\ Longer(V, lab.extended, lab.horizon)
            /\ past /\ ~TakesTarget(bar.h) /\ ~(now < lab.horizon) /\ Extends(lab)
                 => On /\ Longer(V, TRUE, params.until)
            /\ past /\ ~TakesTarget(bar.h) /\ ~(now < lab.horizon) /\ ~Extends(lab)
                 => Out(price * Scale)
<1> DEFINE eff  == Tightest(lab.peak)
           lo   == Lower(lab.adverse, bar.l)
           hi   == Higher(lab.favor, bar.h)
           op   == Lower(lab.adverse, bar.o)
           pk   == Higher(lab.peak, bar.h)
           tgt  == Level(Fill, -params.tp)
           end  == price * Scale
           ops  == bar.o * Scale
           lows == bar.l * Scale
           V    == VariantWalked(lab)
<1> HIDE DEF eff, lo, hi, op, pk, tgt, end, ops, lows
<1>2. ops <= eff => /\ Is(V, FALSE, lab.peak, op, lab.favor, ops, TRUE)
                    /\ Longer(V, lab.extended, lab.horizon)
  BY DEF VariantWalked, Labs, Exit, Is, Longer, eff, op, ops
<1>3. ~(ops <= eff) /\ lows <= eff
        => Is(V, FALSE, lab.peak, lo, hi, eff, FALSE) /\ Longer(V, lab.extended, lab.horizon)
  BY DEF VariantWalked, Labs, Exit, Is, Longer, eff, lo, hi, ops, lows
<1>4. ~(ops <= eff) /\ ~(lows <= eff) /\ TakesTarget(bar.h)
        => Is(V, FALSE, lab.peak, lo, hi, tgt, FALSE) /\ Longer(V, lab.extended, lab.horizon)
  BY DEF VariantWalked, Labs, Exit, Is, Longer, eff, lo, hi, ops, lows, tgt
<1>5. ~(ops <= eff) /\ ~(lows <= eff) /\ ~TakesTarget(bar.h) /\ now < lab.horizon
        => Is(V, lab.open, pk, lo, hi, lab.px, lab.gap) /\ Longer(V, lab.extended, lab.horizon)
  BY DEF VariantWalked, Labs, Is, Longer, eff, lo, hi, ops, lows, pk
<1>6. ~(ops <= eff) /\ ~(lows <= eff) /\ ~TakesTarget(bar.h) /\ ~(now < lab.horizon) /\ Extends(lab)
        => Is(V, lab.open, pk, lo, hi, lab.px, lab.gap) /\ Longer(V, TRUE, params.until)
  BY DEF VariantWalked, Labs, Is, Longer, eff, lo, hi, ops, lows, pk
<1>7. ~(ops <= eff) /\ ~(lows <= eff) /\ ~TakesTarget(bar.h) /\ ~(now < lab.horizon) /\ ~Extends(lab)
        => Is(V, FALSE, lab.peak, lo, hi, end, FALSE) /\ Longer(V, lab.extended, lab.horizon)
  BY DEF VariantWalked, Labs, Exit, Is, Longer, eff, lo, hi, ops, lows, end
<1> QED BY <1>2, <1>3, <1>4, <1>5, <1>6, <1>7 DEF eff, lo, hi, op, pk, tgt, end, ops, lows
-----------------------------------------------------------------------------
(* While both are open and nothing was extended, they agree on the peak    *)
(* and on when the time is up.                                             *)
Abreast ==
  ~BreakevenArmed /\ lab.open /\ ~lab.extended
    => lab.horizon = plan.horizon /\ lab.peak = walk.peak

LabTypes == TypeOK /\ ParamsOK /\ lab \in Labs
LabInv   == VariantMirrorsWalk /\ Abreast

LEMMA LabStarts == LabInit => LabTypes /\ LabInv
<1> SUFFICES ASSUME LabInit PROVE LabTypes /\ LabInv
  OBVIOUS
<1>1. TypeOK /\ PlanOK
  BY ExitAssumption, TypeInit, TypePlan DEF LabInit
<1>2. Fill \in Int /\ plan.trail \in Percent /\ plan.tp \in Percent /\ plan.horizon \in Nat
      /\ 0 \in Percent
  BY <1>1, ExitAssumption, FillInt, Params DEF Percent
<1>3. PICK r \in Ratchets, far \in FarTargets, x \in Extensions :
        params = [tiers |-> Production \cup r, tp |-> IF plan.tp > 0 THEN plan.tp ELSE far,
                  min |-> x.min, until |-> plan.horizon + x.by]
  BY DEF LabInit
<1>4. Production \subseteq Percent \X Percent
  BY <1>2 DEF Production
<1>5. r \subseteq Percent \X Percent /\ far \in Percent /\ x.min \in Percent /\ x.by \in Nat
  BY LabAssumption
<1>6. ParamsOK
  <2>1. plan.horizon + x.by \in Nat
    BY <1>2, <1>5
  <2> QED BY <1>2, <1>3, <1>4, <1>5, <2>1 DEF ParamsOK
<1>7. lab \in Labs
  BY <1>2 DEF LabInit, Labs
<1>8. /\ lab.open /\ ~lab.extended /\ lab.horizon = plan.horizon /\ lab.peak = walk.peak
      /\ walk.open /\ AsWalk(lab) = walk
  BY DEF LabInit, Init, AsWalk
<1>9. LabInv
  BY <1>8 DEF LabInv, VariantMirrorsWalk, Abreast
<1> QED BY <1>1, <1>6, <1>7, <1>9 DEF LabTypes

LEMMA ExitTyped ==
  ASSUME NEW w \in Labs, NEW px \in Int, NEW gap \in BOOLEAN
  PROVE  Exit(w, px, gap) \in Labs
BY DEF Exit, Labs

LEMMA VariantTyped ==
  ASSUME LabTypes
  PROVE  VariantWalked(lab) \in Labs
<1> DEFINE lo  == Lower(lab.adverse, bar.l)
           hi  == Higher(lab.favor, bar.h)
           x   == [lab EXCEPT !.adverse = lo, !.favor = hi]
           op  == Lower(lab.adverse, bar.o)
           v   == [lab EXCEPT !.adverse = op]
           pk  == Higher(lab.peak, bar.h)
           y   == [x EXCEPT !.peak = pk]
           z   == [y EXCEPT !.extended = TRUE, !.horizon = params.until]
<1>0. PlanOK /\ lab \in Labs
  BY TypePlan DEF LabTypes
<1>1. /\ lab.peak \in Int /\ lab.adverse \in Int /\ lab.favor \in Int
      /\ bar.o \in Int /\ bar.h \in Int /\ bar.l \in Int /\ price \in Int
  BY <1>0 DEF LabTypes, TypeOK, Labs
<1>2. Tightest(lab.peak) \in Int
  BY <1>0, <1>1, TightestIs DEF LabTypes
<1>3. params.tp \in Int /\ -params.tp \in Int /\ params.until \in Nat
  BY DEF LabTypes, ParamsOK, Percent
<1>4. Level(Fill, -params.tp) \in Int
  BY <1>0, <1>3, ExitAssumption, FillInt, LevelInt
<1>5. bar.o * Scale \in Int /\ price * Scale \in Int
  BY <1>1, ExitAssumption
<1>6. lo \in Int /\ hi \in Int /\ op \in Int /\ pk \in Int
  BY <1>1, HigherInt
<1> HIDE DEF lo, hi, op, pk
<1>7. x \in Labs /\ v \in Labs /\ y \in Labs /\ z \in Labs
  BY <1>0, <1>3, <1>6 DEF Labs
<1>8. VariantWalked(lab) =
        IF bar.o * Scale <= Tightest(lab.peak) THEN Exit(v, bar.o * Scale, TRUE)
        ELSE IF bar.l * Scale <= Tightest(lab.peak) THEN Exit(x, Tightest(lab.peak), FALSE)
        ELSE IF TakesTarget(bar.h) THEN Exit(x, Level(Fill, -params.tp), FALSE)
        ELSE IF now < lab.horizon THEN y
        ELSE IF Extends(lab) THEN z
        ELSE Exit(x, price * Scale, FALSE)
  BY <1>0 DEF VariantWalked, Labs, lo, hi, op, pk
<1> HIDE DEF x, v, y, z
<1>9. /\ Exit(v, bar.o * Scale, TRUE) \in Labs /\ Exit(x, Tightest(lab.peak), FALSE) \in Labs
      /\ Exit(x, Level(Fill, -params.tp), FALSE) \in Labs
      /\ Exit(x, price * Scale, FALSE) \in Labs
  BY <1>2, <1>4, <1>5, <1>7, ExitTyped
<1> QED BY <1>7, <1>8, <1>9, Zenon

LEMMA LabTyped ==
  ASSUME LabTypes, [LabNext]_<<vars, labVars>>
  PROVE  LabTypes'
<1>0. TypeOK /\ lab \in Labs
  BY DEF LabTypes
<1>1. TypeOK' /\ UNCHANGED <<side, plan, params>>
  <2>1. CASE [Next]_vars /\ UNCHANGED params
    <3>1. TypeOK'
      BY <1>0, <2>1, ExitAssumption, TypeNext
    <3> QED BY <2>1, <3>1, Frame
  <2>2. CASE /\ Fault("data")
             /\ UNCHANGED <<side, plan, path, seen, monitor, walk, missed, params>>
    <3>1. faults' \in Nat
      BY <1>0, <2>2 DEF Fault, TypeOK
    <3> QED BY <1>0, <2>2, <3>1 DEF TypeOK, path, monitor
  <2>3. LabBarClose => [Next]_vars /\ UNCHANGED params
    BY DEF LabBarClose, Next
  <2>4. LabDataEnd => \/ [Next]_vars /\ UNCHANGED params
                      \/ /\ Fault("data")
                         /\ UNCHANGED <<side, plan, path, seen, monitor, walk, missed, params>>
    BY DEF LabDataEnd, Next
  <2>5. ~LabBarClose /\ ~LabDataEnd => [Next]_vars /\ UNCHANGED params
    BY DEF LabNext, Next, labVars
  <2> QED BY <2>1, <2>2, <2>3, <2>4, <2>5
<1>2. ParamsOK'
  BY <1>1 DEF LabTypes, ParamsOK, Production
<1>3. price * Scale \in Int
  BY <1>0, ExitAssumption DEF TypeOK
<1>4. lab' = lab \/ lab' = VariantWalked(lab) \/ lab' = Exit(lab, price * Scale, FALSE)
  BY DEF LabNext, LabBarClose, LabDataEnd, OutOfBars, labVars
<1>5. lab' \in Labs
  BY <1>0, <1>3, <1>4, VariantTyped, ExitTyped
<1> QED BY <1>1, <1>2, <1>5 DEF LabTypes
-----------------------------------------------------------------------------
(* The breakeven stop stays armed: the walk's peak only advances.          *)
LEMMA StaysArmed ==
  ASSUME LabTypes, UNCHANGED <<side, plan>>, walk' = walk \/ walk' = Walked(walk) \/ walk'.peak = walk.peak,
         ~BreakevenArmed'
  PROVE  ~BreakevenArmed
<1>0. /\ TypeOK /\ PlanOK /\ Scale \in Nat
      /\ walk.peak \in Int /\ bar.h \in Int
      /\ Arm \in Percent /\ -Arm \in Int /\ Fill \in Int /\ Level(Fill, -Arm) \in Int
  BY TypePlan, ExitAssumption, Params, FillInt, LevelInt DEF LabTypes, TypeOK
<1>1. Level(Fill, -Arm)' = Level(Fill, -Arm)
  BY DEF Level, Fill
<1>2. Higher(walk.peak, bar.h) \in Int /\ walk.peak <= Higher(walk.peak, bar.h)
  BY <1>0, HigherInt
<1>3. Walked(walk).peak = walk.peak \/ Walked(walk).peak = Higher(walk.peak, bar.h)
  BY <1>0, WalkedBar DEF Is
<1>4. walk'.peak \in Int /\ walk.peak <= walk'.peak
  BY <1>0, <1>2, <1>3
<1>5. walk.peak * Scale <= walk'.peak * Scale
  BY <1>0, <1>4, ScaledMono
<1>6. walk.peak * Scale \in Int /\ walk'.peak * Scale \in Int
  BY <1>0, <1>4
<1> QED BY <1>0, <1>1, <1>5, <1>6 DEF BreakevenArmed

LEMMA MirrorsOver ==
  ASSUME LabTypes, LabInv, UNCHANGED <<side, plan, params, walk>>,
         \/ lab' = lab
         \/ lab.extended /\ lab'.extended
         \/ ~walk.open /\ ~lab'.open /\ lab'.extended = lab.extended /\ lab.open
  PROVE  LabInv'
<1>0. BreakevenArmed' = BreakevenArmed /\ Level(Fill, -params.min)' = Level(Fill, -params.min)
      /\ Production' = Production
  BY DEF BreakevenArmed, Level, Fill, Production
<1>1. CASE lab' = lab
  BY <1>0, <1>1 DEF LabInv, VariantMirrorsWalk, Abreast, AsWalk
<1>2. CASE lab.extended /\ lab'.extended
  BY <1>0, <1>2 DEF LabInv, VariantMirrorsWalk, Abreast
<1>3. CASE ~walk.open /\ ~lab'.open /\ lab'.extended = lab.extended /\ lab.open
  <2>1. ~BreakevenArmed => lab.extended
    BY <1>3 DEF LabInv, VariantMirrorsWalk
  <2> QED BY <1>0, <1>2, <1>3, <2>1 DEF LabInv, VariantMirrorsWalk, Abreast
<1> QED BY <1>1, <1>2, <1>3

LEMMA BarMirrored ==
  ASSUME LabTypes, LabInv, LabBarClose
  PROVE  LabInv'
<1>0. /\ TypeOK /\ PlanOK /\ ParamsOK /\ lab \in Labs /\ walk \in Walks
      /\ UNCHANGED <<side, plan, params>>
      /\ lab' = IF lab.open THEN VariantWalked(lab) ELSE lab
      /\ walk' = IF walk.open THEN Walked(walk) ELSE walk
  BY TypePlan DEF LabTypes, TypeOK, Walks, LabBarClose, BarClose
<1>1. Level(Fill, -params.min)' = Level(Fill, -params.min) /\ Production' = Production
  BY <1>0 DEF Level, Fill, Production
<1> SUFFICES ASSUME ~BreakevenArmed' PROVE LabInv'
  BY DEF LabInv, VariantMirrorsWalk, Abreast
<1>2. ~BreakevenArmed
  BY <1>0, StaysArmed
<1>3. VariantMirrorsWalk /\ Abreast
  BY DEF LabInv
<1>4. walk' \in Walks
  BY <1>0, ExitAssumption, WalkedType DEF Walks
<1>5. CASE ~lab.open
  <2>1. lab' = lab
    BY <1>0, <1>5
  <2>2. ~lab.extended /\ params.tiers = Production /\ params.tp = plan.tp => AsWalk(lab) = walk
    BY <1>2, <1>3 DEF VariantMirrorsWalk
  <2>3. AsWalk(lab).open = lab.open
    BY DEF AsWalk
  <2>4. ~lab.extended /\ params.tiers = Production /\ params.tp = plan.tp => walk' = walk
    BY <1>0, <1>5, <2>2, <2>3
  <2>5. lab.extended => walk' = walk
    BY <1>0, <1>2, <1>3 DEF VariantMirrorsWalk
  <2> QED BY <1>0, <1>1, <1>2, <1>3, <1>5, <2>1, <2>4, <2>5
          DEF LabInv, VariantMirrorsWalk, Abreast, AsWalk
<1>6. CASE lab.open /\ lab.extended
  <2>1. walk' = walk
    BY <1>0, <1>2, <1>3, <1>6 DEF VariantMirrorsWalk
  <2>2. VariantWalked(lab).extended
    BY <1>0, <1>6, VariantBar DEF Is, Longer
  <2> QED BY <1>0, <1>6, <2>1, <2>2, MirrorsOver
<1>7. CASE lab.open /\ ~lab.extended
  <2> DEFINE V   == VariantWalked(lab)
             W   == Walked(walk)
             t   == Tightest(lab.peak)
             e   == EffStop(walk.peak)
             o   == bar.o * Scale
             l   == bar.l * Scale
             tgt == Level(Fill, -params.tp)
             end == price * Scale
             lo(w) == Lower(w.adverse, bar.l)
             hi(w) == Higher(w.favor, bar.h)
             Same == params.tiers = Production /\ params.tp = plan.tp
  <2>1. walk.open /\ lab.peak = walk.peak /\ lab.horizon = plan.horizon
        /\ lab' = V /\ walk' = W
    BY <1>0, <1>2, <1>3, <1>7 DEF VariantMirrorsWalk, Abreast
  <2>2. Same => Is(lab, walk.open, walk.peak, walk.adverse, walk.favor, walk.px, walk.gap)
    BY <1>2, <1>3, <1>7, AsWalkFields DEF VariantMirrorsWalk
  <2>3. t \in Int /\ e \in Int /\ e <= t /\ (Same => t = e)
    <3>1. walk.peak \in Int /\ Unarmed(walk.peak)
      BY <1>0, <1>2 DEF Walks, Unarmed, BreakevenArmed
    <3> QED BY <1>0, <2>1, <3>1, ExitAssumption, TightestBinds, TightestIs, EffStopInt
  <2>4. o \in Int /\ l \in Int /\ end \in Int /\ now \in Nat /\ plan.horizon \in Nat
    BY <1>0, ExitAssumption DEF TypeOK
  <2>5. (TakesProfit(bar.h) => TakesTarget(bar.h)) /\ (Same => (TakesTarget(bar.h) <=> TakesProfit(bar.h)))
    BY <1>0 DEF ParamsOK, TakesProfit, TakesTarget
  <2>6. Same => lo(lab) = lo(walk) /\ hi(lab) = hi(walk) /\ Lower(lab.adverse, bar.o) = Lower(walk.adverse, bar.o)
                /\ lab.favor = walk.favor /\ tgt = Level(Fill, -plan.tp)
                /\ lab.px = walk.px /\ lab.gap = walk.gap
    BY <2>2 DEF Is
  <2> HIDE DEF V, W, t, e, o, l, tgt, end, lo, hi
  (* Who leaves unextended needs to match production only as production.   *)
  <2>7. ASSUME ~V.extended, ~V.open,
               Same => Is(V, W.open, W.peak, W.adverse, W.favor, W.px, W.gap)
        PROVE  LabInv'
    <3>1. Same => AsWalk(lab') = walk'
      BY <1>4, <2>1, <2>7, SameWalk
    <3> QED BY <1>0, <1>1, <2>1, <2>7, <3>1 DEF LabInv, VariantMirrorsWalk, Abreast
  <2>8. CASE o <= t
    <3>1. Is(V, FALSE, lab.peak, Lower(lab.adverse, bar.o), lab.favor, o, TRUE) /\ ~V.extended
      BY <1>0, <1>7, <2>8, VariantBar DEF Longer, V, t, o
    <3>2. Same => Is(W, FALSE, walk.peak, Lower(walk.adverse, bar.o), walk.favor, o, TRUE)
      BY <1>0, <2>3, <2>8, WalkedBar DEF W, e, o
    <3> QED BY <2>1, <2>6, <2>7, <3>1, <3>2 DEF Is
  <2>9. CASE ~(o <= t) /\ l <= t
    <3>1. Is(V, FALSE, lab.peak, lo(lab), hi(lab), t, FALSE) /\ ~V.extended
      BY <1>0, <1>7, <2>9, VariantBar DEF Longer, V, t, o, l, lo, hi
    <3>2. Same => Is(W, FALSE, walk.peak, lo(walk), hi(walk), e, FALSE)
      BY <1>0, <2>3, <2>9, WalkedBar DEF W, e, o, l, lo, hi
    <3> QED BY <2>1, <2>3, <2>6, <2>7, <3>1, <3>2 DEF Is
  <2>10. CASE ~(o <= t) /\ ~(l <= t)
    <3>0. ~(o <= e) /\ ~(l <= e)
      BY <2>3, <2>4, <2>10
    <3>1. CASE TakesTarget(bar.h)
      <4>1. Is(V, FALSE, lab.peak, lo(lab), hi(lab), tgt, FALSE) /\ ~V.extended
        BY <1>0, <1>7, <2>10, <3>1, VariantBar DEF Longer, V, t, o, l, lo, hi, tgt
      <4>2. Same => Is(W, FALSE, walk.peak, lo(walk), hi(walk), Level(Fill, -plan.tp), FALSE)
        BY <1>0, <2>5, <3>0, <3>1, WalkedBar DEF W, e, o, l, lo, hi
      <4> QED BY <2>1, <2>6, <2>7, <4>1, <4>2 DEF Is
    <3>2. CASE ~TakesTarget(bar.h) /\ now < plan.horizon
      <4>0. ~TakesProfit(bar.h) /\ ~(now >= plan.horizon)
        BY <2>4, <2>5, <3>2
      <4>1. /\ Is(V, lab.open, Higher(lab.peak, bar.h), lo(lab), hi(lab), lab.px, lab.gap)
            /\ ~V.extended /\ V.horizon = lab.horizon
        BY <1>0, <1>7, <2>1, <2>10, <3>2, VariantBar DEF Longer, V, t, o, l, lo, hi
      <4>2. Is(W, walk.open, Higher(walk.peak, bar.h), lo(walk), hi(walk), walk.px, walk.gap)
        BY <1>0, <3>0, <4>0, WalkedBar DEF W, e, o, l, lo, hi
      <4>3. Same => Is(V, W.open, W.peak, W.adverse, W.favor, W.px, W.gap)
        BY <1>7, <2>1, <2>6, <4>1, <4>2 DEF Is
      <4>4. Same => AsWalk(lab') = walk'
        BY <1>4, <2>1, <4>3, SameWalk
      <4>5. W.open /\ V.peak = W.peak /\ V.horizon = plan.horizon
        BY <2>1, <4>1, <4>2 DEF Is
      <4> QED BY <1>0, <1>1, <2>1, <4>1, <4>4, <4>5 DEF LabInv, VariantMirrorsWalk, Abreast
    <3>3. CASE ~TakesTarget(bar.h) /\ ~(now < plan.horizon)
      <4>0. ~TakesProfit(bar.h) /\ now >= plan.horizon
        BY <2>4, <2>5, <3>3
      <4>1. Is(W, FALSE, walk.peak, lo(walk), hi(walk), end, FALSE)
        BY <1>0, <3>0, <4>0, WalkedBar DEF W, e, o, l, lo, hi, end
      <4>2. CASE Extends(lab)
        <5>1. V.extended
          BY <1>0, <2>1, <2>10, <3>3, <4>2, VariantBar DEF Longer, V, t, o, l
        <5>2. end >= Level(Fill, -params.min)
          BY <4>2 DEF Extends, end
        <5> QED BY <1>0, <1>1, <2>1, <4>1, <5>1, <5>2
                DEF LabInv, VariantMirrorsWalk, Abreast, Is
      <4>3. CASE ~Extends(lab)
        <5>1. Is(V, FALSE, lab.peak, lo(lab), hi(lab), end, FALSE) /\ ~V.extended
          BY <1>0, <1>7, <2>1, <2>10, <3>3, <4>3, VariantBar DEF Longer, V, t, o, l, lo, hi, end
        <5> QED BY <2>1, <2>6, <2>7, <4>1, <5>1 DEF Is
      <4> QED BY <4>2, <4>3
    <3> QED BY <3>1, <3>2, <3>3
  <2> QED BY <2>8, <2>9, <2>10
<1> QED BY <1>5, <1>6, <1>7

LEMMA EndMirrored ==
  ASSUME LabTypes, LabInv, LabDataEnd
  PROVE  LabInv'
<1>0. lab \in Labs /\ walk \in Walks /\ UNCHANGED <<side, plan, params>>
  BY DEF LabTypes, TypeOK, Walks, LabDataEnd, DataEnd
<1>1. Level(Fill, -params.min)' = Level(Fill, -params.min) /\ Production' = Production
  BY <1>0 DEF Level, Fill, Production
<1> DEFINE end == price * Scale
<1> HIDE DEF end
<1>2. lab.open => /\ Is(lab', FALSE, lab.peak, lab.adverse, lab.favor, end, FALSE)
                  /\ lab'.extended = lab.extended
  BY <1>0 DEF LabDataEnd, OutOfBars, Exit, Labs, Is, end
<1>3. ~lab.open => lab' = lab
  BY DEF LabDataEnd, OutOfBars
<1>4. CASE lab.open /\ ~walk.open /\ UNCHANGED walk
  BY <1>0, <1>2, <1>4, MirrorsOver DEF Is
<1>5. CASE DataEnd
  <2>1. /\ walk.open /\ walk' = Exit(walk, end, FALSE)
        /\ Is(walk', FALSE, walk.peak, walk.adverse, walk.favor, end, FALSE)
        /\ walk' \in Walks
    <3>1. walk.open /\ walk' = Exit(walk, end, FALSE)
      BY <1>5 DEF DataEnd, end
    <3>2. end \in Int
      BY ExitAssumption DEF LabTypes, TypeOK, end
    <3> QED BY <1>0, <3>1, <3>2 DEF Exit, Walks, Is
  <2> SUFFICES ASSUME ~BreakevenArmed' PROVE LabInv'
    BY DEF LabInv, VariantMirrorsWalk, Abreast
  <2>2. ~BreakevenArmed
    BY <1>0, <2>1, StaysArmed DEF Is
  <2>3. VariantMirrorsWalk
    BY DEF LabInv
  <2>4. ~lab.extended /\ ~lab'.open /\ ~lab'.extended
    BY <1>2, <1>3, <2>1, <2>2, <2>3 DEF VariantMirrorsWalk, Is
  <2>5. params.tiers = Production /\ params.tp = plan.tp
          => Is(lab, walk.open, walk.peak, walk.adverse, walk.favor, walk.px, walk.gap)
    BY <2>2, <2>3, <2>4, AsWalkFields DEF VariantMirrorsWalk
  <2>6. params.tiers = Production /\ params.tp = plan.tp
          => Is(lab', walk'.open, walk'.peak, walk'.adverse, walk'.favor, walk'.px, walk'.gap)
    BY <1>2, <2>1, <2>5 DEF Is
  <2>7. params.tiers = Production /\ params.tp = plan.tp => AsWalk(lab') = walk'
    BY <2>1, <2>6, SameWalk
  <2> QED BY <1>0, <1>1, <2>4, <2>7 DEF LabInv, VariantMirrorsWalk, Abreast
<1> QED BY <1>4, <1>5 DEF LabDataEnd, monitor

LEMMA MirrorStep ==
  ASSUME LabTypes, LabInv, [LabNext]_<<vars, labVars>>
  PROVE  LabInv'
<1>1. CASE LabBarClose
  BY <1>1, BarMirrored
<1>2. CASE LabDataEnd
  BY <1>2, EndMirrored
<1>3. CASE \/ (Tick \/ PollExits \/ PollKeeps \/ PollBlind \/ SavePeak \/ Restart) /\ UNCHANGED labVars
           \/ UNCHANGED <<vars, labVars>>
  <2>1. UNCHANGED <<side, plan, params, walk, lab>>
    BY <1>3 DEF Tick, PollExits, PollKeeps, PollBlind, SavePeak, Restart, vars, labVars
  <2> QED BY <2>1, MirrorsOver
<1> QED BY <1>1, <1>2, <1>3 DEF LabNext

(* For all prices, plans, ratchets, far targets and extensions the lab is  *)
(* production's walk bar for bar under production's parameters; a tighter  *)
(* variant only leaves earlier, and an extension begins only where         *)
(* production left in time (exit_variants.py:20).                          *)
THEOREM LabIsTrusted == LabSpec => []VariantMirrorsWalk
<1>1. LabInit => LabTypes /\ LabInv
  BY LabStarts
<1>2. LabTypes /\ LabInv /\ [LabNext]_<<vars, labVars>> => LabTypes' /\ LabInv'
  BY LabTyped, MirrorStep
<1>3. LabInv => VariantMirrorsWalk
  BY DEF LabInv
<1> QED
  BY <1>1, <1>2, <1>3, PTL DEF LabSpec
=============================================================================
