-------------------------------- MODULE ExitLab --------------------------------
(***************************************************************************)
(* The exit lab of the backtest (backtest/exit_variants.py): walk_variant, *)
(* which generalizes the exits of walk_candles, over the same bars.  What  *)
(* the lab says of a variant is worth something only as far as, with the   *)
(* parameters of production, it is walk_candles bar for bar.               *)
(***************************************************************************)
EXTENDS ExitRules, FiniteSetsExt

CONSTANTS
  Ratchets,    \* sets of tiers <<arm, trail>>, tried on top of production's
  FarTargets,  \* take-profits next to a trail; 0 is none
  Extensions   \* [min, by]: what an extension asks for and adds; by 0 is none

ASSUME LabAssumption ==
  /\ Ratchets \subseteq SUBSET (Percent \X Percent)
  /\ FarTargets \subseteq Percent
  /\ Extensions \subseteq [min : Percent, by : Nat]

VARIABLES
  params,   \* the arguments of walk_variant
  lab       \* walk_variant, as walk, with its horizon
labVars == <<params, lab>>

(* What production is, in terms of the lab: no breakeven stop among it.    *)
Production == IF plan.trail > 0 THEN {<<0, plan.trail>>} ELSE {}

LabInit ==
  /\ Init
  /\ \E r \in Ratchets, far \in FarTargets, x \in Extensions :
       params = [tiers |-> Production \cup r,
                 tp |-> IF plan.tp > 0 THEN plan.tp ELSE far,
                 min |-> x.min, until |-> plan.horizon + x.by]
  /\ lab = [open |-> TRUE, peak |-> Fill, adverse |-> Fill, favor |-> Fill,
            px |-> 0, gap |-> FALSE, extended |-> FALSE, horizon |-> plan.horizon]

(* A tier arms once the peak is beyond its level; the tightest binds.      *)
TightestAtArm(peak) ==
  Max({StopLoss} \cup
      {Level(peak, t[2]) : t \in {t \in params.tiers : peak * Scale >= Level(Fill, -t[1])}}) \* mutant
Tightest(peak) ==
  Max({StopLoss} \cup
      {Level(peak, t[2]) : t \in {t \in params.tiers : peak * Scale > Level(Fill, -t[1])}})

TakesTarget(p) == params.tp > 0 /\ p * Scale >= Level(Fill, -params.tp)

(* At the end of the horizon a winner is given more time, once.            *)
Extends(w) ==
  /\ ~w.extended
  /\ params.until > w.horizon
  /\ price * Scale >= Level(Fill, -params.min)

VariantWalked(w) ==
  LET eff == Tightest(w.peak)
      x   == [w EXCEPT !.adverse = Lower(@, bar.l), !.favor = Higher(@, bar.h)]
      y   == [x EXCEPT !.peak = Higher(@, bar.h)]
  IN IF bar.o * Scale <= eff
     THEN Exit([w EXCEPT !.adverse = Lower(@, bar.o)], bar.o * Scale, TRUE)
     ELSE IF bar.l * Scale <= eff THEN Exit(x, eff, FALSE)
     ELSE IF TakesTarget(bar.h) THEN Exit(x, Level(Fill, -params.tp), FALSE)
     ELSE IF now < w.horizon THEN y
     ELSE IF Extends(w) THEN [y EXCEPT !.extended = TRUE, !.horizon = params.until]
     ELSE Exit(x, price * Scale, FALSE)

LabBarClose ==
  /\ BarClose
  /\ lab' = IF lab.open THEN VariantWalked(lab) ELSE lab
  /\ UNCHANGED params

(* Both walks read the same bars, and the lab may be the last to read on.  *)
OutOfBars == lab' = IF lab.open THEN Exit(lab, price * Scale, FALSE) ELSE lab

LabDataEnd ==
  \/ DataEnd /\ OutOfBars /\ UNCHANGED params
  \/ /\ lab.open /\ ~walk.open
     /\ bar.n = 0
     /\ Fault("data")
     /\ OutOfBars
     /\ UNCHANGED <<side, plan, path, seen, monitor, walk, missed, params>>

LabNext ==
  \/ LabBarClose
  \/ LabDataEnd
  \/ (Tick \/ PollExits \/ PollKeeps \/ PollBlind \/ SavePeak \/ Restart) /\ UNCHANGED labVars

LabSpec == LabInit /\ [][LabNext]_<<vars, labVars>>
-----------------------------------------------------------------------------
AsWalk(w) == [open |-> w.open, peak |-> w.peak, adverse |-> w.adverse,
              favor |-> w.favor, px |-> w.px, gap |-> w.gap]

BreakevenArmed == Arm > 0 /\ walk.peak * Scale >= Level(Fill, -Arm)

(* exit_variants.py:20: "reproduces walk_candles bar-for-bar under         *)
(* production parameters; only that equivalence makes variant deltas       *)
(* trustworthy".  Until the breakeven stop arms, which the lab leaves out, *)
(* its walk is production's if it has the parameters of production, and a  *)
(* ratchet or a far target only leaves earlier; an extension begins only   *)
(* where production left in time and with the profit it asks for.          *)
VariantMirrorsWalk ==
  ~BreakevenArmed =>
    /\ ~lab.extended /\ params.tiers = Production /\ params.tp = plan.tp
         => AsWalk(lab) = walk
    /\ ~lab.extended /\ ~walk.open => ~lab.open
    /\ lab.extended =>
         /\ ~walk.open /\ ~walk.gap
         /\ walk.px >= Level(Fill, -params.min)
=============================================================================
