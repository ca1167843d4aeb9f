------------------------------ MODULE ExitRules -------------------------------
(***************************************************************************)
(* When does a position leave?  The exit rules of the live monitor         *)
(* (PositionManager._exit_reason and _eff_stop_label, with the peak it     *)
(* persists and a restart reads back) and those of the backtest            *)
(* (walk_candles, with its excursions), run side by side over one price    *)
(* path: the monitor polls some of the ticks, the walk sees bars.          *)
(*                                                                         *)
(* A price is signed by the side, a short being a long in negative prices, *)
(* so that higher is better on either side.  Percentages are in units of   *)
(* 1/Scale, and a level is a price times Scale.                            *)
(***************************************************************************)
EXTENDS Integers

CONSTANTS
  Prices,         \* what the market may trade at
  Entry,          \* the fill
  Scale,          \* a percentage of Scale is 100%
  Sensitivities,  \* the analyzer's time_sensitivity
  Horizons, Stops, Trails,   \* risk.*_by_sensitivity
  TakeProfit,     \* risk.take_profit_pct
  Arm, Off,       \* risk.breakeven_arm_pct, breakeven_offset_pct
  BarLen,         \* ticks in a bar
  Faults,         \* of "unfilled", "db", "crash", "blind", "data"
  MaxTicks,       \* bound: ticks
  MaxFaults       \* bound: faults

Percent == 0 .. Scale - 1

ASSUME ExitAssumption ==
  /\ Scale \in Nat \ {0}
  /\ Prices \subseteq Nat \ {0}
  /\ Entry \in Nat \ {0}
  /\ Horizons \in [Sensitivities -> Nat]
  /\ Stops \in [Sensitivities -> Percent]
  /\ Trails \in [Sensitivities -> Percent]
  /\ {TakeProfit, Arm, Off} \subseteq Percent
  /\ Off <= Arm              \* else the breakeven stop starts past the peak
  /\ BarLen \in Nat \ {0}
  /\ {MaxTicks, MaxFaults} \subseteq Nat

VARIABLES
  side,     \* 1 long, -1 short
  plan,     \* exit_params of the entry
  now,
  price,    \* the last trade
  bar,      \* the bar being built: how many ticks, open, high, low
  seen,     \* the monitor has polled the last trade
  live,     \* the Position in PositionManager._open
  row,      \* peak_px in its row
  shown,    \* eff_stop of the last positions.tick
  walk,     \* walk_candles
  missed,   \* history: the monitor did not act on every trade
  unsaved,  \* history: the peak advanced and its row did not
  lost,     \* history: a restart since the last tick read such a row
  faults

path    == <<now, price, bar>>
monitor == <<live, row, shown, unsaved, lost>>
vars    == <<side, plan, path, seen, monitor, walk, missed, faults>>

Fill == side * Entry

(* A level pct away from a price: adverse if positive, favourable if       *)
(* negative.                                                               *)
Level(p, pct) == p * (Scale - side * pct)

Higher(a, b) == IF a >= b THEN a ELSE b
Lower(a, b)  == IF a <= b THEN a ELSE b

(* exit_params: a trailing exit has no fixed take-profit.                  *)
ExitParams(ts) ==
  [horizon |-> Horizons[ts], stop |-> Stops[ts], trail |-> Trails[ts],
   tp |-> IF Trails[ts] > 0 THEN 0 ELSE TakeProfit]

(* compute_sl_tp, anchored to the fill.                                    *)
StopLoss == Level(Fill, plan.stop)
TakesProfit(p) == plan.tp > 0 /\ p * Scale >= Level(Fill, -plan.tp)

(* The binding stop given the peak: initial, trailing once in profit, or   *)
(* breakeven once armed.                                                   *)
Trailing(peak) ==
  IF plan.trail > 0 /\ peak > Fill
  THEN Higher(StopLoss, Level(peak, plan.trail)) ELSE StopLoss

EffStop(peak) ==
  IF Arm > 0 /\ peak * Scale >= Level(Fill, -Arm)
  THEN Higher(Trailing(peak), Level(Fill, -Off)) ELSE Trailing(peak)

Init ==
  /\ side \in {1, -1}
  /\ \E ts \in Sensitivities : plan = ExitParams(ts)
  /\ now = 0
  /\ price = Fill
  /\ bar = [n |-> 1, o |-> Fill, h |-> Fill, l |-> Fill]
  /\ seen = FALSE
  /\ live = [pc |-> "idle", open |-> TRUE, peak |-> Fill]
  /\ row = Fill
  /\ shown = StopLoss
  /\ walk = [open |-> TRUE, peak |-> Fill, adverse |-> Fill, favor |-> Fill,
             px |-> 0, gap |-> FALSE]
  /\ missed = FALSE
  /\ unsaved = FALSE
  /\ lost = FALSE
  /\ faults = 0

Fault(f) == f \in Faults /\ faults < MaxFaults /\ faults' = faults + 1
-----------------------------------------------------------------------------
(***************************************************************************)
(* The market: a trade at any price, gathered in a bar.                    *)
(***************************************************************************)
Tick ==
  /\ now < MaxTicks
  /\ bar.n < BarLen
  /\ \E p \in Prices :
       /\ price' = side * p
       /\ bar' = IF bar.n = 0
                 THEN [n |-> 1, o |-> side * p, h |-> side * p, l |-> side * p]
                 ELSE [n |-> bar.n + 1, o |-> bar.o, h |-> Higher(bar.h, side * p),
                       l |-> Lower(bar.l, side * p)]
  /\ now' = now + 1
  /\ seen' = FALSE
  /\ missed' = (missed \/ ~seen)
  /\ UNCHANGED <<side, plan, monitor, walk, faults>>
-----------------------------------------------------------------------------
(***************************************************************************)
(* The monitor.  A poll reads the mid price, advances the peak, and only   *)
(* then tests the stop; the time exit comes first and needs no price.      *)
(***************************************************************************)
Polls == live.open /\ live.pc = "idle"

Reason(peak) ==
  \/ now >= plan.horizon
  \/ price * Scale <= EffStop(peak)
  \/ TakesProfit(price)

PeakNow == IF now >= plan.horizon THEN live.peak ELSE Higher(live.peak, price)

(* A reason closes the position, or the close does not fill and the        *)
(* position is kept, with the advanced peak that nothing has written.      *)
PollExits ==
  /\ Polls
  /\ Reason(PeakNow)
  /\ seen' = TRUE
  /\ \/ /\ live' = [live EXCEPT !.open = FALSE, !.peak = PeakNow]
        /\ UNCHANGED <<missed, unsaved, faults>>
     \/ /\ Fault("unfilled")
        /\ live' = [live EXCEPT !.peak = PeakNow]
        /\ missed' = TRUE
        /\ unsaved' = (unsaved \/ PeakNow # live.peak)
  /\ UNCHANGED <<side, plan, path, row, shown, lost, walk>>

(* No reason: a new peak is written before the tick is published.          *)
PollKeeps ==
  /\ Polls
  /\ ~Reason(PeakNow)
  /\ seen' = TRUE
  /\ IF PeakNow # live.peak
     THEN /\ live' = [live EXCEPT !.pc = "saving", !.peak = PeakNow]
          /\ unsaved' = TRUE
          /\ UNCHANGED <<shown, lost>>
     ELSE /\ shown' = EffStop(live.peak)
          /\ lost' = FALSE
          /\ UNCHANGED <<live, unsaved>>
  /\ UNCHANGED <<side, plan, path, row, walk, missed, faults>>

(* Without a price only the time exit is enforced.                         *)
PollBlind ==
  /\ Polls
  /\ Fault("blind")
  /\ missed' = TRUE
  /\ live' = [live EXCEPT !.open = now < plan.horizon]
  /\ UNCHANGED <<side, plan, path, seen, row, shown, unsaved, lost, walk>>

(* The write of the peak fails silently, and is not repeated before the    *)
(* next new peak.                                                          *)
SavePeak ==
  /\ live.pc = "saving"
  /\ \/ row' = live.peak /\ unsaved' = FALSE /\ UNCHANGED faults
     \/ Fault("db") /\ UNCHANGED <<row, unsaved>>
  /\ live' = [live EXCEPT !.pc = "idle"]
  /\ shown' = EffStop(live.peak)
  /\ lost' = FALSE
  /\ UNCHANGED <<side, plan, path, seen, walk, missed>>

(* A crash, and restore().                                                 *)
RestoredEntry == Fill                                               \* mutant
Restored == row
Restart ==
  /\ live.open
  /\ Fault("crash")
  /\ live' = [pc |-> "idle", open |-> TRUE, peak |-> Restored]
  /\ lost' = (lost \/ unsaved)
  /\ unsaved' = FALSE
  /\ seen' = FALSE
  /\ missed' = TRUE
  /\ UNCHANGED <<side, plan, path, row, shown, walk>>
-----------------------------------------------------------------------------
(***************************************************************************)
(* The walk.  The stop of a bar comes from the peak before it; a bar that  *)
(* opens beyond the stop fills at its open, and the stop is tried before   *)
(* the take-profit.                                                        *)
(***************************************************************************)
Exit(w, px, gap) == [w EXCEPT !.open = FALSE, !.px = px, !.gap = gap]

WalkedPeakFirst(w) ==
  LET p   == Higher(w.peak, bar.h)
      eff == EffStop(p)
      x   == [w EXCEPT !.peak = p, !.adverse = Lower(@, bar.l),
                       !.favor = Higher(@, bar.h)]
  IN IF bar.o * Scale <= eff THEN Exit(x, bar.o * Scale, TRUE)
     ELSE IF bar.l * Scale <= eff THEN Exit(x, eff, FALSE)
     ELSE IF TakesProfit(bar.h) THEN Exit(x, Level(Fill, -plan.tp), FALSE)
     ELSE IF now >= plan.horizon THEN Exit(x, price * Scale, FALSE)
     ELSE x                                                         \* mutant
Walked(w) ==
  LET eff == EffStop(w.peak)
      x   == [w EXCEPT !.adverse = Lower(@, bar.l), !.favor = Higher(@, bar.h)]
  IN IF bar.o * Scale <= eff
     THEN Exit([w EXCEPT !.adverse = Lower(@, bar.o)], bar.o * Scale, TRUE)
     ELSE IF bar.l * Scale <= eff THEN Exit(x, eff, FALSE)
     ELSE IF TakesProfit(bar.h) THEN Exit(x, Level(Fill, -plan.tp), FALSE)
     ELSE IF now >= plan.horizon THEN Exit(x, price * Scale, FALSE)
     ELSE [x EXCEPT !.peak = Higher(@, bar.h)]

BarClose ==
  /\ bar.n = BarLen
  /\ bar' = [bar EXCEPT !.n = 0]
  /\ walk' = IF walk.open THEN Walked(walk) ELSE walk
  /\ UNCHANGED <<side, plan, now, price, seen, monitor, missed, faults>>

(* The bars end before the horizon: out at the last close.                 *)
DataEnd ==
  /\ walk.open
  /\ bar.n = 0
  /\ Fault("data")
  /\ walk' = Exit(walk, price * Scale, FALSE)
  /\ missed' = TRUE
  /\ UNCHANGED <<side, plan, path, seen, monitor>>

Next == \/ Tick \/ PollExits \/ PollKeeps \/ PollBlind \/ SavePeak
        \/ Restart \/ BarClose \/ DataEnd

Spec == Init /\ [][Next]_vars
-----------------------------------------------------------------------------
(* Every variable keeps its type.                                          *)
TypeOK ==
  /\ side \in {1, -1}
  /\ plan \in [horizon : Nat, stop : Percent, trail : Percent, tp : Percent]
  /\ now \in Nat
  /\ price \in Int
  /\ bar \in [n : 0 .. BarLen, o : Int, h : Int, l : Int]
  /\ seen \in BOOLEAN /\ missed \in BOOLEAN
  /\ unsaved \in BOOLEAN /\ lost \in BOOLEAN
  /\ live \in [pc : {"idle", "saving"}, open : BOOLEAN, peak : Int]
  /\ row \in Int /\ shown \in Int
  /\ walk \in [open : BOOLEAN, peak : Int, adverse : Int, favor : Int,
               px : Int, gap : BOOLEAN]
  /\ faults \in Nat

(* The stop last shown to the dashboard is never looser in fact, over      *)
(* polls, failed closes and restarts, unless a restart read a row the      *)
(* advanced peak had not reached (position_manager.py:265, "so a restart   *)
(* keeps the trail").                                                      *)
StopShownIsKept == live.open /\ ~lost => shown <= EffStop(live.peak)

(* The monitor mirrors the backtest: if it acted on every trade, then it   *)
(* has left by the time the walk has, whichever rule fired.  A bar that    *)
(* armed or tightened the stop with its own extreme would break this.      *)
LiveLeavesFirst == ~missed /\ seen /\ ~walk.open => ~live.open

(* The fill of the walk lies within the excursions it reports, and unless  *)
(* the bar gapped it is no worse than the initial stop.                    *)
FillWithinExcursions ==
  ~walk.open =>
    /\ walk.adverse * Scale <= walk.px
    /\ walk.px <= walk.favor * Scale
    /\ ~walk.gap => walk.px >= StopLoss
=============================================================================
